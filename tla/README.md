# A verification development for n2pkvna

`n2pkvna` drives Paul Kiciak's homebuilt vector network analyzer (the N2PK
VNA) over USB.  This directory holds TLA+ modules that model the program, TLC
configurations that check them on small instances, and TLAPS proofs of the
results that matter most.  `PROJECT.json` maps every definition to the lines
it models (paths are relative to the repository's `src/`, the tree that has
`src/n2pkvna`, `src/libn2pkvna` and `src/n2pkvna-gui` in it).

1. The system  2. The modules  3. The runs  4. The proofs
5. Disagreements between the code and what it says  6. What is not modelled
7. Plan

## 1. The system

    n2pkvna-gui (Perl/Gtk)     main thread, worker thread, child process
          |  two pipes: lines down, YAML documents up   (n2pkvna -Y)
    n2pkvna (C)                command loop: calibrate, measure, switch, ...
          |  function calls
    libn2pkvna (C)             configurations, lock, USB commands
          |  libusb
    the VNA                    oscillators, switches, attenuator, detectors

libvna (calibration mathematics), libyaml, libusb and the firmware are not in
the repository, or only as hex images: they are external.

### 1.1 libn2pkvna

**Configurations** (`n2pkvna_open.c`, `n2pkvna_parse_config.c`,
`n2pkvna_save.c`).  State: directories under `~/.n2pkvna`, each with `config`,
`config.bak`, `config.new` and the lock file `config.lck`; per process the
handle with its copy of the configuration.  `n2pkvna_open` reads all
configurations without a lock, matches their addresses with the bus, demands
that exactly one configuration and one VNA result (otherwise it returns a
listing), locks the configuration, reads it again, binds it to the VNA if it
has no address, and opens the device.  The user's unit
address is parsed (`n2pkvna_parse_address.c`) and becomes a filter of the
devices on the bus.  `n2pkvna_save` writes `config.new`, syncs it, unlinks
`config.bak`, links `config` to it and renames.
`n2pkvna_close` releases the lock.  Hard: two processes; what was read before
the lock is stale; a kill between any two of those steps; an error in any of
them.  Correct when: files are always whole; no saved change is ever lost; the
copy of the holder of the lock is current; the backup is the previous
contents; a configuration is never used with another model of VNA; an address
lets through the devices its text names and no others.

**USB protocol** (`n2pkvna_hardware.c`, `n2pkvna_scan.c`, `n2pkvna_switch.c`,
`n2pkvna_reset.c`, `n2pkvna_generate.c`).  State: what the VNA has been sent
and not done, the measurements not read, its switches; within a call the
position in the pipeline and the number of tries.  A scan sets eight phases at
each frequency and keeps one setting ahead of the reply it reads.  Hard:
replies carry no identity; a scan that fails or is killed leaves replies and
unfinished settings behind; errors do not say whether the VNA has received
the command; polling and its limit.  Correct when: a reply is only ever
counted for the setting it belongs to, and was measured with the switches
where they were asked to be; every call returns.

**Rest**: conversion of frequencies, phases and ADC codes, `adjust_ratio`,
error formatting.  Pure functions.

### 1.2 n2pkvna

**Measurement loop** (`measurement.c`).  State: `gs_switch` (switch code last
set), `gs_mstep` (pointer to the manual step last prepared), `gs_need_ack`,
the pending messages, the `m_used` flags of the setup, and in a call
`remaining_mask`.  `make_measurements` repeatedly takes the cheapest
measurement that still contributes a vector, instructs the operator, sets the
switches, waits for an acknowledgement, scans, and at last solves for the
matrix.  Called by calibrate and measure; disturbed by the switch command,
which leaves `gs_switch` alone, and by `setup yload`, which frees setups.
Hard: the cached beliefs about switches and operator survive failures,
cancels and freed memory; the flags survive the call.  Correct when: every
vector needed is scanned before solving; each scan runs with VNA and operator
as the measurement demands; no step is asked for twice or needlessly; the
loop ends.

**Measurement matrix** (`measurement_matrix_add` and `_solve`, and what
calibrate.c and measure.c make of the result).  State: per cell of the matrix
the samples so far, by a vector code (kind, row and column in four bits); the
matrices A and B being filled; in measure the result of the first of two calls.
Hard: flat indices into matrices of different dimensions; a calibration may be
smaller than the setup in its file; vectors come in any order, some twice;
probes exchanged between two calls.  Correct when every element libvna is given
is made of all the samples of its own vector and of nothing else.

**Setups** (`properties.c`, `setup.c`).  State, five copies: the "setups"
property of the configuration file, the tree libn2pkvna keeps of it, the list
`gs_setups`, the list of the GUI, and the copy in each calibration file.  They
are read when the program starts, changed by `setup yload`, and written at
several places, of which each may fail in the middle.  Hard: reading and
writing are not inverse to each other; a refused yload has already changed some
of the copies; the file may be edited by hand.  Correct when the copies agree
wherever no known failure lies between them, no setup is lost, the program can
read what it wrote, and measure uses the setup that was calibrated with.

**Standards** (`cal_standard.c`).  The `-S` string of calibrate is scanned
token by token; abbreviations (SOLT, ...) are replaced in place while
scanning.  Correct when the accepted strings are those with a meaning for the
dimensions of the setup, the steps returned are that meaning, and the others are
refused (of some of them the refusal crashes, section 5).

**calibrate and measure** (`calibrate.c`, `measure.c`).  State: what the
program believes is connected to the probes (`pc_cur1`, `pc_cur2`), the
pending instructions, the owed acknowledgement.  For each step they add the
instructions needed to get from the believed to the wanted connection, call
`make_measurements`, and declare to libvna what was measured; measure may
measure a device twice, the second time with the probes exchanged.  Hard:
instructions and acknowledgements left behind by a failed command.  Correct
when what libvna is told of a measurement is where the probes were.

**Command loop and messages** (`main.c`, `cli.c`, `message.c`, `setup.c`).
With `-Y` every prompt writes one YAML document with the messages collected
since the last one and a status.  `setup yload` reads its input from the
command stream.

### 1.3 n2pkvna-gui

**Driver** (the N2PKVNA package and `run_command_dialog` of
`n2pkvna-gui.pl`).  State: `{state}` of the object, two `Thread::Queue`s, the
worker thread, two pipes, the child.  The main thread enqueues requests and
waits, or polls with a timer, for responses; the worker writes lines to the
child and reads one document for each.  Hard: neither lines nor documents
carry an identity, five parties have to stay in step; cancel, quit in the
middle of a scan, the death of either process.  Correct when an answer is
always read by the prompt that it is meant for, every request is answered,
quitting always succeeds and nothing outlives the GUI.

**Windows**: widgets, plots, file dialogs.  They reach the program only
through `run_command`.

## 2. The modules

| Module | Models | Extends / uses |
| --- | --- | --- |
| `Setups` | setups, their vectors and masks; what `parse_setup` accepts | |
| `Measurements` | `make_measurements` and the commands around it | `Setups` |
| `MeasurementsProofs` | proofs | `Measurements` |
| `ConfigStore` | abstract: a configuration as a cell that one process at a time holds | |
| `VnaOpen` | open, save, close; processes and files | refines `ConfigStore` |
| `VnaOpenProofs` | proofs, the refinement included | `VnaOpen` |
| `StandardsParser` | `cal_standard.c`, one action per step parsed | |
| `StandardsMeaning` | reference definition of what an `-S` string means | `StandardsParser` |
| `Calibration` | calibrate and measure with operator and probes | `StandardsParser` |
| `CalibrationProofs` | proofs, those about the parser included | `Calibration`, `StandardsMeaning` |
| `MatrixSolve` | `measurement_matrix_add`/`_solve` and the matrices handed to libvna | `Setups` |
| `MatrixSolveProofs` | proofs | `MatrixSolve` |
| `SetupStore` | the copies of the setups, and the commands that read and write them | `Setups` |
| `SetupStoreProofs` | proofs | `SetupStore` |
| `ParseAddress` | the parser of unit addresses and the filter they become | |
| `AddressProofs` | proofs | `ParseAddress` |
| `Dialogue` | abstract: what the GUI and the program promise each other | |
| `Session` | GUI, worker thread, pipes, `n2pkvna -Y` | refines `Dialogue` |
| `SessionProofs` | proofs, the refinement included | `Session` |
| `Scan` | the USB calls, the commands that make them, the VNA | |
| `ScanProofs` | proofs | `Scan` |
| `MC*` | small instances for TLC | |

Conventions.  Variables and actions have the names of the code where TLA+
allows; an action is a stretch of the program between two points where
something else can happen (a failure, a prompt, another process, a kill).
Definitions commented "Mutant:" are plausible bugs; nothing refers to them.
`PROJECT.json` names for every property one that TLC finds to violate it.
Variables marked "history" or "world" are not in the program: they are the
truth that its beliefs are compared with.

**Measurements.**  `Select` is `find_best_measurement` with the instruction;
`SkipSwitch`/`SetSwitch`/`SwitchFails`, `NoAckNeeded`/`Acknowledge`/`Cancel`,
`Scan`/`ScanFails`, `Solve`/`SolveFails` are the stages of one turn of the
loop, in their order.  The VNA's real switch code is `vnaSwitch` and the step
that the operator really prepared `prepared`.  `gs_mstep` is a reference to a
step of one copy of a setup; when the copy is freed it is `Dangling`, and a
later allocation may make it point to any step of another setup, as malloc may
reuse the address.  `stepDoubt` and `switchDoubt` record the known ways in
which belief and truth come apart, so that the properties say that there are
no others.

**VnaOpen.**  One action for each system call whose failure or absence
matters.  `cur`, `bak` and `new` are the three files of each configuration:
absent, partially written, unreadable, or contents (the model of VNA it is
bound to, and the set of changes saved in it).  A kill loses the process and
its lock and leaves the files.

**StandardsParser / StandardsMeaning.**  The scanner works on a sequence of
tokens; replacing an abbreviation prepends its expansion.  The meaning is
defined independently and by positions, never by what is left to read: the
string with its abbreviations spelt out (`Spelt`) is cut at its commas, and
`Readings` collects the standards of each piece.  A step that fails ends the
parse in one of two ways: `BadStep` reports the error, and `CrashStep` crashes
doing so, because nothing has been scanned that could be shown (`NoText`) or
because the message lacks an argument (`MissingArgument`: undefined behaviour,
so both actions are enabled).  `NothingBeforeError` and `TwoPortSecond` say the
same of the string itself.  `ParserSpec` runs the parser alone, for every string
and setup; `Calibration` runs it with the rest, where a crash of the parser ends
the command and the session (`ParseCrashes`).

**Calibration.**  `probe` is where the two probes really are, moved only by
an operator who follows the instructions shown, in order, and by `Rewire`
between commands.  `make_measurements` is reduced to the ways it can end,
among them the one that returns success without a result (section 5); the
manual steps of a setup are left to `Measurements`.  `NoNeedlessConnection`
speaks only of a probe the step before has used: where a probe is that no step
of the command has mentioned the program cannot know, and after an earlier
command it may ask for what is there already (`"S,O-"` on a setup with one row).

**MatrixSolve.**  A sample is which call, which measurement, which detector; a
value is how it was computed and from which samples.  The matrices are arrays
with the flat indices of the code; an assignment outside of one sets `overrun`.
`Add` takes the measurements in any order, which includes the one that
`Measurements` shows to be taken.  The code decodes the samples of a cell with
voltages or currents wrongly (section 5): `Decoded` is what it computes.
`ApplyTwo` has only the assembly for column systems, since the assertions before
it fail for every other calibration that measured A.  An element of A without a
cell stays `Null`, and `ElementsAreMeasured` says which these are: the second
row of A of a 1x2 calibration, and nothing else.

**SetupStore.**  A document is a setup as YAML has it, with texts, the order of
two keys, and whether something else is wrong with it; `Parsed` is what
`parse_setup` makes of it and `Rendered` what `properties_save` writes.
`ParseNext` reads one document, since a bad one after good ones leaves the list
changed.  `Torn` is what a save that fails in the middle leaves.  `Edit` is the
operator changing the file between two sessions.  `treeIs`, `fileIs` and
`guiIs` are history: which failures lie between two copies, so that
`CopiesAgree` says that there are no others.

**ParseAddress.**  Strings are sequences of the scanner's tokens; a word is what
`decode_hex16` and `decode_int8` make of it.  One step is one turn of a loop of
the parser.  The meaning is defined independently and by positions: a piece
between two commas is a head and suffixes, and there are three ways to read it,
since a separator may belong to the head, to the first suffix or to both (they
exclude each other, as `AddressProofs` shows, so no piece is ambiguous); a reading
is a set of statements (a field, and the position of the word that states it).

**Session.**  One variable for the place of each party: the main thread
(`gui`), the worker, the child.  `setup`, `calibrate`, `cf` and `attenuate`
stand for the commands that read input, may ask for acknowledgements, ask for
a frequency, and do neither; only calibrate (and measure, which behaves alike)
are polled for with a timer, so only during them can the operator quit.
`Dialogue` is the session without its machinery: one line said and not heard,
one answer given and not learned, the place of the program and the question its
command may still ask.  The mapping reads the line off the queue or the pipe
that holds it, the answer likewise; `setup` is heard when its input is.  Once
the GUI quits or dies, what is under way concerns nobody, and only that the
program goes on to its end remains.

**Scan.**  A call is a sequence of transfers; the settings of a scan are
numbered through, and the complex sums the code builds are represented by the
sequence of the replies they are made of.  The VNA (external) is
assumed to do what it is sent in order, to deliver the values of each
measurement once and in order, and otherwise to report the op code of what it
did last.  `SWITCH_DELAY` (0.1 s) is assumed to be enough for it to do what it
has been sent; at most two measurements and the switch command are under way.

## 3. The runs

All run to completion in a few minutes at most.  `MC*.tla` and the `.cfg`
files give the instances.

| Run | What it shows | Bounds, and why they are enough |
| --- | --- | --- |
| `measurements` | The loop covers what it solves, scans as prepared and switched, asks once and not needlessly, hits no assertion and ends | three setups: one with two manual steps and two switch codes, one with two detectors, one with overlapping and useless measurements and current vectors; switch codes 0 and 1; two calibration steps, so that a second call meets what the first left behind; any number of commands |
| `measurements_success` | Success without a result | the instance of `measurements` |
| `vna_open` | Files whole, nothing lost, copy current, backup, model; refinement of `ConfigStore` | two processes (all races are between two), one configuration, two VNAs of two models; any number of opens, saves and kills |
| `device_locked` | Two processes hold one VNA | two configurations that name it |
| `standards` | Parser and meaning agree; which strings crash the program | every string of up to four tokens of an alphabet of seven, all dimensions, all kinds of user-defined standard; four tokens hold every two-standard step with a comma or an abbreviation next to it |
| `calibration` | What libvna is told is where the probes were; a file is complete; no needless connection | eight strings chosen so that every case of the instructions follows every other that it can, and two on which the parser crashes; instructions left behind by at most one earlier command (`MaxPending`), which suffices since they only add up |
| `matrix` | What calibrate and measure hand to libvna is what was measured there; where the program stops or writes outside a matrix is known | eight setups (757 states): the hardware setups of doc/html/setup.html, a vector measured in two measurements, a partly measured A, voltages; every dimension up to 2x2, the largest a setup may have, both kinds of columns, measure with one and two calls |
| `rfiv` | The RF-IV setup of the documentation cannot be measured with | that setup alone |
| `setup_store` | Copies agree, nothing is lost, what is written can be read, measure uses the setup calibrated with | two names, two files edited by hand, four yloads (827,000 states): texts, equal texts, bad documents after good ones; the number of sessions, edits and failures is not bounded |
| `address` | An address lets through what its text names | every string of up to four tokens over five words, separators, comma and an illegal character, and those of five and six over fewer; 32 devices (252,555 states); six tokens hold a head with two suffixes, and two terms with a suffix each |
| `session` | The parties stay in step; every request is answered; quitting and dying end everything; refinement of `Dialogue` | none: the protocol bounds its queues and pipes by itself |
| `scan` | Replies belong to their settings and switches, at most two outstanding, calls return | two phases for eight and up to two frequencies, so that the frequency changes while the pipeline is full; three tries for nine; up to three commands the VNA has not done |

Fairness.  `Measurements`: the program runs (`Program`), and the operator
answers a prompt in the end; the commands themselves are not obliged to
come.  `Session`: the main thread, the worker and the program each run; a
command ends or asks something, because `Measurements` and `Scan` show that it
does; the operator need not answer, and nobody need quit or die.  `Scan`: a call
that has begun goes on and the VNA does what it has been sent.  All are
weak fairness of whole processes: no scheduling between them is assumed.
Liveness is stated of `CommandEnds`, `SentIsAnswered`, `QuitEnds`,
`ProgramEnds` and `CallReturns`.

Deadlock is not checked in `standards` and `address` (a parser stops) and `session` (the GUI
and the program end).

## 4. The proofs

Eight modules hold proofs; all leaves are checked.  Every safety property that
a passing run checks is stated by a theorem.

**`MeasurementsProofs`** - type correctness and all safety properties of
`Measurements`, for every set of accepted setups, any switch codes and any
number of calibration steps; assumed is only that each setup is one that
`parse_setup` accepts (`SetupAssumption`).  The properties are not inductive;
the invariant `Inv` adds: a measurement without the flag that could still
contribute exists for each vector remaining (`UsedInv`); what has been scanned
and what remains make up what was needed (`CoveredInv`); belief and truth about
the manual step agree unless `stepDoubt`, and an instruction still unread
is that of `gs_mstep` (`StepInv`); likewise for the switches (`SwitchInv`);
and a step asked for earlier in a call has nothing left to contribute once
another is asked for (`AskedInv`), which needs that preparing a step costs
more than setting a switch.

**`VnaOpenProofs`** - type correctness, every property of `VnaOpen`, and that
it implements `ConfigStore`, for any number of processes, configurations and
VNAs.  The invariant adds: the holder of a lock is exactly a process
that is in the part of the program that holds it (`LockInv`); what the files
hold at each step of save (`FileInv`); that the copy contains what has been
saved (`MemInv`); and that an unreadable file is never locked (`ReadableInv`).
The refinement maps `cur` to the store, the locks to the holders, and the
copies of the holders, the file itself between lock and re-read.

**`CalibrationProofs`** - type correctness and all safety properties of
`Calibration`, for any `-S` strings and user-defined standards.  The
invariant says of each stage of a step that following the instructions still
pending, leftovers of earlier commands included, takes the probes from where
they are to where the step wants them; it rests on the lemma that the last
instruction for a probe decides.  `ConnectionsNeeded` needs besides that between
two steps `pc_cur` is what the step before wanted, and that a standard has as
many ports in one step as in another (`CarryInv`).

The second half is the parser of `-S` strings: `ParserCorrect` and
`ParsedCorrect` state `ParsedIsMeant` of `ParserSpec` and of `Spec`, for strings
of any length.  The meaning cuts and reads the whole string at once, the
parser one token at a time, replacing abbreviations as it goes.  The invariant
(`MeaningInv`) says that what is left to scan, spelt out, is the spelt-out string
behind some position, that this position begins a piece, and that the steps
accepted are the readings of the pieces before it (`GoodMeaning`).  Where a step
fails, the piece there has no reading and begins with what was read of it
(`FailedPiece`), from which follows what is true of a string that is refused
(`BadMeaning`) or on which the program crashes (`CrashMeaning`).  What `Spelt`
computes for every sequence is shown by induction, in the form of
`SetInduction`: a set of natural numbers with 0 and every successor.

**`ScanProofs`** - type correctness and all safety properties of `Scan`, for
any number of phases (at least two), frequencies and tries and any number of
commands that the VNA may have yet to do (at least two, `ScanAssumption`).
None of the properties is inductive, since a reply does not name its setting.
The invariant says that during a scan the measurements under way and unread
are, in order, the settings from the first not yet added to the last one sent
(`PipeInv`); for which a scan must begin with none under way, which the
attenuator command and the delay at the start of every calibrate and measure
ensure (`BacklogInv`), and with no more unread than the two reads of
`flush_input` take; and that the last command under way that moves the switches
is the one awaited (`SwitchInv`).

**`MatrixSolveProofs`** - type correctness and all safety properties of
`MatrixSolve`, for any accepted setups and any order of their measurements.  The
invariant follows one sample from its measurement to the element it ends in:
whose vector it is (`TakenInv`), that the cells hold exactly the samples of this
call that belong there (`CellsInv`), that every vector needed has one when the
loop is done (`CoverInv`), and what the elements already visited are made of,
those of the first of two calls included (`SolvedTo`, `ResultInv`).  It needs
that a cell is found by its vector and no other (`VectorIsItsCell`), that the
elements of A of two cells are different, that those without a cell stay as
allocated (`Unassigned`), and that whether A is needed depends on the setup
alone (`NeedsAFact`), so that both calls of measure agree on it, namely on
whether a vector of A is measured (`HasAFact`).

**`SetupStoreProofs`** - type correctness and all safety properties of
`SetupStore`, for any setups, files edited by hand and yloads.  The first part
shows that what `parse_setup` made of a document is read the same once it has
been written (`WritingKeepsSetups`), though not the document itself, whose
text may have become the name.  The invariant says of the starting program that
the list is what the documents read so far parse to (`StartInv`), later that the
copies agree (`RunInv`), that a yload of the GUI changes the list as the GUI will
change its own (`GuiInv`), and that a file the program wrote from a whole tree
can be read (`FileInv`).

**`SessionProofs`** - type correctness and all safety properties of `Session`.
None is inductive: four parties move on their own, and neither a line nor a
document says what it belongs to.  The invariant says that one thing at a time
is under way: `Requested`, `Working` or `Answered`, followed from the queue
through worker, pipe and program and back, with at most a close behind it when
the operator quits while a timer polls.  `Pipes` says what the pipes may hold,
depending on where the program is, and `Refusal` that a cancel is remembered
until the document that reports it.  `Session` has no constants, so TLC's run is
exhaustive; the proof adds the reason, and `NoneWaitsForNothing`: unless the
program could not be started, whoever the GUI waits for can move.  That is what
`SentIsAnswered` and `QuitEnds` rest on, beside fairness.  `ImplementsDialogue`
shows step by step that queues, thread, pipes and program implement `Dialogue`.
It needs `Begins` besides: until the device is open nothing is said, and a
command that reads input has no question.

**`AddressProofs`** - `AddressIsMeant`, for addresses of any length, any words
and any devices.  Where the suffixes of a piece begin the parser decides with
two tokens of look-ahead; `Begins` says the same of the input, and
`ReadingsAre` that it leaves at most one of the three readings.  The invariant
says that what was read of the piece is a part of that reading, that the pieces
before it have one reading each, and that of each field the address holds the
last statement (`Holds`).

The type invariants of `Measurements`, `Calibration`, `ParseAddress` and `Session`
are only proved, those of the other modules with proofs are both proved and checked.

Only model-checked, because out of the provers' reach, are the liveness
properties: `CommandEnds`, `SentIsAnswered`, `QuitEnds`, `ProgramEnds` and
`CallReturns`.  The induction theorems of the library cannot be instantiated
with the provers used; where a proof needs induction over data or a least
element, it uses a well-founded order on sets (`SetInduction`,
`LeastNatural`).

## 5. Disagreements between the code and what it says

Each of these has a run in which TLC finds the statement violated:

| Run | Statement | What happens |
| --- | --- | --- |
| `measurements_success` | measure.c:406 asserts that a result has its matrix | measurement.c:731 stores the answer of the prompt in the function's own return code; a scan that fails afterwards is reported as success |
| `device_locked` | n2pkvna_open.c:585 "Lock the device" | the lock belongs to the configuration; two configurations may name one VNA |
| `rfiv` | doc/html/setup.html:263 and :269 describe what is measured with the RF-IV setup | measurement.c:431 and :485 declare a counter `row` that hides the row of the cell, so the second sample is decoded as of the second row and the program ends in abort() |

Met while modelling, without a run of its own: `gs_mstep` is set before the
operator has answered (measurement.c:713, against the comment at :697), so after
a cancel or a failed switch the next call scans without the instruction (the
`stepDoubt` of `ScanIsPrepared`); with two configurations of which one has one
device, the listing has one entry, although main.c:215 asserts that it is a
choice (n2pkvna_open.c:565); a lone standard is a reflect on port 1 only if the
setup has more than one row (cal_standard.c:638, against the comment at :635),
so in a 1x2 setup calibrate.c:383 dereferences NULL; when the VNA cannot be
opened main exits without flushing the messages (main.c:338, against the comment
at :378); the text of a manual step is stored into its name (properties.c:293,
against :270; `ParsedName` of `SetupStore`); setups are saved with fewer digits
of their frequencies than they were given; a 2x1 calibration that is not of
column systems and measures A has a 1x1 matrix A, written outside of at
measurement.c:411 and refused by the assertion at measure.c:555 (`KnownTrouble`
of `MatrixSolve`); a 1x2 calibration that is not of column systems and measures
A has a 2x2 matrix A (measurement.c:295 and :317), of which the loop over the
cells of the one row of B assigns only the first row (measurement.c:338-411), and
calibrate.c:401-442 hands libvna the NULL vectors of the second (the exception
in `ElementsAreMeasured`); an empty `-S` string, or one that begins with a
character the scanner rejects, makes print_here (cal_standard.c:251, called at
:624) follow the pointer `ss_text`, which no token has set (`NoText`); a
two-port standard after a dash, as in "S-T" or "-T", is reported by a message
with two "%s" and one argument (cal_standard.c:674; `MissingArgument`); a scan that fails in the middle leaves the RF output on
(n2pkvna_scan.c:123); the switch command does not update
`gs_switch` (switch.c:94; covered by `switchDoubt`); the default standards
string is refused for a 1x2 setup (cal_standard.c:646); TOSL is documented
(n2pkvna.1:69) and unknown to the scanner; "S-O" is accepted for a 1x1 setup
(cal_standard.c:667); measure frees the setup `gs_mstep` points into
(measure.c:637); the listing has all addresses of a matching configuration,
not only the matching ones (n2pkvna_open.c:528); the error callback used while
a configuration is parsed dereferences a null handle (parse_config.c:187);
instructions of a failed command stay pending without `-Y` (message.c:591); a
warning from `n2pkvna_open` makes the GUI die, since the first document then
has status "error"; "Unexpected response." (message.c:70) and "Saved to"
(measure.c:626) go to stdout, into the stream of documents; measure.c:611-616
frees `mr1` twice and `mr2` never; n2pkvna_switch.c:56 checks the switch value
where it means the attenuator; the listing advises options -c and -u
(main.c:218) that are -N and -U.

## 6. What is not modelled, and why

* The arithmetic of `measurement_matrix_solve`: averages and least squares are
  represented by the samples they are made of.
* Frequency, phase, delay and ADC codes, `adjust_ratio` of
  `n2pkvna_generate.c`: arithmetic on doubles.
* Frequencies in setups and files: only whether they are acceptable.
* Options and their checks, convert, the commands that list and print setups:
  they change no state that a property is about.
* libvna, libusb, libyaml, the firmware, the file system beyond the atomicity
  of rename and link: external.
* The windows of the GUI.
* Blanks in `-S` strings.  In the grammar they mean nothing, but a refused string
  that ends in blanks makes print_here write the blank it had saved over the end
  of the string and print what lies beyond (cal_standard.c:250: the end of the
  string has been scanned, and `ss_savechar` is still the character after the
  last token).
* Nobody edits the configuration files by hand in `VnaOpen`; that they may be
  unreadable or absent at first is modelled.  In `SetupStore` they are edited
  between two sessions.
* The two definitions that overlap, the reduced `make_measurements` of
  `Calibration` and the one of `Measurements`, are related only by inspection.

## 7. Plan

Done: the modules above, most important first: the measurement loop, the
configurations, the standards and the instructions, the session, the scan, the
measurement matrix, the setups, the addresses.

Next, to model: the widths of the frequency and phase codes and the
limits of `adjust_ratio`; the composition of `Calibration` with
`Measurements`, to replace the reduced `make_measurements`; `VnaOpen` with two
configurations in a passing run.

Next, to prove: what the liveness properties rest on in `Scan` and
`Measurements`, as `NoneWaitsForNothing` does for `Session`: while a call or a
command is under way, somebody can move.
