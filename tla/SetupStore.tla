------------------------------ MODULE SetupStore ------------------------------
(***************************************************************************)
(* The copies of the setups: the "setups" property in the configuration    *)
(* file, the property tree libn2pkvna keeps of it, the list gs_setups that *)
(* the commands use, the list the GUI shows, and the copy calibrate puts   *)
(* into a calibration file and measure reads back (properties.c, setup.c,  *)
(* main.c, cf.c, calibrate.c, measure.c, n2pkvna-gui.pl).                  *)
(*                                                                         *)
(* A setup in one of the trees is a document, a setup in gs_setups what    *)
(* parse_setup makes of one.  That the file is written as a whole or not   *)
(* at all is shown in VnaOpen.                                             *)
(***************************************************************************)
EXTENDS Setups

CONSTANTS
    SetupName,  \* names of setups
    Label,      \* names and texts of manual steps
    None,       \* no name, no text
    HandFiles,  \* contents the operator may give the configuration file
    Inputs,     \* contents that setup yload may be sent
    DefaultRB   \* default_RB_setup

(***************************************************************************)
(* Documents.  "textLast" is the order of the keys name and text of a      *)
(* step; "broken" stands for anything the parser refuses that is not a     *)
(* matter of the vectors, switches and names: an unknown key, a list       *)
(* instead of a scalar, frequencies out of order.                          *)
(***************************************************************************)
DocStep == [name : Label \cup {None}, text : Label \cup {None},
            textLast : BOOLEAN, meas : Seq(Measurement)]
Doc == [rows : 1..2, cols : 1..2, steps : Seq(DocStep), broken : BOOLEAN]
NoDoc == [rows |-> 0, cols |-> 0, steps |-> <<>>, broken |-> TRUE]
Entry == [name : SetupName, doc : Doc]

\* The keys of a map are distinct.
IsTree(t) ==
    /\ t \in Seq(Entry)
    /\ \A i, j \in 1..Len(t) : i # j => t[i].name # t[j].name

ASSUME LabelAssumption == None \notin Label
ASSUME ContentsAssumption == \A t \in HandFiles \cup Inputs : IsTree(t)

-----------------------------------------------------------------------------
(***************************************************************************)
(* parse_mstep and parse_setup.  The text of a step is stored into the     *)
(* variable of its name, whichever key comes last; the variable text stays *)
(* NULL.                                                                   *)
(***************************************************************************)
ParsedName(step) ==
    IF step.text # None /\ (step.textLast \/ step.name = None)
    THEN step.text ELSE step.name

ParsedStep(step) == [name |-> ParsedName(step), text |-> None, meas |-> step.meas]

Parsed(doc) ==
    [rows |-> doc.rows, cols |-> doc.cols,
     steps |-> [i \in 1..Len(doc.steps) |-> ParsedStep(doc.steps[i])]]

\* Steps have different names, or there is one of them.
DistinctNames(doc) ==
    \A i, j \in 1..Len(doc.steps) :
        i # j => ParsedName(doc.steps[i]) # ParsedName(doc.steps[j])

\* The setup as Setups has it.
Abstracted(doc) ==
    [rows |-> doc.rows, cols |-> doc.cols,
     steps |-> [i \in 1..Len(doc.steps) |->
                  [named |-> ParsedName(doc.steps[i]) # None,
                   meas |-> doc.steps[i].meas]]]

Parses(doc) == ~doc.broken /\ Accepted(Abstracted(doc)) /\ DistinctNames(doc)

(***************************************************************************)
(* properties_save writes of a step its name, its text if it has one, and  *)
(* its measurements.                                                       *)
(***************************************************************************)
RenderedStep(step) ==
    [name |-> step.name, text |-> step.text, textLast |-> TRUE,
     meas |-> step.meas]

\* Mutant: the names of the steps are not written.
RenderedNameless(setup) ==
    [rows |-> setup.rows, cols |-> setup.cols,
     steps |-> [i \in 1..Len(setup.steps) |->
                   [RenderedStep(setup.steps[i]) EXCEPT !.name = None]],
     broken |-> FALSE]

Rendered(setup) ==
    [rows |-> setup.rows, cols |-> setup.cols,
     steps |-> [i \in 1..Len(setup.steps) |-> RenderedStep(setup.steps[i])],
     broken |-> FALSE]

\* Mutant: only the last setup of the list is written.
RenderedLast(list) ==
    IF list = <<>> THEN <<>>
    ELSE << [name |-> list[Len(list)].name, doc |-> Rendered(list[Len(list)].setup)] >>

RenderedList(list) ==
    [i \in 1..Len(list) |-> [name |-> list[i].name, doc |-> Rendered(list[i].setup)]]

\* What a save that fails in the middle of a setup leaves of its document.
Torn(doc) ==
    {[rows |-> doc.rows, cols |-> doc.cols, steps |-> SubSeq(doc.steps, 1, n),
      broken |-> b] : n \in 0..Len(doc.steps), b \in BOOLEAN}

\* And of the list: the setups before it, the torn one, nothing after it.
TornTrees(list) ==
    {SubSeq(RenderedList(list), 1, n) : n \in 0..Len(list)}
    \cup UNION {{Append(SubSeq(RenderedList(list), 1, n - 1),
                        [name |-> list[n].name, doc |-> d]) :
                    d \in Torn(Rendered(list[n].setup))} : n \in 1..Len(list)}

-----------------------------------------------------------------------------
(***************************************************************************)
(* A list of setups, gs_setups, and setup_update: it searches the list for *)
(* the name to the end (the comparison is assigned its own truth value, so *)
(* it is never positive), replaces that element or appends a new one.      *)
(***************************************************************************)
Has(list, name) == \E i \in 1..Len(list) : list[i].name = name
Position(list, name) == CHOOSE i \in 1..Len(list) : list[i].name = name

\* Mutant: a setup is always appended.
AppendAlways(list, element) == Append(list, element)

Update(list, element) ==
    IF Has(list, element.name)
    THEN [list EXCEPT ![Position(list, element.name)] = element]
    ELSE Append(list, element)

VARIABLES
    pc,      \* where the program is
    driver,  \* who sends the commands: "gui" or "operator"
    file,    \* the setups in the configuration file
    tree,    \* the setups in the property tree
    setups,  \* gs_setups
    gui,     \* the setups the GUI shows
    input,   \* the tree being loaded
    k,       \* the next setup of input
    cal,     \* the last calibration file
    used,    \* the setup that measure used with it
    treeIs,  \* history: what the tree is a copy of
    fileIs,  \* history: what the file is a copy of
    guiIs,   \* history: what the GUI's list is a copy of
    writer   \* history: who wrote the file

memory == <<tree, setups>>
history == <<treeIs, fileIs, guiIs, writer>>
vars == <<pc, driver, file, memory, gui, input, k, cal, used, history>>

\* No calibration file, no setup.
NoSetup == [rows |-> 0, cols |-> 0, steps |-> <<>>]
NoCal == [used |-> NoSetup, stored |-> NoDoc, from |-> "none"]

Init ==
    /\ pc = "down" /\ driver = "operator"
    /\ file \in HandFiles
    /\ tree = <<>> /\ setups = <<>> /\ gui = <<>> /\ input = <<>> /\ k = 1
    /\ cal = NoCal /\ used = NoSetup
    /\ treeIs = "setups" /\ fileIs = "tree" /\ guiIs = "setups"
    /\ writer = "operator"

(***************************************************************************)
(* main opens the VNA, whose configuration becomes the tree, and           *)
(* properties_load reads the setups one after the other.  If all are good  *)
(* the commands follow; with -Y the tree is sent to the GUI first.         *)
(***************************************************************************)
Open(who) ==
    /\ pc = "down"
    /\ pc' = "opening" /\ driver' = who
    /\ tree' = file /\ setups' = <<>> /\ gui' = <<>>
    /\ input' = file /\ k' = 1
    /\ treeIs' = "setups" /\ fileIs' = "tree" /\ guiIs' = "setups"
    /\ UNCHANGED <<file, cal, used, writer>>

\* One round of the loop of parse_setups, in properties_load or yload.
ParseNext ==
    /\ pc \in {"opening", "loading"} /\ k <= Len(input)
    /\ Parses(input[k].doc)
    /\ setups' = Update(setups, [name |-> input[k].name,
                                 setup |-> Parsed(input[k].doc)])
    /\ k' = k + 1
    /\ UNCHANGED <<pc, driver, file, tree, gui, input, cal, used, history>>

LoopEnds == input' = <<>> /\ k' = 1

Opened ==
    /\ pc = "opening" /\ k > Len(input)
    /\ pc' = "ready"
    /\ gui' = IF driver = "gui" THEN tree ELSE <<>>
    /\ LoopEnds
    /\ UNCHANGED <<driver, file, memory, cal, used, history>>

\* A bad setup in the file: the program ends.
Refuse ==
    /\ pc = "opening" /\ k <= Len(input) /\ ~Parses(input[k].doc)
    /\ pc' = "refused"
    /\ LoopEnds
    /\ UNCHANGED <<driver, file, memory, gui, cal, used, history>>

-----------------------------------------------------------------------------
(***************************************************************************)
(* setup yload.  The GUI sends the setup being edited, an operator a       *)
(* document with any number of them.  A bad one ends the command and those *)
(* before it stay in the list.                                             *)
(***************************************************************************)
YLoad(entries) ==
    /\ pc = "ready"
    /\ driver = "gui" => Len(entries) = 1
    /\ pc' = "loading" /\ input' = entries /\ k' = 1
    /\ UNCHANGED <<driver, file, memory, gui, cal, used, history>>

\* Mutant: the setup is put into the list before it is found to be bad.
YLoadRefusedLate ==
    /\ pc = "loading" /\ k <= Len(input) /\ ~Parses(input[k].doc)
    /\ pc' = "ready"
    /\ setups' = Update(setups, [name |-> input[k].name,
                                 setup |-> Parsed(input[k].doc)])
    /\ IF k = 1 THEN UNCHANGED history
       ELSE /\ treeIs' = IF treeIs = "torn" THEN "torn" ELSE "older"
            /\ guiIs' = "older"
            /\ UNCHANGED <<fileIs, writer>>
    /\ LoopEnds
    /\ UNCHANGED <<driver, file, tree, gui, cal, used>>

YLoadRefused ==
    /\ pc = "loading" /\ k <= Len(input) /\ ~Parses(input[k].doc)
    /\ pc' = "ready"
    /\ IF k = 1 THEN UNCHANGED history
       ELSE /\ treeIs' = IF treeIs = "torn" THEN "torn" ELSE "older"
            /\ guiIs' = "older"
            /\ UNCHANGED <<fileIs, writer>>
    /\ LoopEnds
    /\ UNCHANGED <<driver, file, memory, gui, cal, used>>

(***************************************************************************)
(* properties_save replaces the tree by a rendering of the whole list and  *)
(* saves it.                                                               *)
(***************************************************************************)
ReadyToSave == pc = "loading" /\ k > Len(input)

Save ==
    /\ ReadyToSave
    /\ tree' = RenderedList(setups) /\ file' = tree'
    /\ pc' = "ready"
    /\ gui' = IF driver = "gui" THEN Update(gui, input[1]) ELSE gui
    /\ treeIs' = "setups" /\ fileIs' = "tree" /\ writer' = "program"
    /\ LoopEnds
    /\ UNCHANGED <<driver, setups, cal, used, guiIs>>

\* n2pkvna_save fails and leaves the file as it was.
SaveFails ==
    /\ ReadyToSave
    /\ tree' = RenderedList(setups)
    /\ pc' = "ready"
    /\ treeIs' = "setups" /\ fileIs' = "older" /\ guiIs' = "older"
    /\ LoopEnds
    /\ UNCHANGED <<driver, file, setups, gui, cal, used, writer>>

\* A call of the property library fails and properties_save returns at once,
\* perhaps before it has deleted the old tree.
BuildFails ==
    /\ ReadyToSave
    /\ tree' \in TornTrees(setups) \cup {tree}
    /\ pc' = "ready"
    /\ treeIs' = "torn" /\ fileIs' = "older" /\ guiIs' = "older"
    /\ LoopEnds
    /\ UNCHANGED <<driver, file, setups, gui, cal, used, writer>>

-----------------------------------------------------------------------------
(***************************************************************************)
(* cf changes the reference frequency and saves the configuration, with    *)
(* the tree as it is.                                                      *)
(***************************************************************************)
Cf ==
    /\ pc = "ready"
    /\ file' = tree /\ fileIs' = "tree"
    /\ writer' = IF treeIs = "torn" THEN "torn" ELSE "program"
    /\ UNCHANGED <<pc, driver, memory, gui, input, k, cal, used, treeIs, guiIs>>

(***************************************************************************)
(* calibrate measures with the setup in the list and puts the document of  *)
(* that name in the tree, if there is one, into the calibration file.      *)
(***************************************************************************)
\* Mutant: the first setup of the tree is put into the calibration file.
LookupFirst(t, name) == IF Has(t, name) THEN t[1].doc ELSE NoDoc

Lookup(t, name) == IF Has(t, name) THEN t[Position(t, name)].doc ELSE NoDoc

Calibrate(i) ==
    /\ pc = "ready"
    /\ cal' = [used |-> setups[i].setup,
               stored |-> Lookup(tree, setups[i].name), from |-> treeIs]
    /\ used' = NoSetup
    /\ UNCHANGED <<pc, driver, file, memory, gui, input, k, history>>

(***************************************************************************)
(* measure parses the document in the calibration file, or takes the       *)
(* built-in reflection bridge if it has none; a bad one ends the command.  *)
(***************************************************************************)
Measure ==
    /\ pc = "ready" /\ cal # NoCal
    /\ IF cal.stored = NoDoc THEN used' = DefaultRB
       ELSE Parses(cal.stored) /\ used' = Parsed(cal.stored)
    /\ UNCHANGED <<pc, driver, file, memory, gui, input, k, cal, history>>

-----------------------------------------------------------------------------
\* The program ends, or is killed at any point.
Exit ==
    /\ pc # "down"
    /\ pc' = "down" /\ driver' = "operator"
    /\ tree' = <<>> /\ setups' = <<>> /\ gui' = <<>>
    /\ treeIs' = "setups" /\ fileIs' = "tree" /\ guiIs' = "setups"
    /\ LoopEnds
    /\ UNCHANGED <<file, cal, used, writer>>

\* The operator edits the configuration file (doc/html/setup.html:504).
Edit(contents) ==
    /\ pc = "down"
    /\ file' = contents /\ writer' = "operator"
    /\ UNCHANGED <<pc, driver, memory, gui, input, k, cal, used, treeIs, fileIs,
                   guiIs>>

Next ==
    \/ \E who \in {"gui", "operator"} : Open(who)
    \/ ParseNext \/ Opened \/ Refuse
    \/ \E entries \in Inputs : YLoad(entries)
    \/ YLoadRefused \/ Save \/ SaveFails \/ BuildFails
    \/ Cf \/ Measure \/ Exit
    \/ \E i \in 1..Len(setups) : Calibrate(i)
    \/ \E contents \in HandFiles : Edit(contents)

Spec == Init /\ [][Next]_vars

-----------------------------------------------------------------------------
(***************************************************************************)
(* Properties.                                                             *)
(***************************************************************************)
ParsedStepType == [name : Label \cup {None}, text : Label \cup {None},
                   meas : Seq(Measurement)]
Setup == [rows : 1..2, cols : 1..2, steps : Seq(ParsedStepType)]

\* Types.  No tree and no list has a name twice, and every setup in the list
\* is one the rules accept.
TypeOK ==
    /\ pc \in {"down", "opening", "ready", "loading", "refused"}
    /\ driver \in {"gui", "operator"}
    /\ \A t \in {file, tree, gui, input} : IsTree(t)
    /\ setups \in Seq([name : SetupName, setup : Setup])
    /\ \A i, j \in 1..Len(setups) :
          i # j => setups[i].name # setups[j].name
    /\ \A i \in 1..Len(setups) : Parses(Rendered(setups[i].setup))
    /\ k \in 1 .. Len(input) + 1
    /\ cal \in [used : Setup, stored : Doc \cup {NoDoc},
               from : {"setups", "older", "torn"}] \cup {NoCal}
    /\ used \in Setup \cup {NoSetup, DefaultRB}
    /\ treeIs \in {"setups", "older", "torn"} /\ fileIs \in {"tree", "older"}
    /\ guiIs \in {"setups", "older"} /\ writer \in {"operator", "program", "torn"}

\* The tree t would be loaded as the list.
LoadsAs(t, list) ==
    /\ Len(t) = Len(list)
    /\ \A i \in 1..Len(t) : /\ t[i].name = list[i].name
                            /\ Parses(t[i].doc)
                            /\ Parsed(t[i].doc) = list[i].setup

(***************************************************************************)
(* The copies agree.  The tree, and the file, load as the list in memory,  *)
(* so that starting the program again gives the same setups, unless a      *)
(* yload has failed since; and the GUI, which keeps its own list and       *)
(* changes it when the program has answered ok, shows the setups the       *)
(* program uses, also when a yload was refused at its first setup.         *)
(***************************************************************************)
CopiesAgree ==
    pc = "ready" =>
        /\ treeIs = "setups" => LoadsAs(tree, setups)
        /\ fileIs = "tree" => file = tree
        /\ driver = "gui" /\ guiIs = "setups" => LoadsAs(gui, setups)

(***************************************************************************)
(* The program never writes a configuration it then refuses to start with, *)
(* unless a save that failed in the middle of building the tree was        *)
(* followed by a cf: every other refusal is of what the operator wrote.    *)
(***************************************************************************)
NeverLockedOut == pc = "refused" => writer # "program"

(***************************************************************************)
(* A calibration file has the setup that was measured with, so that        *)
(* measure uses it again, although calibrate measures with the list and    *)
(* copies the document from the tree; unless a yload has failed and left   *)
(* the two different.                                                      *)
(***************************************************************************)
MeasuresAsCalibrated ==
    cal.from = "setups" =>
        /\ Parses(cal.stored) /\ Parsed(cal.stored) = cal.used
        /\ used \in {NoSetup, cal.used}

(***************************************************************************)
(* No command, in whatever order they fail and succeed, takes a setup out  *)
(* of the configuration file (there is no setup delete), unless the tree   *)
(* had been torn.                                                          *)
(***************************************************************************)
NamesIn(t) == {t[i].name : i \in 1..Len(t)}

SavesLoseNoSetup ==
    [][pc # "down" /\ treeIs # "torn" => NamesIn(file) \subseteq NamesIn(file')]_vars
===============================================================================
