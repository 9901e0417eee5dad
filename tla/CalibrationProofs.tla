--------------------------- MODULE CalibrationProofs ---------------------------
(***************************************************************************)
(* Proofs about Calibration, for any -S strings and standard files.        *)
(*                                                                         *)
(* The inductive invariant Inv follows the probes through a step: where    *)
(* the program believes them to be they are; following the instructions    *)
(* that are pending, leftovers of failed commands included, takes them     *)
(* where the step wants them; and there they stay until the result is      *)
(* added.                                                                  *)
(*                                                                         *)
(* The parser of the -S string is proved correct for strings of any        *)
(* length: MeaningInv says that what it has read is what the string spells *)
(* up to a comma, and that the steps found are the readings of the pieces  *)
(* before it.                                                              *)
(***************************************************************************)
EXTENDS Calibration, StandardsMeaning, SequenceTheorems, FiniteSetTheorems,
        WellFoundedInduction, TLAPS

\* Where step i of the command wants the probes.
TargetOf(c, ss, i) == IF c = "calibrate" THEN Wanted(ss[i]) ELSE Dut(i)

\* The probes are as wanted, as far as anything is wanted of them.
Fits(pr, want) == \A p \in 1..2 : want[p] # Nowhere => pr[p] = want[p]

Touches(i, p) == i = Swap \/ i.probe = p

\* Following the instructions takes the probes where they are wanted.
Leads(is, pr, want) ==
    \/ is = <<Swap>> /\ Fits(Exchanged(pr), want)
    \/ \A p \in 1..2 : want[p] # Nowhere =>
           \/ pr[p] = want[p] /\ \A j \in 1..Len(is) : ~Touches(is[j], p)
           \/ \E i \in 1..Len(is) :
                  /\ is[i] = Connect(p, want[p])
                  /\ \A j \in (i + 1)..Len(is) : ~Touches(is[j], p)

\* A double reflect step has two standards and a single one has one.
WellFormed(step) ==
    LET left  == step.standards[1]
        right == step.standards[2]
    IN  /\ step.type = "DOUBLE_REFLECT" => left \in Standard
                                           /\ right \in Standard
        /\ step.type = "SINGLE_REFLECT" => (left \in Standard <=>
                                             right \notin Standard)

StepsInv ==
    /\ \A i \in 1..Len(steps) : WellFormed(steps[i])
    /\ status = "accepted" => steps # <<>>

Loop == {"instruct", "measure", "ack", "scan", "add"}

\* How far the command has got.
FlowInv ==
    /\ pc = "idle" => cmd = "none"
    /\ pc = "parse" => cmd = "calibrate" /\ k = 1 /\ added = <<>>
                       /\ pc_cur = NoProbes
    /\ pc \in Loop => cmd # "none" /\ k <= Calls /\ Len(added) = k - 1
    /\ pc = "finish" => cmd # "none" /\ Len(added) = Calls
    /\ pc = "crashed" /\ cmd = "calibrate" => Len(added) <= Len(steps)

\* What was added was measured where it should be.
Truth(c, ss, ad) ==
    c \in {"calibrate", "exchange"} =>
        \A i \in 1..Len(ad) :
            /\ Fits(ad[i].probes, TargetOf(c, ss, i))
            /\ c = "calibrate" => ad[i].claims = Claims(ss[i])

\* Where the probes are, at each stage of a step.
ProbesInv ==
    cmd \in {"calibrate", "exchange"} =>
        LET want == TargetOf(cmd, steps, k)
        IN  /\ pc = "instruct" /\ cmd = "calibrate" =>
                   /\ k = 1 => pc_cur = NoProbes
                   /\ k > 1 => /\ Fits(probe, pc_cur)
                               /\ instr = <<>>
                               /\ ~need_ack
            /\ pc = "measure" => IF need_ack THEN Leads(instr, probe, want)
                                 ELSE Fits(probe, want) /\ instr = <<>>
            /\ pc = "ack" => Leads(todo, probe, want) /\ instr = <<>>
            /\ pc = "scan" => Fits(probe, want) /\ instr = <<>> /\ ~need_ack
            /\ pc = "scan" => measured = <<>>
            /\ pc \in {"measure", "ack"} => measured = <<>>
            /\ pc = "add" => /\ Fits(probe, want) /\ instr = <<>> /\ ~need_ack
                             /\ measured # <<>> => measured = probe

SavedInv ==
    /\ Truth(saved.cmd, saved.steps, saved.added)
    /\ \A i \in 1..Len(saved.steps) : WellFormed(saved.steps[i])
    /\ saved.cmd = "calibrate" => Len(saved.added) = Len(saved.steps)
    /\ saved.cmd = "exchange" => Len(saved.added) = 2

Inv ==
    /\ TypeOK /\ StepsInv /\ FlowInv
    /\ Truth(cmd, steps, added)
    /\ ProbesInv /\ SavedInv

-----------------------------------------------------------------------------
(***************************************************************************)
(* The parser returns well-formed steps.                                   *)
(***************************************************************************)
LEMMA TupleType ==
    ASSUME NEW S, NEW x \in S, NEW y \in S, NEW z \in S, NEW u \in S, NEW v \in S
    PROVE  /\ <<x>> \in Seq(S)
           /\ <<x, y, z>> \in Seq(S)
           /\ <<x, y, z, u, v>> \in Seq(S)
  OBVIOUS

LEMMA ListHead ==
    ASSUME NEW x, NEW y
    PROVE  /\ <<x, ",", y, ",", "M">> # <<>>
           /\ Head(<<x, ",", y, ",", "M">>) = x
  OBVIOUS

\* The tokens that are no abbreviation.
Plain == Token \ Macro

LEMMA ConcatType ==
    ASSUME NEW x \in {"S", "O", "M"}, NEW ts \in Seq(Plain)
    PROVE  /\ OnProbe1(x) \o ts \in Seq(Plain)
           /\ OnProbe2(x) \o ts \in Seq(Plain)
           /\ OnProbe1(x) \o ts # <<>>
           /\ Head(OnProbe1(x) \o ts) = x
<1>1. x \in Plain /\ "-" \in Plain /\ "," \in Plain
  BY DEF Plain, Token, Macro, Name, Standard, Builtin, OnePort
<1>2. OnProbe1(x) \in Seq(Plain) /\ OnProbe2(x) \in Seq(Plain)
  BY <1>1, TupleType DEF OnProbe1, OnProbe2
<1>3. OnProbe1(x) # <<>> /\ Head(OnProbe1(x)) = x
  BY DEF OnProbe1
<1>4. \A s \in Seq(Plain) : s # <<>> =>
          s \o ts # <<>> /\ Head(s \o ts) = Head(s)
  OBVIOUS
<1> QED  BY <1>2, <1>3, <1>4

LEMMA ExpansionType ==
    ASSUME NEW d \in Dims, NEW macro \in Macro
    PROVE  /\ Expansion(macro, d) \in Seq(Plain)
           /\ Expansion(macro, d) # <<>>
           /\ Head(Expansion(macro, d)) \in {"S", "O"}
<1> DEFINE a == IF macro = "SOLT" THEN "S" ELSE "O"
           b == IF macro = "SOLT" THEN "O" ELSE "S"
           one  == <<a, ",", b, ",", "M">>
           two  == OnProbe1(b) \o (OnProbe1("M") \o <<"T">>)
           four == OnProbe2(a) \o (OnProbe2(b) \o (OnProbe1(b)
                       \o (OnProbe2("M") \o (OnProbe1("M") \o <<"T">>))))
<1>1. {"S", "O"} \subseteq Plain
      /\ "M" \in Plain /\ "T" \in Plain /\ "," \in Plain
  BY DEF Plain, Token, Macro, Name, Standard, Builtin, OnePort
<1>2. d.rows * d.cols \in {1, 2, 4}
  <2>1. d.rows \in {1, 2} /\ d.cols \in {1, 2}
    BY DEF Dims
  <2> QED  BY <2>1, SMT
<1>3. a \in {"S", "O"} /\ b \in {"S", "O"}
  OBVIOUS
<1>4. one \in Seq(Plain) /\ one # <<>> /\ Head(one) = a
  <2>1. a \in Plain /\ b \in Plain
    BY <1>1, <1>3
  <2> HIDE DEF a, b
  <2>2. "," \in Plain /\ "M" \in Plain
    BY <1>1
  <2>3. one \in Seq(Plain)
    BY <2>1, <2>2, TupleType
  <2>4. one # <<>> /\ Head(one) = a
    BY ListHead, Zenon
  <2> QED  BY <2>3, <2>4
<1>5. <<"T">> \in Seq(Plain)
  BY <1>1, TupleType
<1> HIDE DEF a, b
<1>6. OnProbe1("M") \o <<"T">> \in Seq(Plain)
  BY <1>5, ConcatType
<1>7. two \in Seq(Plain)
  BY <1>3, <1>6, ConcatType
<1>8. four \in Seq(Plain)
  <2>1. OnProbe2("M") \o (OnProbe1("M") \o <<"T">>) \in Seq(Plain)
    BY <1>6, ConcatType
  <2>2. OnProbe1(b) \o (OnProbe2("M") \o (OnProbe1("M") \o <<"T">>))
            \in Seq(Plain)
    BY <1>3, <2>1, ConcatType
  <2>3. OnProbe2(b) \o (OnProbe1(b) \o (OnProbe2("M")
            \o (OnProbe1("M") \o <<"T">>))) \in Seq(Plain)
    BY <1>3, <2>2, ConcatType
  <2> QED  BY <1>3, <2>3, ConcatType
<1> HIDE DEF one, two, four
<1>9. Expansion(macro, d) =
          CASE d.rows * d.cols = 1 -> one
            [] d.rows * d.cols = 2 -> OnProbe1(a) \o two
            [] d.rows * d.cols = 4 -> OnProbe1(a) \o four
  BY DEF Expansion, a, b, one, two, four
<1>10. CASE d.rows * d.cols = 1
  BY <1>3, <1>4, <1>9, <1>10
<1>11. CASE d.rows * d.cols = 2
  <2>1. Expansion(macro, d) = OnProbe1(a) \o two
    BY <1>9, <1>11
  <2> QED  BY <1>3, <1>7, <2>1, ConcatType
<1>12. CASE d.rows * d.cols = 4
  <2>1. Expansion(macro, d) = OnProbe1(a) \o four
    BY <1>9, <1>12
  <2> QED  BY <1>3, <1>8, <2>1, ConcatType
<1> QED  BY <1>2, <1>10, <1>11, <1>12

\* After the substitution a name is the name of a standard.
LEMMA SubstituteType ==
    ASSUME NEW d \in Dims, NEW ts \in Seq(Token)
    PROVE  /\ Substitute(ts, d) \in Seq(Token)
           /\ Current(ts) \in Name => /\ Substitute(ts, d) # <<>>
                                      /\ Head(Substitute(ts, d)) \in Standard
           /\ Current(Substitute(ts, d)) \in Name =>
                  /\ Substitute(ts, d) # <<>>
                  /\ Head(Substitute(ts, d)) \in Standard
<1>1. "end" \notin Name
  BY IdentifierAssumption DEF Name, Standard, Builtin, OnePort, Macro
<1>2. CASE Current(ts) \in Macro
  <2>1. ts # <<>> /\ Head(ts) \in Macro
    BY <1>2 DEF Current, Macro
  <2>2. Tail(ts) \in Seq(Token)
    BY <2>1
  <2> DEFINE e == Expansion(Head(ts), d)
  <2>3. e \in Seq(Token) /\ e # <<>> /\ Head(e) \in {"S", "O"}
    <3>1. Plain \subseteq Token
      BY DEF Plain
    <3> QED  BY <2>1, <3>1, ExpansionType
  <2>4. Substitute(ts, d) = e \o Tail(ts)
    BY <1>2 DEF Substitute
  <2> HIDE DEF e
  <2>5. e \o Tail(ts) \in Seq(Token) /\ e \o Tail(ts) # <<>>
        /\ Head(e \o Tail(ts)) = Head(e)
    BY <2>2, <2>3
  <2> QED  BY <2>3, <2>4, <2>5 DEF Standard, Builtin, OnePort
<1>3. CASE Current(ts) \notin Macro
  <2>1. Substitute(ts, d) = ts
    BY <1>3 DEF Substitute
  <2>2. Current(ts) \in Name => ts # <<>> /\ Head(ts) \in Standard
    BY <1>1, <1>3 DEF Current, Name
  <2> QED  BY <2>1, <2>2
<1> QED  BY <1>2, <1>3

LEMMA ScanStepType ==
    ASSUME NEW d \in Dims, NEW ts \in Seq(Token)
    PROVE  /\ ScanStep(ts, d).left \in Standard \cup {Terminator}
           /\ ScanStep(ts, d).right \in
                  Standard \cup {Terminator, NoStandard}
           /\ ScanStep(ts, d).rest \in Seq(Token)
<1> DEFINE named == Current(ts) \in Name
           at    == IF named THEN Substitute(ts, d) ELSE ts
           left  == IF named THEN Head(at) ELSE Terminator
           after == IF named THEN Tail(at) ELSE at
           dash  == Current(after) = "-"
           next  == IF dash THEN Substitute(Tail(after), d) ELSE after
           right == IF ~dash THEN NoStandard
                    ELSE IF Current(next) \in Name THEN Head(next)
                    ELSE Terminator
           rest  == IF right \in Standard THEN Tail(next) ELSE next
<1>1. ScanStep(ts, d) = [left |-> left, right |-> right, rest |-> rest]
  BY DEF ScanStep
<1>2. at \in Seq(Token) /\ (named => at # <<>> /\ Head(at) \in Standard)
  BY SubstituteType
<1>3. left \in Standard \cup {Terminator} /\ after \in Seq(Token)
  BY <1>2
<1>4. dash => after # <<>> /\ Tail(after) \in Seq(Token)
  BY <1>3 DEF Current
<1>5. next \in Seq(Token)
      /\ (dash /\ Current(next) \in Name => next # <<>> /\ Head(next) \in Standard)
  BY <1>3, <1>4, SubstituteType
<1>6. Terminator \notin Standard /\ NoStandard \notin Standard
  BY IdentifierAssumption
  DEF Standard, Builtin, OnePort, Terminator, NoStandard
<1>7. right \in Standard \cup {Terminator, NoStandard}
      /\ (right \in Standard => next # <<>>)
  BY <1>5, <1>6
<1>8. rest \in Seq(Token)
  BY <1>5, <1>7
<1> QED  BY <1>1, <1>3, <1>7, <1>8

LEMMA ClassifyType ==
    ASSUME NEW d \in Dims, NEW f \in Files,
           NEW left \in Standard \cup {Terminator},
           NEW right \in Standard \cup {Terminator, NoStandard},
           Accepts(d, f, left, right)
    PROVE  /\ Classify(d, f, left, right) \in CalStep
           /\ WellFormed(Classify(d, f, left, right))
<1> DEFINE second == IF LoneReflect(d, f, left, right)
                     THEN Terminator ELSE right
           type == IF Terminator \in {left, second} THEN "SINGLE_REFLECT"
                   ELSE IF second # NoStandard THEN "DOUBLE_REFLECT"
                   ELSE IF Ports(f, left) = 1 THEN "SINGLE_REFLECT"
                   ELSE IF left = "T" THEN "THROUGH"
                   ELSE "LINE"
<1>1. Classify(d, f, left, right) = [type |-> type,
                                     standards |-> <<left, second>>]
  BY DEF Classify
<1>2. second \in Standard \cup {Terminator, NoStandard}
  OBVIOUS
<1>3. type \in StepType
  BY DEF StepType
<1>4. Terminator \notin Standard /\ NoStandard \notin Standard
      /\ Terminator # NoStandard
  BY IdentifierAssumption
  DEF Standard, Builtin, OnePort, Terminator, NoStandard
<1>5. left \in Standard \/ right \in Standard
  BY DEF Accepts
<1>6. left = Terminator => second \in Standard
  BY <1>4, <1>5 DEF LoneReflect
<1>7. type = "DOUBLE_REFLECT" => left \in Standard /\ second \in Standard
  BY <1>2, <1>4
<1>8. type = "SINGLE_REFLECT" => (left \in Standard <=> second \notin Standard)
  <2>1. CASE Terminator \in {left, second}
    BY <1>2, <1>4, <1>6, <2>1
  <2>2. CASE Terminator \notin {left, second} /\ second # NoStandard
    BY <2>2
  <2>3. CASE Terminator \notin {left, second} /\ second = NoStandard
    BY <1>4, <2>3
  <2> QED  BY <2>1, <2>2, <2>3
<1> HIDE DEF second, type
<1> QED  BY <1>1, <1>2, <1>3, <1>7, <1>8 DEF CalStep, WellFormed

-----------------------------------------------------------------------------
(***************************************************************************)
(* What a step wants, the instructions for it, and what libvna is told.    *)
(***************************************************************************)
LEMMA WantedType ==
    ASSUME NEW step \in CalStep
    PROVE  Wanted(step) \in Probes /\ Wanted(step)[1] # Nowhere
<1> DEFINE left  == step.standards[1]
           right == step.standards[2]
<1>1. left \in Standard \cup {Terminator}
      /\ right \in Standard \cup {Terminator, NoStandard}
  BY DEF CalStep
<1>2. \A s \in Standard \cup {Terminator}, p \in 1..2 :
          At(s, p) \in Connection /\ At(s, p) # Nowhere
  BY DEF At, Connection, Nowhere
<1>3. Nowhere \in Connection
  BY DEF Connection
<1> HIDE DEF left, right
<1>4. Wanted(step) = IF step.type \in {"THROUGH", "LINE"}
                     THEN <<At(left, 1), At(left, 2)>>
                     ELSE <<At(left, 1),
                            IF right = NoStandard THEN Nowhere
                                                  ELSE At(right, 1)>>
  BY DEF Wanted, left, right
<1> DEFINE second == IF step.type \in {"THROUGH", "LINE"} THEN At(left, 2)
                     ELSE IF right = NoStandard THEN Nowhere ELSE At(right, 1)
<1>5. second \in Connection
  BY <1>1, <1>2, <1>3
<1>6. Wanted(step) = <<At(left, 1), second>>
  BY <1>4
<1> HIDE DEF second
<1>7. At(left, 1) \in Connection /\ At(left, 1) # Nowhere
  BY <1>1, <1>2
<1> QED  BY <1>5, <1>6, <1>7 DEF Probes

LEMMA NoProbesType == NoProbes \in Probes
  BY DEF NoProbes, Probes, Connection

LEMMA DutType ==
    ASSUME NEW call
    PROVE  /\ Dut(call) \in Probes
           /\ Dut(call)[1] # Nowhere /\ Dut(call)[2] # Nowhere
  BY DEF Dut, Probes, Connection, At, Nowhere

\* There are at most two instructions, and which they are.
LEMMA InstructionsCases ==
    ASSUME NEW step \in CalStep, NEW cur \in Probes
    PROVE  LET want == Wanted(step)
               new  == Instructions(step, cur)
           IN  \/ new = <<>> /\ want = cur
               \/ new = <<Swap>> /\ want = Exchanged(cur)
               \/ new = <<Connect(1, want[1]), Connect(2, want[2])>>
               \/ new = <<Connect(1, want[1])>> /\ want[2] = cur[2]
               \/ new = <<Connect(2, want[2])>> /\ want[1] = cur[1]
<1> DEFINE want == Wanted(step)
<1>1. want \in Probes
  BY WantedType
<1>2. want = <<want[1], want[2]>> /\ cur = <<cur[1], cur[2]>>
  BY <1>1 DEF Probes
<1> HIDE DEF want
<1>3. Instructions(step, cur) =
          IF want = cur THEN <<>>
          ELSE IF want = Exchanged(cur) THEN <<Swap>>
          ELSE IF step.type \in {"THROUGH", "LINE"}
          THEN <<Connect(1, want[1]), Connect(2, want[2])>>
          ELSE IF want[2] = cur[2] THEN <<Connect(1, want[1])>>
          ELSE IF want[1] = cur[1] THEN <<Connect(2, want[2])>>
          ELSE <<Connect(1, want[1]), Connect(2, want[2])>>
  BY DEF Instructions, want
<1> QED  BY <1>3 DEF want

LEMMA InstructionType ==
    ASSUME NEW c \in Connection, c # Nowhere, NEW p \in 1..2
    PROVE  Connect(p, c) \in Instruction
  BY DEF Instruction

LEMMA ClaimsCorrect ==
    ASSUME NEW step \in CalStep, WellFormed(step)
    PROVE  /\ Claims(step) \in SUBSET [port : 1..2, is : Connection]
           /\ \A c \in Claims(step) : /\ c.port \in 1..2
                                      /\ c.is = Wanted(step)[c.port]
                                      /\ c.is # Nowhere
           /\ Claims(step) = MeantClaims(step)
<1> DEFINE want  == Wanted(step)
           left  == step.standards[1]
           right == step.standards[2]
<1>1. left \in Standard \cup {Terminator}
      /\ right \in Standard \cup {Terminator, NoStandard}
      /\ step.type \in StepType
  BY DEF CalStep
<1>2. Terminator \notin Standard /\ NoStandard \notin Standard
      /\ Terminator # NoStandard
  BY IdentifierAssumption
  DEF Standard, Builtin, OnePort, Terminator, NoStandard
<1>3. want \in Probes
  BY WantedType
<1>4. want[1] \in Connection /\ want[2] \in Connection
  BY <1>3 DEF Probes
<1>13. /\ step.type = "DOUBLE_REFLECT" => left \in Standard
                                          /\ right \in Standard
       /\ step.type = "SINGLE_REFLECT" => (left \in Standard <=>
                                            right \notin Standard)
  BY DEF WellFormed
<1>5. want[1] = At(left, 1) /\ want[1].standard = left
  BY DEF Wanted, At
<1>6. step.type \in {"THROUGH", "LINE"} => want[2] = At(left, 2)
  BY DEF Wanted
<1>7. step.type \notin {"THROUGH", "LINE"} /\ right # NoStandard =>
          want[2] = At(right, 1)
  BY DEF Wanted
<1>8. \A s, p : At(s, p) # Nowhere \/ p = 0
  BY DEF At, Nowhere
<1> HIDE DEF want, left, right
<1>9. Claims(step) = IF step.type = "SINGLE_REFLECT"
                     THEN IF left # Terminator
                          THEN {[port |-> 1, is |-> want[1]]}
                          ELSE {[port |-> 2, is |-> want[2]]}
                     ELSE {[port |-> p, is |-> want[p]] : p \in 1..2}
  BY <1>5 DEF Claims, want
<1>10. MeantClaims(step) =
           IF step.type \in {"THROUGH", "LINE"}
           THEN {[port |-> p, is |-> At(left, p)] : p \in 1..2}
           ELSE {[port |-> p, is |-> At(IF p = 1 THEN left ELSE right, 1)] :
                    p \in {q \in 1..2 :
                              (IF q = 1 THEN left ELSE right) \in Standard}}
  BY DEF MeantClaims, left, right
<1>11. CASE step.type \in {"THROUGH", "LINE"}
  <2>1. Claims(step) = {[port |-> p, is |-> want[p]] : p \in 1..2}
    BY <1>9, <1>11
  <2>2. \A p \in 1..2 : want[p] = At(left, p) /\ want[p] # Nowhere
    BY <1>5, <1>6, <1>8, <1>11
  <2>3. MeantClaims(step) = {[port |-> p, is |-> At(left, p)] : p \in 1..2}
    BY <1>10, <1>11
  <2>4. Claims(step) = MeantClaims(step)
    BY <2>1, <2>2, <2>3
  <2> QED  BY <1>4, <2>1, <2>2, <2>4 DEF want
<1>12. CASE step.type = "SINGLE_REFLECT" /\ left # Terminator
  <2>1. Claims(step) = {[port |-> 1, is |-> want[1]]}
    BY <1>9, <1>12
  <2>2. left \in Standard /\ right \notin Standard
    BY <1>1, <1>12, <1>13
  <2>3. MeantClaims(step) = {[port |-> 1, is |-> At(left, 1)]}
    BY <1>10, <1>12, <2>2
  <2>4. want[1] # Nowhere
    BY <1>5, <1>8
  <2> QED  BY <1>4, <1>5, <2>1, <2>3, <2>4 DEF want
<1>14. CASE step.type = "SINGLE_REFLECT" /\ left = Terminator
  <2>1. Claims(step) = {[port |-> 2, is |-> want[2]]}
    BY <1>9, <1>14
  <2>2. left \notin Standard /\ right \in Standard
    BY <1>1, <1>2, <1>13, <1>14
  <2>3. MeantClaims(step) = {[port |-> 2, is |-> At(right, 1)]}
    BY <1>10, <1>14, <2>2
  <2>4. want[2] = At(right, 1) /\ want[2] # Nowhere
    BY <1>2, <1>7, <1>8, <1>14, <2>2
  <2> QED  BY <1>4, <2>1, <2>3, <2>4 DEF want
<1>15. CASE step.type = "DOUBLE_REFLECT"
  <2>1. Claims(step) = {[port |-> p, is |-> want[p]] : p \in 1..2}
    BY <1>9, <1>15
  <2>2. left \in Standard /\ right \in Standard
    BY <1>13, <1>15
  <2>3. want[1] = At(left, 1) /\ want[2] = At(right, 1)
    BY <1>2, <1>5, <1>7, <1>15, <2>2
  <2>4. \A p \in 1..2 : want[p] = At(IF p = 1 THEN left ELSE right, 1)
                        /\ want[p] # Nowhere
    BY <1>8, <2>3
  <2>5. {q \in 1..2 : (IF q = 1 THEN left ELSE right) \in Standard} = 1..2
    BY <2>2
  <2>6. Claims(step) = MeantClaims(step)
    BY <1>10, <1>15, <2>1, <2>4, <2>5
  <2> QED  BY <1>4, <2>1, <2>4, <2>6 DEF want
<1> QED  BY <1>1, <1>11, <1>12, <1>14, <1>15 DEF StepType

-----------------------------------------------------------------------------
(***************************************************************************)
(* Instructions that lead where a step wants the probes.                   *)
(***************************************************************************)
LEMMA ConnectIsNotSwap ==
    ASSUME NEW p \in 1..2, NEW c
    PROVE  Connect(p, c) # Swap /\ Connect(p, c).probe = p
                                /\ Connect(p, c).to = c
  BY DEF Connect, Swap

\* Once they are all followed, the probes are there.
LEMMA LeadsDone ==
    ASSUME NEW pr, NEW want, Leads(<<>>, pr, want)
    PROVE  Fits(pr, want)
<1>1. Len(<<>>) = 0 /\ <<>> # <<Swap>>
  OBVIOUS
<1> QED  BY <1>1 DEF Leads, Fits

\* After an instruction has been followed, the others still lead there.
LEMMA LeadsStep ==
    ASSUME NEW is \in Seq(Instruction), is # <<>>, NEW pr \in Probes, NEW want,
           Leads(is, pr, want)
    PROVE  Leads(Tail(is), Follow(Head(is), pr), want)
<1> DEFINE h == Head(is)
           t == Tail(is)
           pr2 == Follow(h, pr)
<1>1. h = is[1] /\ h \in Instruction
  OBVIOUS
<1>2. t \in Seq(Instruction) /\ Len(t) = Len(is) - 1
      /\ \A j \in 1..Len(t) : t[j] = is[j + 1]
  OBVIOUS
<1>3. Len(is) \in Nat /\ Len(is) > 0
  OBVIOUS
<1>4. CASE is = <<Swap>> /\ Fits(Exchanged(pr), want)
  <2>1. h = Swap /\ Len(t) = 0
    BY <1>1, <1>2, <1>4
  <2>2. pr2 = Exchanged(pr)
    BY <2>1 DEF Follow
  <2> HIDE DEF h, t, pr2
  <2>3. \A p \in 1..2 : want[p] # Nowhere =>
            pr2[p] = want[p] /\ \A j \in 1..Len(t) : ~Touches(t[j], p)
    BY <1>4, <2>1, <2>2 DEF Fits
  <2>4. Leads(t, pr2, want)
    BY <2>3 DEF Leads
  <2> QED  BY <2>4 DEF h, t, pr2
<1>5. ASSUME \A p \in 1..2 : want[p] # Nowhere =>
                 \/ pr[p] = want[p] /\ \A j \in 1..Len(is) : ~Touches(is[j], p)
                 \/ \E i \in 1..Len(is) :
                        /\ is[i] = Connect(p, want[p])
                        /\ \A j \in (i + 1)..Len(is) : ~Touches(is[j], p)
      PROVE  Leads(t, pr2, want)
  <2> SUFFICES ASSUME NEW p \in 1..2, want[p] # Nowhere
               PROVE  \/ /\ pr2[p] = want[p]
                         /\ \A j \in 1..Len(t) : ~Touches(t[j], p)
                      \/ \E i \in 1..Len(t) :
                            /\ t[i] = Connect(p, want[p])
                            /\ \A j \in (i + 1)..Len(t) : ~Touches(t[j], p)
    BY DEF Leads
  <2> HIDE DEF t
  <2>1. CASE pr[p] = want[p] /\ \A j \in 1..Len(is) : ~Touches(is[j], p)
    <3>1. ~Touches(h, p)
      BY <1>1, <1>3, <2>1
    <3>2. pr2[p] = pr[p]
      <4>1. h # Swap /\ h.probe # p
        BY <3>1 DEF Touches
      <4>2. h.probe \in 1..2
        BY <1>1, <4>1 DEF Instruction, Connect
      <4> HIDE DEF h
      <4>3. pr2 = IF h.probe = 1 THEN <<h.to, pr[2]>> ELSE <<pr[1], h.to>>
        BY <4>1 DEF Follow
      <4> QED  BY <4>1, <4>2, <4>3
    <3>3. \A j \in 1..Len(t) : ~Touches(t[j], p)
      <4> SUFFICES ASSUME NEW j \in 1..Len(t) PROVE ~Touches(t[j], p)
        OBVIOUS
      <4>1. j + 1 \in 1..Len(is)
        BY <1>2, <1>3
      <4> QED  BY <1>2, <2>1, <4>1
    <3> QED  BY <2>1, <3>2, <3>3
  <2>2. ASSUME NEW i \in 1..Len(is), is[i] = Connect(p, want[p]),
               \A j \in (i + 1)..Len(is) : ~Touches(is[j], p)
        PROVE  \/ /\ pr2[p] = want[p]
                  /\ \A j \in 1..Len(t) : ~Touches(t[j], p)
               \/ \E n \in 1..Len(t) :
                     /\ t[n] = Connect(p, want[p])
                     /\ \A j \in (n + 1)..Len(t) : ~Touches(t[j], p)
    <3>1. CASE i = 1
      <4>1. h = Connect(p, want[p])
        BY <1>1, <2>2, <3>1
      <4>2. h # Swap /\ h.probe = p /\ h.to = want[p]
        BY <4>1, ConnectIsNotSwap
      <4> HIDE DEF h
      <4>3. pr2 = IF h.probe = 1 THEN <<h.to, pr[2]>> ELSE <<pr[1], h.to>>
        BY <4>2 DEF Follow
      <4>4. pr2[p] = want[p]
        BY <4>2, <4>3
      <4>5. ASSUME NEW j \in 1..Len(t) PROVE ~Touches(t[j], p)
        <5>1. j + 1 \in (i + 1)..Len(is) /\ t[j] = is[j + 1]
          BY <1>2, <1>3, <3>1
        <5> QED  BY <2>2, <5>1
      <4> QED  BY <4>4, <4>5
    <3>2. CASE i > 1
      <4>1. i - 1 \in 1..Len(t) /\ t[i - 1] = is[i]
        BY <1>2, <1>3, <3>2
      <4>2. ASSUME NEW j \in ((i - 1) + 1)..Len(t) PROVE ~Touches(t[j], p)
        <5>1. j + 1 \in (i + 1)..Len(is) /\ t[j] = is[j + 1]
          BY <1>2, <1>3, <3>2
        <5> QED  BY <2>2, <5>1
      <4> QED  BY <2>2, <4>1, <4>2
    <3> QED  BY <3>1, <3>2
  <2> QED  BY <1>5, <2>1, <2>2
<1> QED  BY <1>4, <1>5 DEF Leads

\* Connecting both probes leads there, whatever comes before.
LEMMA LeadsBoth ==
    ASSUME NEW is \in Seq(Instruction), NEW pr, NEW want \in Probes
    PROVE  Leads(is \o <<Connect(1, want[1]), Connect(2, want[2])>>, pr, want)
<1> DEFINE c1  == Connect(1, want[1])
           c2  == Connect(2, want[2])
           all == is \o <<c1, c2>>
           n   == Len(is)
<1>1. n \in Nat
  OBVIOUS
<1>2. ~Touches(c2, 1)
  BY DEF Touches, Connect, Swap
<1> HIDE DEF c1, c2
<1>3. Len(all) = n + 2 /\ all[n + 1] = c1 /\ all[n + 2] = c2
  OBVIOUS
<1> HIDE DEF all, n
<1>4. n + 1 \in 1..Len(all) /\ \A j \in (n + 1) + 1..Len(all) : ~Touches(all[j], 1)
  BY <1>1, <1>2, <1>3
<1>5. n + 2 \in 1..Len(all) /\ \A j \in (n + 2) + 1..Len(all) : ~Touches(all[j], 2)
  BY <1>1, <1>3
<1>6. \A p \in 1..2 : \E i \in 1..Len(all) :
          /\ all[i] = Connect(p, want[p])
          /\ \A j \in (i + 1)..Len(all) : ~Touches(all[j], p)
  <2>1. all[n + 1] = Connect(1, want[1]) /\ all[n + 2] = Connect(2, want[2])
    BY <1>3 DEF c1, c2
  <2> SUFFICES ASSUME NEW p \in 1..2
               PROVE  \E i \in 1..Len(all) :
                          /\ all[i] = Connect(p, want[p])
                          /\ \A j \in (i + 1)..Len(all) : ~Touches(all[j], p)
    OBVIOUS
  <2>2. CASE p = 1
    BY <1>4, <2>1, <2>2
  <2>3. CASE p = 2
    BY <1>5, <2>1, <2>3
  <2> QED  BY <2>2, <2>3
<1>7. Leads(all, pr, want)
  BY <1>6 DEF Leads
<1> QED  BY <1>7 DEF all, c1, c2

\* Connecting one probe leads there if nothing is wanted of the other, or if
\* the other is there and stays.
LEMMA LeadsOne ==
    ASSUME NEW is \in Seq(Instruction), NEW pr, NEW want \in Probes,
           NEW p \in 1..2, NEW q \in 1..2, p # q,
           want[q] = Nowhere \/ (is = <<>> /\ pr[q] = want[q])
    PROVE  Leads(is \o <<Connect(p, want[p])>>, pr, want)
<1> DEFINE c   == Connect(p, want[p])
           all == is \o <<c>>
           n   == Len(is)
<1>1. n \in Nat
  OBVIOUS
<1>2. ~Touches(c, q)
  BY DEF Touches, Connect, Swap
<1> HIDE DEF c
<1>3. Len(all) = n + 1 /\ all[n + 1] = c
  OBVIOUS
<1>4. is = <<>> => n = 0
  OBVIOUS
<1> HIDE DEF all, n
<1>5. n + 1 \in 1..Len(all) /\ \A j \in (n + 1) + 1..Len(all) : ~Touches(all[j], p)
  BY <1>1, <1>3
<1>6. is = <<>> => \A j \in 1..Len(all) : ~Touches(all[j], q)
  BY <1>2, <1>3, <1>4
<1>7. all[n + 1] = Connect(p, want[p])
  BY <1>3 DEF c
<1>8. \A r \in 1..2 : r = p \/ r = q
  OBVIOUS
<1>9. Leads(all, pr, want)
  <2> SUFFICES ASSUME NEW r \in 1..2, want[r] # Nowhere
               PROVE  \/ /\ pr[r] = want[r]
                         /\ \A j \in 1..Len(all) : ~Touches(all[j], r)
                      \/ \E i \in 1..Len(all) :
                            /\ all[i] = Connect(r, want[r])
                            /\ \A j \in (i + 1)..Len(all) : ~Touches(all[j], r)
    BY DEF Leads
  <2>1. CASE r = p
    BY <1>5, <1>7, <2>1
  <2>2. CASE r = q
    BY <1>6, <2>2
  <2> QED  BY <1>8, <2>1, <2>2
<1> QED  BY <1>9 DEF all, c

\* At the first step the program knows nothing and something may be pending.
LEMMA FirstLeads ==
    ASSUME NEW step \in CalStep, NEW is \in Seq(Instruction), NEW pr
    PROVE  /\ Instructions(step, NoProbes) # <<>>
           /\ Leads(is \o Instructions(step, NoProbes), pr, Wanted(step))
<1> DEFINE want == Wanted(step)
           new  == Instructions(step, NoProbes)
<1>1. want \in Probes /\ want[1] # Nowhere
  BY WantedType
<1>2. NoProbes[1] = Nowhere /\ NoProbes[2] = Nowhere
      /\ Exchanged(NoProbes) = NoProbes
  BY DEF NoProbes, Exchanged
<1>3. \/ new = <<Connect(1, want[1]), Connect(2, want[2])>>
      \/ new = <<Connect(1, want[1])>> /\ want[2] = Nowhere
  BY <1>1, <1>2, InstructionsCases, NoProbesType
<1> HIDE DEF want, new
<1>4. new # <<>>
  BY SMTT(30), <1>3
<1>5. Leads(is \o new, pr, want)
  <2>1. 1 \in 1..2 /\ 2 \in 1..2 /\ 1 # 2
    OBVIOUS
  <2>2. want[2] = Nowhere => Leads(is \o <<Connect(1, want[1])>>, pr, want)
    BY <1>1, <2>1, LeadsOne
  <2>3. Leads(is \o <<Connect(1, want[1]), Connect(2, want[2])>>, pr, want)
    BY <1>1, LeadsBoth
  <2> QED  BY <1>3, <2>2, <2>3
<1> QED  BY <1>4, <1>5 DEF want, new

\* At a later one nothing is pending and the probes are where it believes.
LEMMA LaterLeads ==
    ASSUME NEW step \in CalStep, NEW cur \in Probes, NEW pr \in Probes,
           Fits(pr, cur)
    PROVE  LET new == Instructions(step, cur)
           IN  /\ new = <<>> => Fits(pr, Wanted(step))
               /\ new # <<>> => Leads(<<>> \o new, pr, Wanted(step))
<1> DEFINE want == Wanted(step)
           new  == Instructions(step, cur)
<1>1. want \in Probes
  BY WantedType
<1>2. \/ new = <<>> /\ want = cur
      \/ new = <<Swap>> /\ want = Exchanged(cur)
      \/ new = <<Connect(1, want[1]), Connect(2, want[2])>>
      \/ new = <<Connect(1, want[1])>> /\ want[2] = cur[2]
      \/ new = <<Connect(2, want[2])>> /\ want[1] = cur[1]
  BY InstructionsCases
<1> HIDE DEF want, new
<1>3. <<>> \in Seq(Instruction)
  OBVIOUS
<1>4. CASE new = <<>> /\ want = cur
  BY <1>4 DEF want, new
<1>5. CASE new = <<Swap>> /\ want = Exchanged(cur)
  <2>1. Fits(Exchanged(pr), want)
    BY <1>5 DEF Fits, Exchanged
  <2>2. <<>> \o <<Swap>> = <<Swap>>
    OBVIOUS
  <2>3. new # <<>> /\ Leads(<<>> \o new, pr, want)
    BY <1>5, <2>1, <2>2 DEF Leads
  <2> QED  BY <2>3 DEF want, new
<1>6. CASE new = <<Connect(1, want[1]), Connect(2, want[2])>>
  <2>1. new # <<>> /\ Leads(<<>> \o new, pr, want)
    BY <1>1, <1>3, <1>6, LeadsBoth
  <2> QED  BY <2>1 DEF want, new
<1>7. CASE new = <<Connect(1, want[1])>> /\ want[2] = cur[2]
  <2>1. want[2] = Nowhere \/ pr[2] = want[2]
    BY <1>7 DEF Fits
  <2>2. 1 \in 1..2 /\ 2 \in 1..2 /\ 1 # 2
    OBVIOUS
  <2>3. Leads(<<>> \o <<Connect(1, want[1])>>, pr, want)
    BY <1>1, <1>3, <2>1, <2>2, LeadsOne
  <2>4. new # <<>> /\ Leads(<<>> \o new, pr, want)
    BY <1>7, <2>3
  <2> QED  BY <2>4 DEF want, new
<1>8. CASE new = <<Connect(2, want[2])>> /\ want[1] = cur[1]
  <2>1. want[1] = Nowhere \/ pr[1] = want[1]
    BY <1>8 DEF Fits
  <2>2. 2 \in 1..2 /\ 1 \in 1..2 /\ 2 # 1
    OBVIOUS
  <2>3. Leads(<<>> \o <<Connect(2, want[2])>>, pr, want)
    BY <1>1, <1>3, <2>1, <2>2, LeadsOne
  <2>4. new # <<>> /\ Leads(<<>> \o new, pr, want)
    BY <1>8, <2>3
  <2> QED  BY <2>4 DEF want, new
<1> QED  BY <1>2, <1>4, <1>5, <1>6, <1>7, <1>8

-----------------------------------------------------------------------------
(***************************************************************************)
(* The invariant holds at first, and every action preserves it.            *)
(***************************************************************************)
LEMMA TailType ==
    ASSUME NEW S, NEW s \in Seq(S), s # <<>>
    PROVE  Head(s) \in S /\ Tail(s) \in Seq(S)
  OBVIOUS

LEMMA AppendType ==
    ASSUME NEW S, NEW s \in Seq(S), NEW x \in S
    PROVE  /\ Append(s, x) \in Seq(S)
           /\ Len(Append(s, x)) = Len(s) + 1
           /\ \A i \in 1..Len(s) : Append(s, x)[i] = s[i]
           /\ Append(s, x)[Len(s) + 1] = x
  OBVIOUS

LEMMA PairType ==
    ASSUME NEW S, NEW x \in S, NEW y \in S
    PROVE  <<x>> \in Seq(S) /\ <<x, y>> \in Seq(S)
  OBVIOUS

LEMMA JoinType ==
    ASSUME NEW S, NEW s \in Seq(S), NEW t \in Seq(S)
    PROVE  s \o t \in Seq(S)
  OBVIOUS

LEMMA JoinEmpty == <<>> \o <<>> = <<>>
  OBVIOUS

LEMMA EmptyType == \A S : <<>> \in Seq(S)
  OBVIOUS

LEMMA NoFileType == NoFile \in SavedFile
  BY EmptyType DEF NoFile, SavedFile, CommandName

LEMMA InitInv == Init => Inv
<1> SUFFICES ASSUME Init PROVE Inv
  OBVIOUS
<1>1. ParserTypeOK
  BY EmptyType DEF Init, ParserInit, ParserTypeOK
<1>2. TypeOK
  <2>1. opt_Y \in BOOLEAN
    BY DEF Init
  <2>2. pc \in {"idle", "parse", "instruct", "measure", "ack", "scan", "add",
               "finish", "crashed"} /\ cmd \in CommandName
    BY DEF Init, CommandName
  <2>3. k \in Nat \ {0}
    BY DEF Init
  <2>4. pc_cur \in Probes /\ probe \in Probes
    BY NoProbesType DEF Init
  <2>5. need_ack \in BOOLEAN /\ acked \in BOOLEAN
    BY DEF Init
  <2>6. instr \in Seq(Instruction) /\ todo \in Seq(Instruction) 
    BY EmptyType DEF Init
  <2>7. measured \in Probes \cup {<<>>}
    BY DEF Init
  <2>8. added \in Seq(Result)
    BY EmptyType DEF Init
  <2>9. saved \in SavedFile
    BY NoFileType DEF Init
  <2> QED BY <1>1, <2>1, <2>2, <2>3, <2>4, <2>5, <2>6, <2>7, <2>8, <2>9
      DEF TypeOK
<1>3. StepsInv /\ FlowInv
  BY DEF Init, ParserInit, StepsInv, FlowInv, Loop
<1>4. Truth(cmd, steps, added) /\ ProbesInv /\ SavedInv
  BY DEF Init, Truth, ProbesInv, SavedInv, NoFile
<1> QED  BY <1>2, <1>3, <1>4 DEF Inv

LEMMA InstructionsType ==
    ASSUME NEW step \in CalStep, NEW cur \in Probes, ~NamesNull(step, cur)
    PROVE  Instructions(step, cur) \in Seq(Instruction)
<1> DEFINE want == Wanted(step)
           c1   == Connect(1, want[1])
           c2   == Connect(2, want[2])
           new  == Instructions(step, cur)
<1>1. want[1] \in Connection /\ want[2] \in Connection /\ want[1] # Nowhere
  BY WantedType DEF Probes
<1>2. c1 \in Instruction /\ Swap \in Instruction
  BY <1>1, InstructionType DEF Instruction
<1>3. new \in {<<>>, <<Swap>>, <<c1, c2>>, <<c1>>, <<c2>>}
  BY InstructionsCases
<1>4. want[2] # Nowhere => c2 \in Instruction
  BY <1>1, InstructionType
<1>5. new \in {<<c1, c2>>, <<c2>>} => want[2] # Nowhere
  <2> SUFFICES ASSUME new \in {<<c1, c2>>, <<c2>>} PROVE want[2] # Nowhere
    OBVIOUS
  <2>1. \A i \in 1..Len(new) : new[i] # Connect(2, Nowhere)
    BY DEF NamesNull
  <2> HIDE DEF c1, c2, new, want
  <2>2. \E i \in 1..Len(new) : new[i] = c2
    <3>1. CASE new = <<c1, c2>>
      <4>1. 2 \in 1..Len(new) /\ new[2] = c2
        BY <3>1
      <4> QED  BY <4>1
    <3>2. CASE new = <<c2>>
      <4>1. 1 \in 1..Len(new) /\ new[1] = c2
        BY <3>2
      <4> QED  BY <4>1
    <3> QED  BY <3>1, <3>2
  <2> QED  BY <2>1, <2>2 DEF c2
<1> HIDE DEF c1, c2, new
<1>6. {<<>>, <<Swap>>, <<c1>>} \subseteq Seq(Instruction)
  BY <1>2, EmptyType
<1>7. c2 \in Instruction => {<<c1, c2>>, <<c2>>} \subseteq Seq(Instruction)
  BY <1>2, PairType
<1>8. new \in Seq(Instruction)
  BY <1>3, <1>4, <1>5, <1>6, <1>7
<1> QED  BY <1>8 DEF new

LEMMA FollowType ==
    ASSUME NEW i \in Instruction, NEW pr \in Probes
    PROVE  Follow(i, pr) \in Probes
<1>1. pr[1] \in Connection /\ pr[2] \in Connection
  BY DEF Probes
<1>2. CASE i = Swap
  BY <1>1, <1>2 DEF Follow, Exchanged, Probes
<1>3. CASE i # Swap
  <2>1. i.to \in Connection
    BY <1>3 DEF Instruction, Connect
  <2> HIDE DEF Connection
  <2> QED  BY <1>1, <1>3, <2>1 DEF Follow, Probes
<1> QED  BY <1>2, <1>3

\* The end of a command, however it ends.
LEMMA ReturnInv ==
    ASSUME Inv, Return, UNCHANGED probe, need_ack' \in BOOLEAN,
           saved' \in SavedFile, SavedInv'
    PROVE  Inv'
<1>1. ParserTypeOK'
  BY DEF Inv, TypeOK, ParserTypeOK, Return
<1>2. TypeOK'
  <2>1. NoProbes \in Probes
    BY NoProbesType
  <2>2. instr' \in Seq(Instruction) /\ todo' \in Seq(Instruction)
    BY EmptyType DEF Inv, TypeOK, Return
  <2>3. added' \in Seq(Result)
    BY EmptyType DEF Return
  <2>4. cmd' \in CommandName /\ pc' = "idle" /\ k' \in Nat \ {0}
    BY DEF Return, CommandName
  <2>5. opt_Y' \in BOOLEAN /\ acked' \in BOOLEAN
    BY DEF Inv, TypeOK, Return
  <2>6. pc_cur' \in Probes /\ probe' \in Probes
        /\ measured' \in Probes \cup {<<>>}
    BY <2>1 DEF Inv, TypeOK, Return
  <2> QED  BY <1>1, <2>2, <2>3, <2>4, <2>5, <2>6 DEF TypeOK
<1>3. StepsInv' /\ FlowInv'
  BY DEF Return, StepsInv, FlowInv, Loop
<1>4. Truth(cmd, steps, added)' /\ ProbesInv'
  BY DEF Return, Truth, ProbesInv
<1> QED  BY <1>2, <1>3, <1>4 DEF Inv

LEMMA ParseNextType ==
    ASSUME ParserTypeOK, StepsInv, ParseNext
    PROVE  ParserTypeOK' /\ StepsInv'
<1>1. CASE GoodStep
  <2> DEFINE left  == Scanned.left
             right == Scanned.right
             new   == Classify(dims, files, left, right)
  <2>1. left \in Standard \cup {Terminator}
        /\ right \in Standard \cup {Terminator, NoStandard}
        /\ Scanned.rest \in Seq(Token)
    BY ScanStepType DEF ParserTypeOK, Scanned
  <2>2. Accepts(dims, files, left, right)
    BY <1>1 DEF GoodStep, Good
  <2> HIDE DEF left, right
  <2>3. new \in CalStep /\ WellFormed(new)
    BY <2>1, <2>2, ClassifyType DEF ParserTypeOK
  <2>4. steps' = Append(steps, new)
    BY <1>1 DEF GoodStep, left, right
  <2> HIDE DEF new
  <2>5. steps' \in Seq(CalStep) /\ steps' # <<>>
        /\ \A i \in 1..Len(steps') : WellFormed(steps'[i])
    BY SMTT(30), <2>3, <2>4, AppendType DEF ParserTypeOK, StepsInv
  <2>6. tokens' \in Seq(Token)
    <3>1. CASE Scanned.rest = <<>>
      BY <1>1, <3>1, EmptyType DEF GoodStep
    <3>2. CASE Scanned.rest # <<>>
      <4>1. tokens' = Tail(Scanned.rest)
        BY <1>1, <3>2 DEF GoodStep
      <4> QED  BY <2>1, <3>2, <4>1, TailType
    <3> QED  BY <3>1, <3>2
  <2>7. status' \in {"accepted", "step"}
    BY <1>1 DEF GoodStep
  <2> QED  BY <1>1, <2>5, <2>6, <2>7 DEF GoodStep, ParserTypeOK, StepsInv
<1>2. CASE BadStep \/ CrashStep
  BY <1>2, EmptyType DEF BadStep, CrashStep, Ends, ParserTypeOK, StepsInv
<1> QED  BY <1>1, <1>2 DEF ParseNext

\* A command begins.
LEMMA BeginType ==
    ASSUME Inv, NEW name \in CommandName \ {"none"}, Begin(name),
           ParserTypeOK', pc' \in {"parse", "instruct"}, need_ack' \in BOOLEAN
    PROVE  /\ TypeOK'
           /\ Truth(cmd, steps, added)' /\ SavedInv'
<1>1. added' \in Seq(Result) /\ saved' \in SavedFile
  BY EmptyType, NoFileType DEF Begin
<1>2. cmd' \in CommandName /\ k' \in Nat \ {0}
  BY DEF Begin
<1>3. pc_cur' \in Probes /\ acked' \in BOOLEAN
  BY NoProbesType DEF Begin
<1>4. /\ opt_Y' \in BOOLEAN /\ probe' \in Probes
      /\ instr' \in Seq(Instruction) /\ todo' \in Seq(Instruction)
      /\ measured' \in Probes \cup {<<>>}
  BY DEF Begin, Inv, TypeOK
<1>5. TypeOK'
  BY <1>1, <1>2, <1>3, <1>4 DEF TypeOK
<1>6. Truth(cmd, steps, added)' /\ SavedInv'
  BY DEF Begin, Truth, SavedInv, NoFile
<1> QED  BY <1>5, <1>6

LEMMA CommandInv == Inv /\ Command => Inv'
<1> SUFFICES ASSUME Inv, Command PROVE Inv'
  OBVIOUS
<1>1. ASSUME NEW d \in Dims, NEW f \in Files, NEW s \in Spelling,
             StartCalibrate(d, f, s)
      PROVE  Inv'
  <2>1. ParserTypeOK'
    <3>1. s \in Seq(Token)
      BY SpellingAssumption
    <3>2. steps' \in Seq(CalStep)
      BY <1>1, EmptyType DEF StartCalibrate, StartParse
    <3> QED  BY <1>1, <3>1, <3>2
        DEF StartCalibrate, StartParse, ParserTypeOK
  <2>2. StepsInv'
    BY <1>1 DEF StartCalibrate, StartParse, StepsInv
  <2>3. need_ack' \in BOOLEAN
    BY <1>1 DEF StartCalibrate, Inv, TypeOK
  <2>4. TypeOK' /\ Truth(cmd, steps, added)' /\ SavedInv'
    BY <1>1, <2>1, <2>3, BeginType DEF StartCalibrate, CommandName
  <2>5. FlowInv'
    BY <1>1 DEF StartCalibrate, Begin, FlowInv, Loop
  <2>6. ProbesInv'
    BY <1>1 DEF StartCalibrate, ProbesInv
  <2> QED  BY <2>2, <2>4, <2>5, <2>6 DEF Inv
<1>2. ASSUME NEW name \in {"asis", "exchange"}, NEW opt_P \in BOOLEAN,
             StartMeasure(name, opt_P)
      PROVE  Inv'
  <2>1. ParserTypeOK' /\ StepsInv'
    BY <1>2
    DEF Inv, TypeOK, StartMeasure, ParserTypeOK, StepsInv, parserVars
  <2>2. TypeOK' /\ Truth(cmd, steps, added)' /\ SavedInv'
    BY <1>2, <2>1, BeginType DEF StartMeasure, CommandName
  <2>3. FlowInv'
    BY <1>2 DEF StartMeasure, Begin, FlowInv, Loop, Calls
  <2>4. ProbesInv'
    BY <1>2 DEF StartMeasure, Begin, ProbesInv
  <2> QED  BY <2>1, <2>2, <2>3, <2>4 DEF Inv
<1> QED  BY <1>1, <1>2 DEF Command

-----------------------------------------------------------------------------
(***************************************************************************)
(* The program.                                                            *)
(***************************************************************************)
\* What a move within a step leaves alone.
LEMMA LoopFrame ==
    ASSUME Inv, UNCHANGED <<parserVars, opt_Y, cmd, k, pc_cur, added, saved>>,
           pc \in Loop, pc' \in Loop,
           instr' \in Seq(Instruction), todo' \in Seq(Instruction),
           need_ack' \in BOOLEAN, acked' \in BOOLEAN,
           probe' \in Probes, measured' \in Probes \cup {<<>>}, ProbesInv'
    PROVE  Inv'
<1>1. ParserTypeOK' /\ StepsInv'
  BY DEF Inv, TypeOK, ParserTypeOK, StepsInv, parserVars
<1>2. /\ cmd' \in CommandName /\ k' \in Nat \ {0} /\ opt_Y' \in BOOLEAN
      /\ pc_cur' \in Probes /\ added' \in Seq(Result) /\ saved' \in SavedFile
  BY DEF Inv, TypeOK
<1>3. pc' \in {"idle", "parse", "instruct", "measure", "ack", "scan", "add",
               "finish", "crashed"}
  BY DEF Loop
<1>4. TypeOK'
  BY <1>1, <1>2, <1>3 DEF TypeOK
<1>5. FlowInv'
  BY DEF Inv, FlowInv, Loop, Calls, parserVars
<1>6. Truth(cmd, steps, added)' /\ SavedInv'
  BY DEF Inv, Truth, SavedInv, parserVars
<1> QED  BY <1>1, <1>4, <1>5, <1>6 DEF Inv

LEMMA ReturnSame ==
    ASSUME Inv, Return, UNCHANGED <<probe, saved>>, need_ack' \in BOOLEAN
    PROVE  Inv'
<1>1. saved' \in SavedFile /\ SavedInv'
  BY DEF Inv, TypeOK, SavedInv
<1> QED  BY <1>1, ReturnInv

LEMMA ParseInv == Inv /\ Parse => Inv'
<1> SUFFICES ASSUME Inv, Parse PROVE Inv'
  OBVIOUS
<1>1. ParserTypeOK' /\ StepsInv'
  BY ParseNextType DEF Inv, TypeOK, Parse, ParseNext
<1>2. TypeOK'
  BY <1>1 DEF Inv, TypeOK, Parse, commandVars, worldVars
<1>3. FlowInv'
  BY DEF Inv, FlowInv, Parse, commandVars, worldVars, Loop
<1>4. added' = <<>> /\ pc' = "parse"
  BY DEF Inv, FlowInv, Parse, commandVars, worldVars
<1>5. Truth(cmd, steps, added)' /\ ProbesInv'
  BY <1>4 DEF Truth, ProbesInv
<1>6. SavedInv'
  BY DEF Inv, SavedInv, Parse, worldVars
<1> QED  BY <1>1, <1>2, <1>3, <1>5, <1>6 DEF Inv

LEMMA ParseCrashInv == Inv /\ ParseCrashes => Inv'
<1> SUFFICES ASSUME Inv, ParseCrashes PROVE Inv'
  OBVIOUS
<1>1. ParserTypeOK' /\ StepsInv'
  BY ParseNextType DEF Inv, TypeOK, ParseCrashes, ParseNext
<1>2. TypeOK'
  BY <1>1 DEF Inv, TypeOK, ParseCrashes, worldVars
<1>3. added' = <<>> /\ pc' = "crashed" /\ cmd' = "calibrate"
  BY DEF Inv, FlowInv, ParseCrashes, worldVars
<1>4. FlowInv'
  <2>1. Len(added') = 0 /\ Len(steps') \in Nat
    BY <1>1, <1>3 DEF ParserTypeOK
  <2> QED  BY <1>3, <2>1 DEF FlowInv, Loop
<1>5. Truth(cmd, steps, added)' /\ ProbesInv'
  BY <1>3 DEF Truth, ProbesInv
<1>6. SavedInv'
  BY DEF Inv, SavedInv, ParseCrashes, worldVars
<1> QED  BY <1>1, <1>2, <1>4, <1>5, <1>6 DEF Inv

LEMMA ParsedInv == Inv /\ Parsed => Inv'
<1> SUFFICES ASSUME Inv, Parsed PROVE Inv'
  OBVIOUS
<1>1. ParserTypeOK' /\ StepsInv'
  BY DEF Inv, TypeOK, ParserTypeOK, StepsInv, Parsed, parserVars
<1>2. TypeOK'
  BY <1>1 DEF Inv, TypeOK, Parsed, worldVars
<1>3. steps # <<>> /\ steps \in Seq(CalStep)
  BY DEF Inv, TypeOK, ParserTypeOK, StepsInv, Parsed
<1>4. Len(steps) \in Nat /\ 1 <= Len(steps) /\ Len(<<>>) = 1 - 1
  BY <1>3
<1>5. cmd' = "calibrate" /\ k' = 1 /\ added' = <<>> /\ pc_cur' = NoProbes
      /\ pc' = "instruct" /\ steps' = steps
  BY DEF Inv, FlowInv, Parsed, parserVars, worldVars
<1>6. FlowInv'
  BY <1>4, <1>5 DEF FlowInv, Loop, Calls
<1>7. Truth(cmd, steps, added)' /\ ProbesInv'
  BY <1>5 DEF Truth, ProbesInv
<1>8. SavedInv'
  BY DEF Inv, SavedInv, Parsed, worldVars
<1> QED  BY <1>1, <1>2, <1>6, <1>7, <1>8 DEF Inv

\* The current step of a calibration.
LEMMA CurrentStep ==
    ASSUME Inv, pc \in Loop, cmd = "calibrate"
    PROVE  /\ steps[k] \in CalStep /\ WellFormed(steps[k])
           /\ Wanted(steps[k]) \in Probes
<1>1. k \in 1..Len(steps) /\ steps \in Seq(CalStep)
  BY DEF Inv, TypeOK, ParserTypeOK, FlowInv, Calls
<1>2. steps[k] \in CalStep /\ WellFormed(steps[k])
  BY <1>1 DEF Inv, StepsInv
<1> QED  BY <1>2, WantedType

\* The instructions for the step at hand lead where it wants the probes.
LEMMA InstructInv == Inv /\ Instruct => Inv'
<1> SUFFICES ASSUME Inv, Instruct PROVE Inv'
  OBVIOUS
<1> DEFINE new  == NewInstructions
           want == TargetOf(cmd, steps, k)
<1>1. /\ pc = "instruct" /\ pc' = "measure"
      /\ instr' = instr \o new /\ measured' = <<>>
      /\ need_ack' = (need_ack \/ new # <<>>)
      /\ acked' = FALSE
      /\ UNCHANGED <<parserVars, opt_Y, cmd, k, pc_cur, todo, probe, added,
                     saved>>
  BY DEF Instruct
<1>2. /\ instr \in Seq(Instruction) /\ todo \in Seq(Instruction)
      /\ need_ack \in BOOLEAN /\ probe \in Probes /\ pc_cur \in Probes
      /\ k \in Nat \ {0}
  BY DEF Inv, TypeOK
<1>3. pc \in Loop /\ pc' \in Loop
  BY <1>1 DEF Loop
<1>4. new \in Seq(Instruction)
  <2>1. CASE cmd = "calibrate"
    <3>1. Wanted(steps[k]) \in Probes /\ steps[k] \in CalStep
      BY <1>3, <2>1, CurrentStep
    <3>2. Instructions(steps[k], pc_cur) \in Seq(Instruction)
      BY <1>2, <2>1, <3>1, InstructionsType DEF Instruct
    <3> QED  BY <2>1, <3>2 DEF NewInstructions
  <2>2. CASE cmd = "exchange"
    <3>1. /\ Dut(k)[1] \in Connection /\ Dut(k)[2] \in Connection
          /\ Dut(k)[1] # Nowhere /\ Dut(k)[2] # Nowhere
      BY DutType DEF Probes
    <3>2. new = <<Connect(1, Dut(k)[1]), Connect(2, Dut(k)[2])>>
      BY <2>2 DEF NewInstructions
    <3>3. Connect(1, Dut(k)[1]) \in Instruction
          /\ Connect(2, Dut(k)[2]) \in Instruction
      BY <3>1, InstructionType
    <3> HIDE DEF new
    <3> QED  BY <3>2, <3>3, PairType
  <2>3. CASE cmd \notin {"calibrate", "exchange"}
    BY <2>3, EmptyType DEF NewInstructions
  <2> QED  BY <2>1, <2>2, <2>3
<1>5. instr' \in Seq(Instruction) /\ todo' \in Seq(Instruction)
  BY <1>1, <1>2, <1>4, JoinType
<1>6. need_ack' \in BOOLEAN /\ probe' \in Probes /\ acked' \in BOOLEAN
  BY <1>1, <1>2
<1>7. cmd \in {"calibrate", "exchange"} =>
          IF need_ack' THEN Leads(instr', probe, want)
          ELSE Fits(probe, want) /\ instr' = <<>>
  <2>1. CASE cmd = "calibrate" /\ k = 1
    <3>1. new = Instructions(steps[k], NoProbes) /\ want = Wanted(steps[k])
      BY <1>1, <2>1 DEF NewInstructions, TargetOf, Inv, ProbesInv
    <3>2. new # <<>> /\ Leads(instr \o new, probe, want)
      BY <1>2, <1>3, <2>1, <3>1, CurrentStep, FirstLeads
    <3> QED  BY <1>1, <3>2
  <2>2. CASE cmd = "calibrate" /\ k # 1
    <3>1. new = Instructions(steps[k], pc_cur) /\ want = Wanted(steps[k])
      BY <2>2 DEF NewInstructions, TargetOf
    <3>2. Fits(probe, pc_cur) /\ instr = <<>> /\ ~need_ack
      <4>1. k > 1
        BY <1>2, <2>2
      <4> QED  BY <1>1, <2>2, <4>1 DEF Inv, ProbesInv
    <3>3. /\ new = <<>> => Fits(probe, want)
          /\ new # <<>> => Leads(<<>> \o new, probe, want)
      BY <1>2, <1>3, <2>2, <3>1, <3>2, CurrentStep, LaterLeads
    <3>4. new = <<>> => instr' = <<>>
      BY <1>1, <3>2, JoinEmpty
    <3> QED  BY <1>1, <3>2, <3>3, <3>4
  <2>3. CASE cmd = "exchange"
    <3>1. new = <<Connect(1, Dut(k)[1]), Connect(2, Dut(k)[2])>>
          /\ want = Dut(k)
      BY <2>3 DEF NewInstructions, TargetOf
    <3>2. Leads(instr \o <<Connect(1, Dut(k)[1]), Connect(2, Dut(k)[2])>>,
                probe, Dut(k))
      BY <1>2, DutType, LeadsBoth
    <3>3. new # <<>>
      BY <3>1
    <3> HIDE DEF new, want
    <3> QED  BY <1>1, <3>1, <3>2, <3>3
  <2> QED  BY <2>1, <2>2, <2>3
<1>8. ProbesInv'
  BY <1>1, <1>7 DEF ProbesInv, TargetOf, parserVars
<1> QED  BY <1>1, <1>3, <1>5, <1>6, <1>8, LoopFrame

LEMMA PromptInv == Inv /\ (Prompt \/ NoPrompt) => Inv'
<1> SUFFICES ASSUME Inv, Prompt \/ NoPrompt PROVE Inv'
  OBVIOUS
<1>1. /\ instr \in Seq(Instruction) /\ todo \in Seq(Instruction)
      /\ need_ack \in BOOLEAN /\ acked \in BOOLEAN
      /\ probe \in Probes /\ measured \in Probes \cup {<<>>}
  BY DEF Inv, TypeOK
<1>2. CASE Prompt
  <2>1. pc \in Loop /\ pc' \in Loop
    BY <1>2 DEF Prompt, Loop
  <2>2. instr' \in Seq(Instruction) /\ todo' \in Seq(Instruction)
    BY <1>1, <1>2, EmptyType DEF Prompt
  <2>3. ProbesInv'
    BY <1>2 DEF Prompt, Inv, ProbesInv, TargetOf, parserVars, worldVars
  <2> QED  BY <1>1, <1>2, <2>1, <2>2, <2>3, LoopFrame DEF Prompt, worldVars
<1>3. CASE NoPrompt
  <2>1. pc \in Loop /\ pc' \in Loop
    BY <1>3 DEF NoPrompt, Loop
  <2>2. ProbesInv'
    BY <1>3 DEF NoPrompt, Inv, ProbesInv, TargetOf, parserVars, worldVars
  <2> QED  BY <1>1, <1>3, <2>1, <2>2, LoopFrame DEF NoPrompt, worldVars
<1> QED  BY <1>2, <1>3

LEMMA AckInv == Inv /\ (FollowOne \/ Acknowledge) => Inv'
<1> SUFFICES ASSUME Inv, FollowOne \/ Acknowledge PROVE Inv'
  OBVIOUS
<1>1. /\ instr \in Seq(Instruction) /\ todo \in Seq(Instruction)
      /\ need_ack \in BOOLEAN /\ acked \in BOOLEAN
      /\ probe \in Probes /\ measured \in Probes \cup {<<>>}
  BY DEF Inv, TypeOK
<1> DEFINE want == TargetOf(cmd, steps, k)
<1>2. pc = "ack"
  BY DEF FollowOne, Acknowledge
<1>3. cmd \in {"calibrate", "exchange"} =>
          want \in Probes /\ Leads(todo, probe, want) /\ instr = <<>>
          /\ measured = <<>>
  <2>1. cmd = "calibrate" => want \in Probes
    BY <1>2, CurrentStep DEF Loop, TargetOf
  <2>2. cmd = "exchange" => want \in Probes
    BY DutType DEF TargetOf
  <2> QED  BY <1>2, <2>1, <2>2 DEF Inv, ProbesInv
<1>4. CASE FollowOne
  <2>1. pc \in Loop /\ pc' \in Loop
    BY <1>4 DEF FollowOne, Loop
  <2>2. Head(todo) \in Instruction /\ todo' \in Seq(Instruction)
    BY <1>1, <1>4, TailType DEF FollowOne
  <2>3. probe' \in Probes
    BY <1>1, <1>4, <2>2, FollowType DEF FollowOne
  <2>4. cmd \in {"calibrate", "exchange"} => Leads(todo', probe', want)
    BY <1>1, <1>3, <1>4, LeadsStep DEF FollowOne
  <2>5. ProbesInv'
    BY <1>3, <1>4, <2>4 DEF FollowOne, ProbesInv, TargetOf, parserVars
  <2> QED  BY <1>1, <1>4, <2>1, <2>2, <2>3, <2>5, LoopFrame DEF FollowOne
<1>5. CASE Acknowledge
  <2>1. pc \in Loop /\ pc' \in Loop
    BY <1>5 DEF Acknowledge, Loop
  <2>2. cmd \in {"calibrate", "exchange"} => Fits(probe, want)
    BY <1>1, <1>3, <1>5, LeadsDone DEF Acknowledge
  <2>3. ProbesInv'
    BY <1>3, <1>5, <2>2
    DEF Acknowledge, ProbesInv, TargetOf, parserVars, worldVars
  <2> QED  BY <1>1, <1>5, <2>1, <2>3, LoopFrame DEF Acknowledge, worldVars
<1> QED  BY <1>4, <1>5

\* The program crashes; it is started again by Restart.
LEMMA CrashInv ==
    ASSUME Inv, pc \in Loop, pc' = "crashed",
           UNCHANGED <<parserVars, opt_Y, cmd, k, pc_cur, instr, need_ack,
                       todo, acked, worldVars>>
    PROVE  Inv'
<1>1. ParserTypeOK' /\ StepsInv'
  BY DEF Inv, TypeOK, ParserTypeOK, StepsInv, parserVars
<1>2. TypeOK'
  BY <1>1 DEF Inv, TypeOK, worldVars
<1>3. FlowInv'
  <2>1. cmd = "calibrate" => Len(added) <= Len(steps)
    <3>1. Len(steps) \in Nat /\ k \in Nat
      BY DEF Inv, TypeOK, ParserTypeOK
    <3> QED  BY <3>1 DEF Inv, FlowInv, Calls
  <2> QED  BY <2>1 DEF FlowInv, Loop, parserVars, worldVars
<1>4. Truth(cmd, steps, added)' /\ SavedInv'
  BY DEF Inv, Truth, SavedInv, parserVars, worldVars
<1>5. ProbesInv'
  BY DEF ProbesInv
<1> QED  BY <1>1, <1>2, <1>3, <1>4, <1>5 DEF Inv

LEMMA ScanInv == Inv /\ (Scan \/ ScanFailsUnnoticed) => Inv'
<1> SUFFICES ASSUME Inv, Scan \/ ScanFailsUnnoticed PROVE Inv'
  OBVIOUS
<1>1. /\ instr \in Seq(Instruction) /\ todo \in Seq(Instruction)
      /\ need_ack \in BOOLEAN /\ acked \in BOOLEAN
      /\ probe \in Probes /\ measured \in Probes \cup {<<>>}
  BY DEF Inv, TypeOK
<1>2. CASE Scan
  <2>1. pc \in Loop /\ pc' \in Loop
    BY <1>2 DEF Scan, Loop
  <2>2. measured' \in Probes \cup {<<>>}
    BY <1>1, <1>2 DEF Scan
  <2>3. ProbesInv'
    BY <1>2 DEF Scan, Inv, ProbesInv, TargetOf, parserVars
  <2> QED  BY <1>1, <1>2, <2>1, <2>2, <2>3, LoopFrame DEF Scan
<1>3. CASE ScanFailsUnnoticed /\ cmd = "calibrate"
  <2>1. pc \in Loop /\ pc' \in Loop
    BY <1>3 DEF ScanFailsUnnoticed, Loop
  <2>2. ProbesInv'
    BY <1>3
    DEF ScanFailsUnnoticed, Inv, ProbesInv, TargetOf, parserVars, worldVars
  <2> QED  BY <1>1, <1>3, <2>1, <2>2, LoopFrame
      DEF ScanFailsUnnoticed, worldVars
<1>4. CASE ScanFailsUnnoticed /\ cmd # "calibrate"
  BY <1>4, CrashInv DEF ScanFailsUnnoticed, Loop
<1> QED  BY <1>2, <1>3, <1>4

\* What is added was measured where the step wants the probes.
LEMMA AddInv == Inv /\ Add => Inv'
<1> SUFFICES ASSUME Inv, Add PROVE Inv'
  OBVIOUS
<1> DEFINE claims == IF cmd = "calibrate" THEN Claims(steps[k]) ELSE {}
           new    == [claims |-> claims, probes |-> measured]
           want   == TargetOf(cmd, steps, k)
<1>1. /\ pc = "add" /\ measured # <<>>
      /\ added' = Append(added, new)
      /\ pc_cur' = IF cmd = "calibrate" THEN Wanted(steps[k]) ELSE pc_cur
      /\ k' = k + 1
      /\ pc' = IF k = Calls THEN "finish" ELSE "instruct"
      /\ UNCHANGED <<parserVars, opt_Y, cmd, instr, need_ack, todo, acked,
                     probe, measured, saved>>
  BY DEF Add
<1>2. k \in Nat \ {0} /\ added \in Seq(Result) /\ measured \in Probes
      /\ pc_cur \in Probes
  BY <1>1 DEF Inv, TypeOK
<1>3. cmd # "none" /\ k <= Calls /\ Len(added) = k - 1 /\ Calls \in Nat
  <2>1. Calls \in Nat
    BY DEF Calls, Inv, TypeOK, ParserTypeOK
  <2> QED  BY <1>1, <2>1 DEF Inv, FlowInv, Loop
<1>4. cmd = "calibrate" =>
          /\ steps[k] \in CalStep /\ WellFormed(steps[k])
          /\ Wanted(steps[k]) \in Probes
  BY <1>1, CurrentStep DEF Loop
<1>5. claims \in SUBSET [port : 1..2, is : Connection]
  BY <1>4, ClaimsCorrect
<1>6. new \in Result
  BY <1>2, <1>5 DEF Result
<1>7. /\ added' \in Seq(Result) /\ Len(added') = k
      /\ \A i \in 1..(k - 1) : added'[i] = added[i]
      /\ added'[k] = new
  <2> HIDE DEF new
  <2>1. /\ Append(added, new) \in Seq(Result)
        /\ Len(Append(added, new)) = Len(added) + 1
        /\ \A i \in 1..Len(added) : Append(added, new)[i] = added[i]
        /\ Append(added, new)[Len(added) + 1] = new
    BY <1>2, <1>6, AppendType
  <2>2. Len(added) + 1 = k
    BY <1>2, <1>3
  <2> QED  BY <1>1, <1>3, <2>1, <2>2
<1>8. ParserTypeOK' /\ StepsInv'
  BY <1>1 DEF Inv, TypeOK, ParserTypeOK, StepsInv, parserVars
<1>9. TypeOK'
  <2>1. pc_cur' \in Probes /\ measured' \in Probes \cup {<<>>}
    BY <1>1, <1>2, <1>4
  <2>2. k' \in Nat \ {0}
    BY <1>1, <1>2
  <2>3. /\ opt_Y' \in BOOLEAN /\ cmd' \in CommandName
        /\ instr' \in Seq(Instruction) /\ todo' \in Seq(Instruction)
        /\ need_ack' \in BOOLEAN /\ acked' \in BOOLEAN
        /\ probe' \in Probes /\ saved' \in SavedFile
    BY <1>1 DEF Inv, TypeOK
  <2>4. pc' \in {"finish", "instruct"}
    BY <1>1
  <2> QED  BY <1>7, <1>8, <2>1, <2>2, <2>3, <2>4 DEF TypeOK
<1>10. Calls' = Calls
  BY <1>1 DEF Calls, parserVars
<1>11. FlowInv'
  <2>1. pc' = "instruct" => k + 1 <= Calls /\ Len(added') = (k + 1) - 1
    BY <1>1, <1>2, <1>3, <1>7
  <2>2. pc' = "finish" => Len(added') = Calls
    BY <1>1, <1>7
  <2> QED  BY <1>1, <1>3, <1>10, <2>1, <2>2 DEF FlowInv, Loop
<1>12. cmd \in {"calibrate", "exchange"} =>
           /\ Fits(probe, want) /\ instr = <<>> /\ ~need_ack
           /\ measured = probe
  BY <1>1 DEF Inv, ProbesInv
<1>13. Truth(cmd, steps, added)'
  <2> SUFFICES ASSUME cmd \in {"calibrate", "exchange"},
                      NEW i \in 1..Len(added')
               PROVE  /\ Fits(added'[i].probes, TargetOf(cmd, steps, i))
                      /\ cmd = "calibrate" =>
                             added'[i].claims = Claims(steps[i])
    BY <1>1 DEF Truth, TargetOf, parserVars
  <2>1. CASE i = k
    BY <1>7, <1>12, <2>1
  <2>2. CASE i # k
    <3>1. i \in 1..Len(added) /\ i \in 1..(k - 1)
      BY <1>2, <1>3, <1>7, <2>2
    <3>2. added'[i] = added[i]
      BY <1>7, <3>1
    <3> QED  BY <3>1, <3>2 DEF Inv, Truth
  <2> QED  BY <2>1, <2>2
<1>14. ProbesInv'
  <2>1. k' > 1
    BY <1>1, <1>2
  <2>2. pc' = "instruct" /\ cmd = "calibrate" =>
            Fits(probe, pc_cur') /\ instr = <<>> /\ ~need_ack
    BY <1>1, <1>12 DEF TargetOf
  <2>3. pc' \in {"instruct", "finish"}
    BY <1>1
  <2>4. k' # 1
    BY <2>1
  <2> QED  BY <1>1, <2>2, <2>3, <2>4 DEF ProbesInv
<1>15. SavedInv'
  BY <1>1 DEF Inv, SavedInv
<1> QED  BY <1>8, <1>9, <1>11, <1>13, <1>14, <1>15 DEF Inv

LEMMA FinishInv == Inv /\ Finish => Inv'
<1> SUFFICES ASSUME Inv, Finish PROVE Inv'
  OBVIOUS
<1>1. pc = "finish" /\ Return /\ UNCHANGED <<need_ack, probe>>
      /\ saved' = [cmd |-> cmd, steps |-> steps, added |-> added]
  BY DEF Finish
<1>2. saved' \in SavedFile
  BY <1>1 DEF Inv, TypeOK, ParserTypeOK, SavedFile
<1>3. Len(added) = Calls
  BY <1>1 DEF Inv, FlowInv
<1>4. SavedInv'
  BY <1>1, <1>3 DEF Inv, StepsInv, SavedInv, Calls
<1>5. need_ack' \in BOOLEAN
  BY <1>1 DEF Inv, TypeOK
<1> QED  BY <1>1, <1>2, <1>4, <1>5, ReturnInv

LEMMA RewireInv == Inv /\ Rewire => Inv'
<1> SUFFICES ASSUME Inv, Rewire PROVE Inv'
  OBVIOUS
<1>1. probe' \in Probes
  <2>1. DutEnds \subseteq Connection
    BY DEF DutEnds, At, Connection
  <2> HIDE DEF DutEnds, Connection
  <2> QED  BY <2>1 DEF Rewire, Probes
<1>2. ParserTypeOK' /\ StepsInv'
  BY DEF Inv, TypeOK, ParserTypeOK, StepsInv, Rewire, parserVars
<1>3. TypeOK'
  BY <1>1, <1>2 DEF Inv, TypeOK, Rewire, commandVars
<1>4. FlowInv'
  BY DEF Inv, FlowInv, Rewire, commandVars, parserVars, Calls, Loop
<1>5. cmd' = "none"
  BY DEF Inv, FlowInv, Rewire, commandVars
<1>6. Truth(cmd, steps, added)' /\ ProbesInv'
  BY <1>5 DEF Truth, ProbesInv
<1>7. SavedInv'
  BY DEF Inv, SavedInv, Rewire
<1> QED  BY <1>2, <1>3, <1>4, <1>6, <1>7 DEF Inv

LEMMA RestartInv == Inv /\ Restart => Inv'
<1> SUFFICES ASSUME Inv, Restart PROVE Inv'
  OBVIOUS
<1>1. ParserTypeOK' /\ StepsInv'
  BY EmptyType DEF Inv, TypeOK, ParserTypeOK, StepsInv, Restart
<1>2. instr' \in Seq(Instruction) /\ todo' \in Seq(Instruction)
      /\ added' \in Seq(Result) /\ saved' \in SavedFile
  BY EmptyType, NoFileType DEF Restart
<1>3. pc_cur' \in Probes /\ probe' \in Probes
      /\ measured' \in Probes \cup {<<>>}
  BY NoProbesType DEF Inv, TypeOK, Restart
<1>4. cmd' \in CommandName /\ pc' = "idle" /\ k' \in Nat \ {0}
  BY DEF Restart, CommandName
<1>8. need_ack' \in BOOLEAN /\ acked' \in BOOLEAN /\ opt_Y' \in BOOLEAN
  BY DEF Restart
<1>5. TypeOK'
  BY <1>1, <1>2, <1>3, <1>4, <1>8 DEF TypeOK
<1>6. FlowInv' /\ Truth(cmd, steps, added)' /\ ProbesInv'
  BY DEF FlowInv, Truth, ProbesInv, Restart, Loop
<1>7. SavedInv'
  BY DEF Restart, SavedInv, Truth, NoFile
<1> QED  BY <1>1, <1>5, <1>6, <1>7 DEF Inv

\* Every step preserves the invariant.
LEMMA StepInv == Inv /\ [Next]_vars => Inv'
<1> SUFFICES ASSUME Inv, [Next]_vars PROVE Inv'
  OBVIOUS
<1>1. need_ack \in BOOLEAN
  BY DEF Inv, TypeOK
<1>2. ASSUME ParseFails \/ SwitchFails \/ ScanFails \/ AddRefused
             \/ FinishFails \/ Cancel
      PROVE  Inv'
  <2>1. Return /\ UNCHANGED <<probe, saved>> /\ need_ack' \in BOOLEAN
    BY <1>1, <1>2
    DEF ParseFails, SwitchFails, ScanFails, AddRefused, FinishFails, Cancel
  <2> QED  BY <2>1, ReturnSame
<1>3. CASE NullStandard
  BY <1>3, CrashInv DEF NullStandard, Loop
<1>4. CASE UNCHANGED vars
  <2>1. ParserTypeOK' /\ StepsInv'
    BY <1>4 DEF vars, Inv, TypeOK, ParserTypeOK, StepsInv, parserVars
  <2>2. TypeOK'
    BY <1>4, <2>1 DEF vars, commandVars, worldVars, Inv, TypeOK
  <2>3. FlowInv' /\ Truth(cmd, steps, added)'
    BY <1>4 DEF vars, commandVars, worldVars, parserVars, Inv, FlowInv,
                Truth, Calls
  <2>4. ProbesInv' /\ SavedInv'
    BY <1>4 DEF vars, commandVars, worldVars, parserVars, Inv, ProbesInv,
                SavedInv, TargetOf
  <2> QED  BY <2>1, <2>2, <2>3, <2>4 DEF Inv
<1>5. CASE Command
  BY <1>5, CommandInv
<1>6. CASE Program
  BY <1>2, <1>3, <1>6, ParseInv, ParseCrashInv, ParsedInv, InstructInv, PromptInv, ScanInv,
     AddInv, FinishInv DEF Program
<1>7. CASE Operator
  BY <1>2, <1>7, AckInv, RewireInv DEF Operator
<1>8. CASE Restart
  BY <1>8, RestartInv
<1> QED  BY <1>4, <1>5, <1>6, <1>7, <1>8 DEF Next

-----------------------------------------------------------------------------
(***************************************************************************)
(* Theorems.                                                               *)
(***************************************************************************)
\* Inv is an invariant of the calibrate and measure commands.
THEOREM Invariance == Spec => []Inv
  BY InitInv, StepInv, PTL DEF Spec

\* Every variable keeps its type: in particular an accepted step always has a
\* type calibrate.c handles, and the instructions name real connections.
THEOREM TypeCorrect == Spec => []TypeOK
<1>1. Inv => TypeOK
  BY DEF Inv
<1> QED  BY <1>1, Invariance, PTL

\* For any -S string and any standard files, whatever commands failed before:
\* what calibrate tells libvna about a measurement was so when it was made
\* (calibrate.c 332-451).
THEOREM AddedCorrect == Spec => []AddedAsConnected
<1>1. Inv => AddedAsConnected
  <2> SUFFICES ASSUME Inv, cmd = "calibrate", NEW i \in 1..Len(added)
               PROVE  /\ \A p \in 1..2 :
                             Wanted(steps[i])[p] # Nowhere =>
                                 added[i].probes[p] = Wanted(steps[i])[p]
                      /\ \A c \in added[i].claims :
                             added[i].probes[c.port] = c.is
    BY DEF AddedAsConnected
  <2>1. Fits(added[i].probes, Wanted(steps[i]))
        /\ added[i].claims = Claims(steps[i])
    BY DEF Inv, Truth, TargetOf
  <2>2. steps[i] \in CalStep /\ WellFormed(steps[i])
    <3>1. Len(added) <= Len(steps)
      <4>1. /\ Len(steps) \in Nat /\ Len(added) \in Nat /\ k \in Nat
        BY DEF Inv, TypeOK, ParserTypeOK
      <4>2. CASE pc \in Loop
        BY <4>1, <4>2 DEF Inv, FlowInv, Calls
      <4>3. CASE pc = "finish"
        BY <4>1, <4>3 DEF Inv, FlowInv, Calls
      <4>4. CASE pc = "parse"
        BY <4>1, <4>4 DEF Inv, FlowInv
      <4>5. CASE pc = "crashed"
        BY <4>1, <4>5 DEF Inv, FlowInv
      <4>6. pc # "idle"
        BY DEF Inv, FlowInv
      <4> QED  BY <4>2, <4>3, <4>4, <4>5, <4>6 DEF Inv, TypeOK, Loop
    <3>2. i \in 1..Len(steps)
      BY <3>1 DEF Inv, TypeOK, ParserTypeOK
    <3> QED  BY <3>2 DEF Inv, TypeOK, ParserTypeOK, StepsInv
  <2>3. \A c \in Claims(steps[i]) : /\ c.port \in 1..2
                                    /\ c.is = Wanted(steps[i])[c.port]
                                    /\ c.is # Nowhere
    BY <2>2, ClaimsCorrect
  <2> QED  BY <2>1, <2>3 DEF Fits
<1> QED  BY <1>1, Invariance, PTL

\* A calibration file holds every step of the -S string, in order, each
\* declared to libvna for what the string says (calibrate.c 322-505).
THEOREM SavedCorrect == Spec => []SavedIsComplete
<1>1. Inv => SavedIsComplete
  <2> SUFFICES ASSUME Inv, saved.cmd = "calibrate"
               PROVE  /\ Len(saved.added) = Len(saved.steps)
                      /\ \A i \in 1..Len(saved.steps) :
                             saved.added[i].claims =
                                 MeantClaims(saved.steps[i])
    BY DEF SavedIsComplete
  <2>1. Len(saved.added) = Len(saved.steps)
    BY DEF Inv, SavedInv
  <2>2. ASSUME NEW i \in 1..Len(saved.steps)
        PROVE  saved.added[i].claims = MeantClaims(saved.steps[i])
    <3>1. saved.added[i].claims = Claims(saved.steps[i])
      BY <2>1 DEF Inv, SavedInv, Truth
    <3>2. saved.steps \in Seq(CalStep)
      BY DEF Inv, TypeOK, SavedFile
    <3>3. saved.steps[i] \in CalStep /\ WellFormed(saved.steps[i])
      BY <3>2 DEF Inv, SavedInv
    <3> QED  BY <3>1, <3>3, ClaimsCorrect
  <2> QED  BY <2>1, <2>2
<1> QED  BY <1>1, Invariance, PTL

\* measure with a 2x1 calibration puts every cell where it was received, the
\* probes having been exchanged between its calls (measure.c 517-600).
THEOREM MatrixCorrect == Spec => []MatrixAsConnected
<1>1. Inv => MatrixAsConnected
  <2> SUFFICES ASSUME Inv, saved.cmd = "exchange", NEW i \in 1..2, NEW j \in 1..2
               PROVE  LET probes == saved.added[Cell(i, j).call].probes
                      IN  /\ probes[Cell(i, j).row] = At("DUT", i)
                          /\ probes[1] = At("DUT", j)
    BY DEF MatrixAsConnected
  <2> DEFINE pr(c) == saved.added[c].probes
  <2>1. \A c \in 1..2 : Fits(pr(c), Dut(c))
    BY DEF Inv, SavedInv, Truth, TargetOf
  <2>2. \A c \in 1..2, p \in 1..2 : pr(c)[p] = Dut(c)[p]
    BY <2>1, DutType DEF Fits
  <2>3. /\ pr(1)[1] = At("DUT", 1) /\ pr(1)[2] = At("DUT", 2)
        /\ pr(2)[1] = At("DUT", 2) /\ pr(2)[2] = At("DUT", 1)
    BY <2>2 DEF Dut
  <2>4. Cell(i, j).call = j /\ Cell(i, j).row = IF j = 1 THEN i ELSE 3 - i
    BY DEF Cell
  <2> HIDE DEF pr
  <2>5. pr(j)[IF j = 1 THEN i ELSE 3 - i] = At("DUT", i)
        /\ pr(j)[1] = At("DUT", j)
    BY <2>3
  <2> QED  BY <2>4, <2>5 DEF pr
<1> QED  BY <1>1, Invariance, PTL
-----------------------------------------------------------------------------
(***************************************************************************)
(* No needless instruction.  Every step leaves the probes where the next   *)
(* one finds them, and no standard has one port in one step and two in     *)
(* another, so what changes between two steps tells what is connected.     *)
(***************************************************************************)
PortsFit(step) ==
    Ports(files, step.standards[1]) =
        IF step.type \in {"THROUGH", "LINE"} THEN 2 ELSE 1

CarryInv ==
    /\ \A i \in 1..Len(steps) : PortsFit(steps[i])
    /\ pc \in Loop /\ cmd = "calibrate" /\ k > 1 =>
           pc_cur = Wanted(steps[k - 1])

LEMMA ClassifyPorts ==
    ASSUME NEW d \in Dims, NEW f \in Files,
           NEW left \in Standard \cup {Terminator},
           NEW right \in Standard \cup {Terminator, NoStandard},
           Accepts(d, f, left, right)
    PROVE  LET step == Classify(d, f, left, right)
           IN  Ports(f, step.standards[1]) =
                   IF step.type \in {"THROUGH", "LINE"} THEN 2 ELSE 1
<1> DEFINE second == IF LoneReflect(d, f, left, right)
                     THEN Terminator ELSE right
           type == IF Terminator \in {left, second} THEN "SINGLE_REFLECT"
                   ELSE IF second # NoStandard THEN "DOUBLE_REFLECT"
                   ELSE IF Ports(f, left) = 1 THEN "SINGLE_REFLECT"
                   ELSE IF left = "T" THEN "THROUGH"
                   ELSE "LINE"
<1>1. Classify(d, f, left, right) = [type |-> type,
                                     standards |-> <<left, second>>]
  BY DEF Classify
<1>2. Ports(f, Terminator) = 1
  <2>1. Terminator # "T" /\ Terminator \notin Identifier
    BY IdentifierAssumption DEF Terminator
  <2> QED  BY <2>1 DEF Ports
<1>3. right # NoStandard => Ports(f, left) = 1
  BY DEF Accepts, LoneReflect
<1>4. LoneReflect(d, f, left, right) => Ports(f, left) = 1
  BY DEF LoneReflect
<1>5. right = NoStandard => Ports(f, left) \in {1, 2}
  <2>1. d.rows \in {1, 2}
    BY DEF Dims
  <2> QED  BY <2>1 DEF Accepts, LoneReflect
<1>6. Terminator # NoStandard
  BY DEF Terminator, NoStandard
<1>7. Ports(f, left) = IF type \in {"THROUGH", "LINE"} THEN 2 ELSE 1
  <2> HIDE DEF Terminator, NoStandard
  <2>1. CASE Terminator \in {left, second}
    <3>1. Ports(f, left) = 1
      BY <1>2, <1>3, <1>4, <1>6, <2>1
    <3> QED  BY <2>1, <3>1
  <2>2. CASE Terminator \notin {left, second} /\ second # NoStandard
    BY <1>3, <1>4, <2>2
  <2>3. CASE Terminator \notin {left, second} /\ second = NoStandard
    <3>1. right = NoStandard
      BY <1>6, <2>3
    <3> QED  BY <1>5, <2>3, <3>1
  <2> QED  BY <2>1, <2>2, <2>3
<1> HIDE DEF second, type
<1> QED  BY <1>1, <1>7

\* One more step in the list.
LEMMA ParsePorts ==
    ASSUME Inv, CarryInv, ParseNext
    PROVE  \A i \in 1..Len(steps') : PortsFit(steps[i])'
<1>1. CASE GoodStep
  <2> DEFINE new == Classify(dims, files, Scanned.left, Scanned.right)
  <2>1. /\ Scanned.left \in Standard \cup {Terminator}
        /\ Scanned.right \in Standard \cup {Terminator, NoStandard}
    BY ScanStepType DEF Inv, TypeOK, ParserTypeOK, Scanned
  <2>2. Accepts(dims, files, Scanned.left, Scanned.right)
    BY <1>1 DEF GoodStep, Good
  <2>3. PortsFit(new) /\ new \in CalStep
    BY <2>1, <2>2, ClassifyPorts, ClassifyType
    DEF PortsFit, Inv, TypeOK, ParserTypeOK
  <2>4. steps' = Append(steps, new) /\ files' = files
    BY <1>1 DEF GoodStep
  <2> HIDE DEF new
  <2>5. steps \in Seq(CalStep)
    BY DEF Inv, TypeOK, ParserTypeOK
  <2>6. \A i \in 1..Len(steps') : i \in 1..Len(steps) \/ i = Len(steps) + 1
    BY <2>3, <2>4, <2>5, AppendType
  <2>7. \A i \in 1..Len(steps') : PortsFit(steps'[i])
    BY <2>3, <2>4, <2>5, <2>6, AppendType DEF CarryInv
  <2> QED  BY <2>4, <2>7 DEF PortsFit
<1>2. CASE BadStep \/ CrashStep
  BY <1>2 DEF BadStep, CrashStep, Ends, CarryInv, PortsFit
<1> QED  BY <1>1, <1>2 DEF ParseNext

\* A command that begins or ends has no step before it.
LEMMA FirstCarries ==
    ASSUME Inv, CarryInv, k' = 1,
           steps' = <<>> \/ UNCHANGED <<steps, files>>
    PROVE  CarryInv'
<1>1. \A i \in 1..Len(steps') : PortsFit(steps[i])'
  BY DEF CarryInv, PortsFit
<1> QED  BY <1>1 DEF CarryInv

\* Within a step nothing that counts changes.
LEMMA SameCarries ==
    ASSUME Inv, CarryInv, UNCHANGED <<steps, files, cmd, k, pc_cur>>,
           pc' \in Loop => pc \in Loop
    PROVE  CarryInv'
  BY DEF CarryInv, PortsFit

LEMMA AddCarries ==
    ASSUME Inv, CarryInv, Add
    PROVE  CarryInv'
<1>1. /\ UNCHANGED <<steps, files, cmd>>
      /\ k' = k + 1 /\ k \in Nat
      /\ cmd = "calibrate" => pc_cur' = Wanted(steps[k])
  BY DEF Add, parserVars, Inv, TypeOK
<1>2. k' - 1 = k
  BY <1>1
<1> QED  BY <1>1, <1>2 DEF CarryInv, PortsFit

LEMMA CarryStep == Inv /\ CarryInv /\ [Next]_vars => CarryInv'
<1> SUFFICES ASSUME Inv, CarryInv, [Next]_vars PROVE CarryInv'
  OBVIOUS
<1>1. CASE Command
  BY <1>1, FirstCarries
  DEF Command, StartCalibrate, StartMeasure, Begin, StartParse, parserVars
<1>2. ASSUME Parsed \/ Parse \/ ParseCrashes PROVE CarryInv'
  <2>1. k = 1 /\ k' = 1 /\ pc = "parse"
    BY <1>2 DEF Parsed, Parse, ParseCrashes, Inv, FlowInv, commandVars
  <2>2. CASE Parsed
    BY <2>1, <2>2, FirstCarries DEF Parsed, parserVars
  <2>3. CASE Parse \/ ParseCrashes
    <3>1. \A i \in 1..Len(steps') : PortsFit(steps[i])'
      BY <2>3, ParsePorts DEF Parse, ParseCrashes, ParseNext
    <3> QED  BY <2>1, <3>1 DEF CarryInv
  <2> QED  BY <1>2, <2>2, <2>3
<1>3. ASSUME ParseFails \/ SwitchFails \/ ScanFails \/ AddRefused
             \/ FinishFails \/ Cancel \/ Finish
      PROVE  CarryInv'
  <2>1. Return
    BY <1>3 DEF ParseFails, SwitchFails, ScanFails, AddRefused, FinishFails,
                Cancel, Finish
  <2> QED  BY <2>1, FirstCarries DEF Return
<1>4. ASSUME \/ Instruct \/ NullStandard \/ Prompt \/ NoPrompt \/ Scan
             \/ ScanFailsUnnoticed \/ FollowOne \/ Acknowledge \/ Rewire
      PROVE  CarryInv'
  <2>1. UNCHANGED <<steps, files, cmd, k, pc_cur>>
    BY <1>4
    DEF Instruct, NullStandard, Prompt, NoPrompt, Scan, ScanFailsUnnoticed,
        FollowOne, Acknowledge, Rewire, parserVars, commandVars
  <2>2. pc' \in Loop => pc \in Loop
    BY <1>4
    DEF Instruct, NullStandard, Prompt, NoPrompt, Scan, ScanFailsUnnoticed,
        FollowOne, Acknowledge, Rewire, commandVars, Loop
  <2> QED  BY <2>1, <2>2, SameCarries
<1>5. CASE Restart
  BY <1>5, FirstCarries DEF Restart
<1>6. CASE UNCHANGED vars
  BY <1>6, SameCarries DEF vars, parserVars, commandVars
<1>7. CASE Program
  BY <1>2, <1>3, <1>4, <1>7, AddCarries DEF Program
<1>8. CASE Operator
  BY <1>3, <1>4, <1>8 DEF Operator
<1> QED  BY <1>1, <1>5, <1>6, <1>7, <1>8 DEF Next

\* Two steps that want the same of one probe and use a through or line want
\* the same of both.
LEMMA TwoPortAlone ==
    ASSUME NEW s \in CalStep, NEW t \in CalStep, PortsFit(s), PortsFit(t),
           t.type \in {"THROUGH", "LINE"},
           NEW p \in 1..2, Wanted(s)[p] = Wanted(t)[p]
    PROVE  Wanted(s) = Wanted(t)
<1> DEFINE l(x) == x.standards[1]
           r(x) == x.standards[2]
<1>1. Wanted(t) = <<At(l(t), 1), At(l(t), 2)>>
  BY DEF Wanted
<1>2. CASE s.type \in {"THROUGH", "LINE"}
  <2>1. Wanted(s) = <<At(l(s), 1), At(l(s), 2)>>
    BY <1>2 DEF Wanted
  <2>2. l(s) = l(t)
    BY <1>1, <2>1 DEF At
  <2> QED  BY <1>1, <2>1, <2>2
<1>3. CASE s.type \notin {"THROUGH", "LINE"}
  <2>1. Wanted(s) = <<At(l(s), 1), IF r(s) = NoStandard THEN Nowhere
                                                      ELSE At(r(s), 1)>>
    BY <1>3 DEF Wanted
  <2>2. l(s) # l(t)
    BY <1>3 DEF PortsFit
  <2>3. p = 2
    BY <1>1, <2>1, <2>2 DEF At
  <2>4. Wanted(s)[2].port # 2
    BY <2>1 DEF At, Nowhere
  <2> QED  BY <1>1, <2>3, <2>4 DEF At
<1> QED  BY <1>2, <1>3

\* The instructions for a step name nothing the step before has left there.
LEMMA OnlyChanges ==
    ASSUME NEW s \in CalStep, NEW t \in CalStep, PortsFit(s), PortsFit(t),
           NEW i \in 1..Len(Instructions(t, Wanted(s)))
    PROVE  LET one == Instructions(t, Wanted(s))[i]
           IN  one # Swap => /\ one.probe \in 1..2
                             /\ one.to # Wanted(s)[one.probe]
<1> DEFINE cur  == Wanted(s)
           want == Wanted(t)
           new  == Instructions(t, cur)
           Differs(one) == one # Swap => /\ one.probe \in 1..2
                                         /\ one.to # cur[one.probe]
<1>1. cur \in Probes /\ want \in Probes
  BY WantedType
<1>2. cur = <<cur[1], cur[2]>> /\ want = <<want[1], want[2]>>
  BY <1>1 DEF Probes
<1>3. new = IF want = cur THEN <<>>
            ELSE IF want = Exchanged(cur) THEN <<Swap>>
            ELSE IF t.type \in {"THROUGH", "LINE"}
            THEN <<Connect(1, want[1]), Connect(2, want[2])>>
            ELSE IF want[2] = cur[2] THEN <<Connect(1, want[1])>>
            ELSE IF want[1] = cur[1] THEN <<Connect(2, want[2])>>
            ELSE <<Connect(1, want[1]), Connect(2, want[2])>>
  BY DEF Instructions
<1>4. t.type \in {"THROUGH", "LINE"} /\ want # cur =>
          want[1] # cur[1] /\ want[2] # cur[2]
  BY TwoPortAlone
<1>5. \A p \in 1..2 : want[p] # cur[p] => Differs(Connect(p, want[p]))
  BY ConnectIsNotSwap
<1>6. Differs(Swap)
  OBVIOUS
<1> HIDE DEF cur, want, new, Differs
<1>7. i \in 1..Len(new)
  BY DEF new, cur
<1>8. \/ new = <<>>
      \/ new = <<Swap>>
      \/ new = <<Connect(1, want[1])>> /\ want[1] # cur[1]
      \/ new = <<Connect(2, want[2])>> /\ want[2] # cur[2]
      \/ /\ new = <<Connect(1, want[1]), Connect(2, want[2])>>
         /\ want[1] # cur[1] /\ want[2] # cur[2]
  BY <1>2, <1>3, <1>4
<1>9. Differs(new[i])
  <2>1. \A a, b : /\ \A j \in 1..Len(<<a>>) : <<a>>[j] = a
                  /\ \A j \in 1..Len(<<a, b>>) : <<a, b>>[j] \in {a, b}
    OBVIOUS
  <2> QED  BY <1>5, <1>6, <1>7, <1>8, <2>1
<1> QED  BY <1>9 DEF Differs, new, cur

LEMMA NeedlessStep ==
    ASSUME Inv, CarryInv, [Next]_vars,
           pc = "instruct", cmd = "calibrate", k > 1,
           NEW i \in Len(instr) + 1..Len(instr'),
           instr'[i] # Swap, Wanted(steps[k - 1])[instr'[i].probe] # Nowhere
    PROVE  probe[instr'[i].probe] # instr'[i].to
<1> DEFINE s == steps[k - 1]
           t == steps[k]
           new == Instructions(t, Wanted(s))
<1>1. /\ k \in Nat /\ steps \in Seq(CalStep) /\ k <= Len(steps)
      /\ instr \in Seq(Instruction)
  BY DEF Inv, TypeOK, ParserTypeOK, FlowInv, Loop, Calls
<1>2. s \in CalStep /\ t \in CalStep /\ PortsFit(s) /\ PortsFit(t)
  <2>1. k - 1 \in 1..Len(steps) /\ k \in 1..Len(steps)
    BY <1>1
  <2> QED  BY <1>1, <2>1 DEF CarryInv
<1>3. pc_cur = Wanted(s) /\ Fits(probe, Wanted(s)) /\ instr = <<>>
  BY DEF CarryInv, Inv, ProbesInv, Loop
<1>4. instr' # instr
  BY <1>1
<1>5. Instruct
  BY <1>4
  DEF Next, Command, Program, Operator, StartCalibrate, StartMeasure, Begin,
      Parse, ParseCrashes, Parsed, ParseFails, NullStandard, SwitchFails,
      Prompt, NoPrompt,
      Scan, ScanFails, ScanFailsUnnoticed, Add, AddRefused, Finish,
      FinishFails, FollowOne, Acknowledge, Cancel, Rewire, Restart, vars,
      commandVars
<1>6. instr' = new
  <2>1. new \in Seq(Instruction)
    BY <1>2, <1>3, <1>5, WantedType, InstructionsType DEF Instruct
  <2>2. instr' = <<>> \o new
    BY <1>3, <1>5 DEF Instruct, NewInstructions
  <2> HIDE DEF new
  <2> QED  BY <2>1, <2>2
<1>7. i \in 1..Len(new)
  <2>1. Len(instr) = 0
    BY <1>3
  <2> QED  BY <1>6, <2>1
<1>8. /\ instr'[i].probe \in 1..2
      /\ instr'[i].to # Wanted(s)[instr'[i].probe]
  BY <1>2, <1>6, <1>7, OnlyChanges
<1> QED  BY <1>3, <1>8 DEF Fits

\* The operator is never told to connect a probe to what the step before has
\* put there, for any -S string and any standard files (calibrate.c 352-385).
THEOREM ConnectionsNeeded == Spec => NoNeedlessConnection
<1>1. Init => CarryInv
  BY DEF Init, ParserInit, CarryInv, Loop
<1>2. /\ Inv /\ CarryInv /\ [Next]_vars => CarryInv'
  BY CarryStep
<1>3. ASSUME Inv, CarryInv, [Next]_vars
      PROVE  [pc = "instruct" /\ cmd = "calibrate" /\ k > 1 =>
                 \A i \in Len(instr) + 1..Len(instr') :
                     LET p == instr'[i].probe
                     IN  instr'[i] # Swap /\ Wanted(steps[k - 1])[p] # Nowhere =>
                             probe[p] # instr'[i].to]_vars
  BY <1>3, NeedlessStep
<1> QED  BY <1>1, <1>2, <1>3, Invariance, PTL DEF Spec, NoNeedlessConnection

-----------------------------------------------------------------------------
(***************************************************************************)
(* The parser.  The two inductions over strings below rest on induction    *)
(* over the natural numbers, stated of a set.                              *)
(***************************************************************************)
(***************************************************************************)
(* Induction over the natural numbers, stated of a set.                    *)
(***************************************************************************)
LEMMA SetInduction ==
  ASSUME NEW S, 0 \in S, \A n \in Nat : n \in S => n + 1 \in S
  PROVE  Nat \subseteq S
  <1> SUFFICES ASSUME NEW m \in Nat, m \notin S PROVE FALSE
    OBVIOUS
  <1> DEFINE T == {1..n : n \in Nat \ S}
  <1>1. T # {}
    OBVIOUS
  <1>2. \A n \in Nat : IsFiniteSet(1..n) /\ 1..n \in SUBSET Nat
    BY FS_Interval
  <1>3. T \subseteq FiniteSubsetsOf(Nat)
    BY <1>2 DEF FiniteSubsetsOf
  <1> HIDE DEF T
  <1>4. PICK x \in T : \A y \in T : <<y, x>> \notin StrictSubsetOrdering(Nat)
    BY <1>1, <1>3, FS_StrictSubsetOrderingWellFounded, WFMin
  <1> USE DEF T
  <1>5. PICK n \in Nat \ S : x = 1..n
    OBVIOUS
  <1>6. n # 0 /\ n - 1 \in Nat /\ n - 1 \notin S
    OBVIOUS
  <1>7. 1..(n - 1) \in T
    BY <1>6
  <1>8. /\ 1..(n - 1) \in SUBSET Nat /\ 1..n \in SUBSET Nat
        /\ 1..(n - 1) \subseteq 1..n /\ 1..(n - 1) # 1..n
    BY <1>6
  <1> QED BY <1>4, <1>5, <1>7, <1>8 DEF StrictSubsetOrdering

(***************************************************************************)
(* FlattenSeq is a recursive function: it exists.                          *)
(***************************************************************************)
Joins(s, f, n) ==
    /\ n > 0 => f[1] = s[1]
    /\ \A i \in Nat : 0 < i /\ i < n => f[i + 1] = f[i] \o s[i + 1]

Joined(s) ==
    CHOOSE f : f = [i \in 1..Len(s) |-> IF i = 1 THEN s[i] ELSE f[i - 1] \o s[i]]

LEMMA JoinedExists ==
  ASSUME NEW T, NEW s \in Seq(Seq(T))
  PROVE  \E f \in [1..Len(s) -> Seq(T)] : Joins(s, f, Len(s))
  <1> DEFINE S == {n \in Nat : n <= Len(s) =>
                       \E f \in [1..n -> Seq(T)] : Joins(s, f, n)}
  <1>1. 0 \in S
    <2>1. <<>> \in [1..0 -> Seq(T)] /\ Joins(s, <<>>, 0)
      BY DEF Joins
    <2> QED BY <2>1
  <1>2. ASSUME NEW n \in Nat, n \in S PROVE n + 1 \in S
    <2> SUFFICES ASSUME n + 1 <= Len(s)
                 PROVE  \E f \in [1..(n + 1) -> Seq(T)] : Joins(s, f, n + 1)
      OBVIOUS
    <2>1. PICK f \in [1..n -> Seq(T)] : Joins(s, f, n)
      BY <1>2
    <2> DEFINE m == n + 1
               x == IF n = 0 THEN s[m] ELSE f[n] \o s[m]
               g == [i \in 1..m |-> IF i = m THEN x ELSE f[i]]
    <2>0. m \in Nat /\ m \in 1..m /\ m \in 1..Len(s) /\ n < m /\ 1..n \subseteq 1..m
          /\ \A i \in 1..m : i # m => i \in 1..n
      OBVIOUS
    <2>2. s[m] \in Seq(T) /\ (n # 0 => f[n] \in Seq(T))
      BY <2>0
    <2>3. x \in Seq(T)
      BY <2>2
    <2>7. n = 0 => m = 1
      OBVIOUS
    <2>8. /\ n = 0 => x = s[m]
          /\ n # 0 => x = f[n] \o s[m]
      OBVIOUS
    <2>9. m = n + 1
      OBVIOUS
    <2> HIDE DEF x, m
    <2>4. g \in [1..m -> Seq(T)] /\ \A i \in 1..n : g[i] = f[i]
      <3>1. \A i \in 1..n : i \in 1..m /\ i # m
        BY <2>9
      <3>2. \A i \in 1..m : i # m => f[i] \in Seq(T)
        BY <2>0, <2>1
      <3> QED BY <3>1, <3>2, <2>3
    <2>5. g[m] = x
      BY <2>0
    <2> HIDE DEF g
    <2>6. Joins(s, g, m)
      <3>1. CASE n = 0
        <4>1. m = 1 /\ g[1] = s[1]
          BY <3>1, <2>7, <2>8, <2>5
        <4>2. \A i \in Nat : ~(0 < i /\ i < 1)
          OBVIOUS
        <4> QED BY <4>1, <4>2 DEF Joins
      <3>2. CASE n # 0
        <4>1. g[1] = s[1]
          BY <3>2, <2>1, <2>4 DEF Joins
        <4>2. ASSUME NEW i \in Nat, 0 < i, i < m PROVE g[i + 1] = g[i] \o s[i + 1]
          <5>1. CASE i = n
            <6>1. n \in 1..n /\ i + 1 = m
              BY <5>1, <3>2, <2>9
            <6>2. g[i] = f[n]
              BY <5>1, <6>1, <2>4
            <6>3. g[i + 1] = f[n] \o s[m]
              BY <6>1, <3>2, <2>8, <2>5
            <6> QED BY <6>1, <6>2, <6>3
          <5>2. CASE i # n
            <6>1. i < n /\ i \in 1..n /\ i + 1 \in 1..n
              BY <4>2, <5>2, <2>9
            <6> QED BY <4>2, <6>1, <2>1, <2>4 DEF Joins
          <5> QED BY <5>1, <5>2
        <4> QED BY <3>2, <4>1, <4>2 DEF Joins
      <3> QED BY <3>1, <3>2
    <2> QED BY <2>9, <2>4, <2>6
  <1> HIDE DEF S
  <1>3. Len(s) \in S
    BY <1>1, <1>2, SetInduction, SMTT(30)
  <1> QED BY <1>3 DEF S

LEMMA JoinedDef ==
  ASSUME NEW T, NEW s \in Seq(Seq(T))
  PROVE  Joined(s) \in [1..Len(s) -> Seq(T)] /\ Joins(s, Joined(s), Len(s))
  <1> DEFINE J(f) == [i \in 1..Len(s) |-> IF i = 1 THEN s[i] ELSE f[i - 1] \o s[i]]
  <1>1. \E f : f = J(f)
    <2>1. PICK f \in [1..Len(s) -> Seq(T)] : Joins(s, f, Len(s))
      BY JoinedExists
    <2>2. \A i \in 1..Len(s) : f[i] = IF i = 1 THEN s[i] ELSE f[i - 1] \o s[i]
      <3> SUFFICES ASSUME NEW i \in 1..Len(s)
                   PROVE  f[i] = IF i = 1 THEN s[i] ELSE f[i - 1] \o s[i]
        OBVIOUS
      <3>0. Len(s) > 0
        OBVIOUS
      <3> SUFFICES ASSUME i # 1 PROVE f[i] = f[i - 1] \o s[i]
        BY <3>0, <2>1 DEF Joins
      <3>1. i - 1 \in Nat /\ 0 < i - 1 /\ i - 1 < Len(s) /\ (i - 1) + 1 = i
        OBVIOUS
      <3> QED BY <3>1, <2>1 DEF Joins
    <2>3. f = J(f)
      BY <2>1, <2>2
    <2> QED BY <2>3
  <1>2. Joined(s) = J(Joined(s))
    BY <1>1 DEF Joined
  <1>3. Joins(s, Joined(s), Len(s)) /\ DOMAIN Joined(s) = 1..Len(s)
    <2>1. \A i \in 1..Len(s) : Joined(s)[i] = IF i = 1 THEN s[i] ELSE Joined(s)[i - 1] \o s[i]
      BY <1>2
    <2>2. ASSUME NEW i \in Nat, 0 < i, i < Len(s) PROVE Joined(s)[i + 1] = Joined(s)[i] \o s[i + 1]
      <3>1. i + 1 \in 1..Len(s) /\ i + 1 # 1 /\ (i + 1) - 1 = i
        BY <2>2
      <3> QED BY <3>1, <2>1
    <2>3. DOMAIN Joined(s) = 1..Len(s)
      BY <1>2
    <2>4. Len(s) > 0 => Joined(s)[1] = s[1]
      BY <2>1
    <2> QED BY <2>2, <2>3, <2>4 DEF Joins
  <1> DEFINE S == {n \in Nat : n \in 1..Len(s) => Joined(s)[n] \in Seq(T)}
  <1>4. 0 \in S
    OBVIOUS
  <1>5. ASSUME NEW n \in Nat, n \in S PROVE n + 1 \in S
    <2> SUFFICES ASSUME n + 1 <= Len(s) PROVE Joined(s)[n + 1] \in Seq(T)
      OBVIOUS
    <2>1. s[n + 1] \in Seq(T) /\ n + 1 \in 1..Len(s)
      OBVIOUS
    <2>2. CASE n = 0
      <3>1. n + 1 = 1 /\ Len(s) > 0
        BY <2>1, <2>2
      <3> QED BY <2>1, <3>1, <1>3 DEF Joins
    <2>3. CASE n # 0
      <3>1. Joined(s)[n] \in Seq(T)
        BY <1>5, <2>3
      <3>3. 0 < n /\ n < Len(s)
        BY <2>1, <2>3
      <3>2. Joined(s)[n + 1] = Joined(s)[n] \o s[n + 1]
        BY <3>3, <1>3 DEF Joins
      <3> QED BY <2>1, <3>1, <3>2
    <2> QED BY <2>2, <2>3
  <1> HIDE DEF S
  <1>6. \A n \in Nat : n \in S
    BY <1>4, <1>5, SetInduction
  <1>7. \A n \in 1..Len(s) : Joined(s)[n] \in Seq(T)
    BY <1>6 DEF S
  <1> QED BY <1>2, <1>3, <1>7

LEMMA FlattenIsJoined ==
  ASSUME NEW s
  PROVE  FlattenSeq(s) = IF Len(s) = 0 THEN s ELSE Joined(s)[Len(s)]
  BY DEF FlattenSeq, Joined

LEMMA FlattenCons ==
  ASSUME NEW T, NEW a \in Seq(T), NEW s \in Seq(Seq(T))
  PROVE  /\ FlattenSeq(<<>>) = <<>>
         /\ FlattenSeq(<<a>> \o s) = a \o FlattenSeq(s)
         /\ FlattenSeq(s) \in Seq(T)
  <1> DEFINE t == <<a>> \o s
  <1>1. /\ t \in Seq(Seq(T)) /\ Len(t) = Len(s) + 1 /\ t[1] = a
        /\ \A i \in 1..Len(s) : t[i + 1] = s[i]
    OBVIOUS
  <1> HIDE DEF t
  <1>2. /\ Joins(t, Joined(t), Len(t)) /\ Joins(s, Joined(s), Len(s))
        /\ Joined(t) \in [1..Len(t) -> Seq(T)] /\ Joined(s) \in [1..Len(s) -> Seq(T)]
    BY <1>1, JoinedDef
  <1> DEFINE S == {n \in Nat : n \in 1..Len(s) => Joined(t)[n + 1] = a \o Joined(s)[n]}
  <1>3. 0 \in S
    OBVIOUS
  <1>4. ASSUME NEW n \in Nat, n \in S PROVE n + 1 \in S
    <2> SUFFICES ASSUME n + 1 <= Len(s) PROVE Joined(t)[(n + 1) + 1] = a \o Joined(s)[n + 1]
      OBVIOUS
    <2>0. n + 1 \in Nat /\ 0 < n + 1 /\ n + 1 < Len(t)
      BY <1>1
    <2>1. Joined(t)[(n + 1) + 1] = Joined(t)[n + 1] \o t[(n + 1) + 1]
      BY <2>0, <1>2 DEF Joins
    <2>2. t[(n + 1) + 1] = s[n + 1] /\ s[n + 1] \in Seq(T)
      <3>1. n + 1 \in 1..Len(s)
        OBVIOUS
      <3> QED BY <3>1, <1>1
    <2>3. CASE n = 0
      <3>1. Joined(t)[1] = a
        BY <1>1, <1>2 DEF Joins
      <3>2. Joined(s)[1] = s[1]
        BY <1>2, <2>3 DEF Joins
      <3>3. n + 1 = 1 /\ t[(n + 1) + 1] = s[1]
        BY <2>2, <2>3
      <3>4. Joined(t)[(n + 1) + 1] = a \o s[1]
        BY <2>1, <3>1, <3>3
      <3> QED BY <3>2, <3>3, <3>4
    <2>4. CASE n # 0
      <3>0. n \in 1..Len(s) /\ 0 < n /\ n < Len(s)
        BY <2>4
      <3>1. Joined(t)[n + 1] = a \o Joined(s)[n]
        BY <1>4, <3>0
      <3>2. Joined(s)[n + 1] = Joined(s)[n] \o s[n + 1]
        BY <1>2, <3>0 DEF Joins
      <3>3. Joined(s)[n] \in Seq(T)
        BY <1>2, <3>0
      <3>4. Joined(t)[(n + 1) + 1] = (a \o Joined(s)[n]) \o s[n + 1]
        BY <2>1, <2>2, <3>1
      <3> HIDE DEF S
      <3>5. ASSUME NEW x \in Seq(T), NEW y \in Seq(T)
            PROVE  (a \o x) \o y = a \o (x \o y)
        BY SMTT(30), ConcatAssociative
      <3>6. (a \o Joined(s)[n]) \o s[n + 1] = a \o (Joined(s)[n] \o s[n + 1])
        BY <2>2, <3>3, <3>5
      <3> QED BY <3>2, <3>4, <3>6
    <2> QED BY <2>3, <2>4
  <1> HIDE DEF S
  <1>5. \A n \in Nat : n \in S
    BY <1>3, <1>4, SetInduction
  <1>6. \A n \in 1..Len(s) : Joined(t)[n + 1] = a \o Joined(s)[n]
    BY <1>5 DEF S
  <1>7. FlattenSeq(<<>>) = <<>>
    BY FlattenIsJoined
  <1>8. FlattenSeq(t) = Joined(t)[Len(s) + 1]
    BY <1>1, FlattenIsJoined
  <1>9. CASE Len(s) = 0
    <2>1. s = <<>> /\ FlattenSeq(s) = <<>>
      BY <1>7, <1>9
    <2>2. Joined(t)[1] = a
      BY <1>1, <1>2 DEF Joins
    <2>3. FlattenSeq(t) = a /\ a \o <<>> = a /\ <<>> \in Seq(T)
      BY <1>8, <1>9, <2>2
    <2> QED BY <1>7, <2>1, <2>3 DEF t
  <1>10. CASE Len(s) # 0
    <2>1. FlattenSeq(s) = Joined(s)[Len(s)] /\ Len(s) \in 1..Len(s)
      BY <1>10, FlattenIsJoined
    <2> QED BY <1>2, <1>6, <1>7, <1>8, <2>1 DEF t
  <1> QED BY <1>9, <1>10

LEMMA FlattenEmpty == FlattenSeq(<<>>) = <<>>
  BY FlattenIsJoined

-----------------------------------------------------------------------------
(***************************************************************************)
(* A string spelt out.                                                     *)
(***************************************************************************)
\* A token spelt out.
Word(t) == IF t \in Macro THEN Expansion(t, dims) ELSE <<t>>

LEMMA WordType ==
  ASSUME dims \in Dims, NEW t \in Token
  PROVE  Word(t) \in Seq(Plain)
  <1>1. CASE t \in Macro
    BY <1>1, ExpansionType DEF Word
  <1>2. CASE t \notin Macro
    <2>1. t \in Plain
      BY <1>2 DEF Plain
    <2> QED BY <1>2, <2>1, TupleType DEF Word
  <1> QED BY <1>1, <1>2

\* The first token is spelt out first.
LEMMA SpeltStep ==
  ASSUME dims \in Dims, NEW ts \in Seq(Token)
  PROVE  /\ Spelt(ts) \in Seq(Plain)
         /\ ts = <<>> => Spelt(ts) = <<>>
         /\ ts # <<>> => Spelt(ts) = Word(Head(ts)) \o Spelt(Tail(ts))
  <1> DEFINE Words(us) == [i \in 1..Len(us) |-> Word(us[i])]
  <1>1. \A us \in Seq(Token) : Words(us) \in Seq(Seq(Plain))
    <2> SUFFICES ASSUME NEW us \in Seq(Token) PROVE Words(us) \in Seq(Seq(Plain))
      OBVIOUS
    <2>1. \A i \in 1..Len(us) : Word(us[i]) \in Seq(Plain)
      BY WordType
    <2> QED BY <2>1
  <1>2. \A us : Spelt(us) = FlattenSeq(Words(us))
    BY DEF Spelt, Word
  <1> HIDE DEF Words
  <1>3. Spelt(ts) \in Seq(Plain)
    BY <1>1, <1>2, FlattenCons, EmptyType
  <1>4. ASSUME ts = <<>> PROVE Spelt(ts) = <<>>
    <2>1. Words(ts) = <<>>
      BY <1>4 DEF Words
    <2> QED BY <1>2, <2>1, FlattenEmpty
  <1>5. ASSUME ts # <<>> PROVE Spelt(ts) = Word(Head(ts)) \o Spelt(Tail(ts))
    <2>1. /\ Tail(ts) \in Seq(Token) /\ Head(ts) \in Token
          /\ Len(Tail(ts)) = Len(ts) - 1 /\ Head(ts) = ts[1]
          /\ \A i \in 1..Len(Tail(ts)) : Tail(ts)[i] = ts[i + 1]
      BY <1>5
    <2>2. Word(Head(ts)) \in Seq(Plain)
      BY <2>1, WordType
    <2>3. Words(ts) = <<Word(Head(ts))>> \o Words(Tail(ts))
      <3> DEFINE w == Word(Head(ts))
                 us == Words(Tail(ts))
      <3>1. us \in Seq(Seq(Plain)) /\ Len(us) = Len(ts) - 1
        BY <1>1, <2>1 DEF Words
      <3>2. \A i \in 1..Len(us) : us[i] = Word(ts[i + 1])
        BY <2>1 DEF Words
      <3>3. Words(ts) \in Seq(Seq(Plain)) /\ Len(Words(ts)) = Len(ts)
        BY <1>1 DEF Words
      <3>4. \A i \in 1..Len(ts) : Words(ts)[i] = Word(ts[i])
        BY DEF Words
      <3>5. w = Word(ts[1]) /\ w \in Seq(Plain)
        BY <2>1, <2>2
      <3> HIDE DEF w, us
      <3>6. /\ <<w>> \o us \in Seq(Seq(Plain)) /\ Len(<<w>> \o us) = Len(ts)
            /\ \A i \in 1..Len(ts) : (<<w>> \o us)[i] = IF i = 1 THEN w ELSE us[i - 1]
        BY <3>1, <3>5, <1>5
      <3>7. \A i \in 1..Len(ts) : Words(ts)[i] = (<<w>> \o us)[i]
        <4> SUFFICES ASSUME NEW i \in 1..Len(ts) PROVE Words(ts)[i] = (<<w>> \o us)[i]
          OBVIOUS
        <4>1. CASE i = 1
          BY <4>1, <3>4, <3>5, <3>6
        <4>2. CASE i # 1
          <5>1. i - 1 \in 1..Len(us) /\ (i - 1) + 1 = i
            BY <4>2, <3>1
          <5>2. us[i - 1] = Word(ts[i])
            BY <5>1, <3>2
          <5> QED BY <4>2, <5>2, <3>4, <3>6
        <4> QED BY <4>1, <4>2
      <3>8. Words(ts) = <<w>> \o us
        <4>1. \A x, y \in Seq(Seq(Plain)) :
                  Len(x) = Len(y) /\ (\A i \in 1..Len(x) : x[i] = y[i]) => x = y
          BY SeqEqual
        <4> QED BY <3>3, <3>6, <3>7, <4>1, Zenon
      <3> QED BY <3>8 DEF w, us
    <2>4. Words(Tail(ts)) \in Seq(Seq(Plain))
      BY <1>1, <2>1
    <2>5. FlattenSeq(<<Word(Head(ts))>> \o Words(Tail(ts)))
              = Word(Head(ts)) \o FlattenSeq(Words(Tail(ts)))
      BY <2>2, <2>4, FlattenCons
    <2> QED BY <1>2, <2>3, <2>5
  <1> QED BY <1>3, <1>4, <1>5

\* What has no abbreviation is spelt as it is.
LEMMA SpeltPlain ==
  ASSUME dims \in Dims, NEW ts \in Seq(Plain), NEW us \in Seq(Token)
  PROVE  Spelt(ts \o us) = ts \o Spelt(us)
  <1>0. Plain \subseteq Token /\ Seq(Plain) \subseteq Seq(Token)
    BY DEF Plain
  <1> DEFINE S == {n \in Nat : \A vs \in Seq(Plain) :
                       Len(vs) = n => Spelt(vs \o us) = vs \o Spelt(us)}
  <1>1. 0 \in S
    <2> SUFFICES ASSUME NEW vs \in Seq(Plain), Len(vs) = 0
                 PROVE  Spelt(vs \o us) = vs \o Spelt(us)
      OBVIOUS
    <2>1. vs = <<>> /\ Spelt(us) \in Seq(Plain)
      BY SpeltStep
    <2> QED BY <2>1
  <1>2. ASSUME NEW n \in Nat, n \in S PROVE n + 1 \in S
    <2> SUFFICES ASSUME NEW vs \in Seq(Plain), Len(vs) = n + 1
                 PROVE  Spelt(vs \o us) = vs \o Spelt(us)
      OBVIOUS
    <2>1. /\ vs # <<>> /\ Head(vs) \in Plain /\ Tail(vs) \in Seq(Plain)
          /\ Len(Tail(vs)) = n /\ vs = <<Head(vs)>> \o Tail(vs)
      OBVIOUS
    <2>2. Spelt(Tail(vs) \o us) = Tail(vs) \o Spelt(us)
      BY <1>2, <2>1
    <2>3. vs \in Seq(Token) /\ vs \o us \in Seq(Token) /\ vs \o us # <<>>
          /\ Head(vs \o us) = Head(vs) /\ Tail(vs \o us) = Tail(vs) \o us
      <3>1. vs \in Seq(Token)
        BY <1>0
      <3> QED BY <2>1, <3>1
    <2>4. Spelt(vs \o us) = <<Head(vs)>> \o (Tail(vs) \o Spelt(us))
      BY <2>1, <2>2, <2>3, SpeltStep DEF Word, Plain
    <2>5. Spelt(us) \in Seq(Plain)
      BY SpeltStep
    <2>6. <<Head(vs)>> \in Seq(Plain)
      BY <2>1
    <2>7. <<Head(vs)>> \o (Tail(vs) \o Spelt(us)) = (<<Head(vs)>> \o Tail(vs)) \o Spelt(us)
      BY <2>1, <2>5, <2>6, ConcatAssociative
    <2> QED BY <2>1, <2>4, <2>7
  <1> HIDE DEF S
  <1>3. Len(ts) \in S
    BY <1>1, <1>2, SetInduction
  <1> QED BY <1>3 DEF S

\* The scanner's substitution does not change what the string spells.
LEMMA SpeltSubstitute ==
  ASSUME dims \in Dims, NEW ts \in Seq(Token)
  PROVE  Spelt(Substitute(ts, dims)) = Spelt(ts)
  <1>1. CASE Current(ts) \in Macro
    <2>1. ts # <<>> /\ Head(ts) \in Macro
      BY <1>1 DEF Current, Macro
    <2>2. Tail(ts) \in Seq(Token)
      BY <2>1
    <2>3. Substitute(ts, dims) = Expansion(Head(ts), dims) \o Tail(ts)
      BY <1>1 DEF Substitute
    <2>4. Expansion(Head(ts), dims) \in Seq(Plain)
      BY <2>1, ExpansionType
    <2>5. Spelt(ts) = Expansion(Head(ts), dims) \o Spelt(Tail(ts))
      BY <2>1, SpeltStep DEF Word
    <2> QED BY <2>2, <2>3, <2>4, <2>5, SpeltPlain
  <1>2. CASE Current(ts) \notin Macro
    BY <1>2 DEF Substitute
  <1> QED BY <1>1, <1>2

\* A token that is no abbreviation, spelt out.
LEMMA SpeltFirst ==
  ASSUME dims \in Dims, NEW ts \in Seq(Token), ts # <<>>
  PROVE  /\ Tail(ts) \in Seq(Token) /\ Head(ts) \in Token
         /\ Head(ts) \notin Macro => Spelt(ts) = <<Head(ts)>> \o Spelt(Tail(ts))
         /\ Spelt(ts) # <<>>
         /\ \/ Spelt(ts)[1] = Head(ts)
            \/ Head(ts) \in Macro /\ Spelt(ts)[1] \in {"S", "O"}
  <1>1. Tail(ts) \in Seq(Token) /\ Head(ts) \in Token
    OBVIOUS
  <1>2. Spelt(ts) = Word(Head(ts)) \o Spelt(Tail(ts)) /\ Spelt(Tail(ts)) \in Seq(Plain)
        /\ Word(Head(ts)) \in Seq(Plain)
    BY <1>1, SpeltStep, WordType
  <1>3. \A a, b \in Seq(Plain) : a # <<>> => a \o b # <<>> /\ (a \o b)[1] = Head(a)
    OBVIOUS
  <1>4. CASE Head(ts) \in Macro
    <2>1. Word(Head(ts)) # <<>> /\ Head(Word(Head(ts))) \in {"S", "O"}
      BY <1>4, ExpansionType DEF Word
    <2> QED BY <1>1, <1>2, <1>3, <1>4, <2>1
  <1>5. CASE Head(ts) \notin Macro
    <2>1. Word(Head(ts)) = <<Head(ts)>>
      BY <1>5 DEF Word
    <2>2. Word(Head(ts)) # <<>> /\ Head(Word(Head(ts))) = Head(ts)
      BY <2>1
    <2>3. Spelt(ts) # <<>> /\ Spelt(ts)[1] = Head(ts)
      BY <1>2, <1>3, <2>2
    <2>4. Spelt(ts) = <<Head(ts)>> \o Spelt(Tail(ts))
      BY <1>2, <2>1, Zenon
    <2> QED BY <1>1, <1>5, <2>3, <2>4, Zenon
  <1> QED BY <1>4, <1>5

(***************************************************************************)
(* What a turn of the parser reads.                                        *)
(***************************************************************************)
\* The tokens of a step, spelt out.
Consumed(left, right) ==
    (IF left = Terminator THEN <<>> ELSE <<left>>) \o
    (IF right = NoStandard THEN <<>>
     ELSE IF right = Terminator THEN <<"-">>
     ELSE <<"-">> \o <<right>>)

LEMMA NotStandard ==
  /\ Terminator \notin Standard /\ NoStandard \notin Standard /\ Terminator # NoStandard
  /\ "-" \notin Standard /\ "," \notin Standard /\ "end" \notin Standard
  /\ Macro \cap Standard = {} /\ "-" \notin Name /\ "end" \notin Name /\ "," \notin Name
  /\ "S" \in Standard /\ "O" \in Standard /\ Standard \subseteq Plain /\ "-" \in Plain
  BY IdentifierAssumption
  DEF Standard, Builtin, OnePort, Terminator, NoStandard, Macro, Name, Plain, Token

\* A name at the head of a string, and a dash, once substituted.
LEMMA SubstituteFirst ==
  ASSUME dims \in Dims, NEW ts \in Seq(Token)
  PROVE  LET at == Substitute(ts, dims) IN
         /\ at \in Seq(Token)
         /\ Current(at) \notin Macro
         /\ Current(ts) \in Name <=> Current(at) \in Name
         /\ Current(ts) \notin Name => at = ts
         /\ Current(at) \in Name => at # <<>> /\ Head(at) \in Standard
         /\ Spelt(at) = Spelt(ts)
  <1> DEFINE at == Substitute(ts, dims)
  <1>1. at \in Seq(Token) /\ Spelt(at) = Spelt(ts)
    BY SubstituteType, SpeltSubstitute
  <1>2. Current(at) \in Name => at # <<>> /\ Head(at) \in Standard
    BY SubstituteType
  <1>3. Current(ts) \in Name => Current(at) \in Name
    <2>1. Current(ts) \in Name => at # <<>> /\ Head(at) \in Standard
      BY SubstituteType
    <2> HIDE DEF at
    <2> QED BY <2>1 DEF Current, Name
  <1>4. Current(ts) \notin Name => at = ts
    BY DEF Substitute, Name
  <1> HIDE DEF at
  <1>5. Current(at) \notin Macro
    BY <1>2, NotStandard DEF Current, Name
  <1> QED BY <1>1, <1>2, <1>3, <1>4, <1>5 DEF at

\* A step is spelt as its tokens, and what remains does not continue it.
LEMMA ScanStepReads ==
  ASSUME dims \in Dims, NEW ts \in Seq(Token)
  PROVE  LET r == ScanStep(ts, dims) IN
         /\ Consumed(r.left, r.right) \in Seq(Plain)
         /\ Spelt(ts) = Consumed(r.left, r.right) \o Spelt(r.rest)
         /\ r.right = NoStandard => Current(r.rest) # "-"
         /\ r.right = NoStandard /\ r.left = Terminator => Current(r.rest) \notin Name
         /\ r.right = Terminator => Current(r.rest) \notin Name
  <1> DEFINE named == Current(ts) \in Name
             at    == IF named THEN Substitute(ts, dims) ELSE ts
             left  == IF named THEN Head(at) ELSE Terminator
             after == IF named THEN Tail(at) ELSE at
             dash  == Current(after) = "-"
             next  == IF dash THEN Substitute(Tail(after), dims) ELSE after
             right == IF ~dash THEN NoStandard
                      ELSE IF Current(next) \in Name THEN Head(next)
                      ELSE Terminator
             rest  == IF right \in Standard THEN Tail(next) ELSE next
             one   == IF left = Terminator THEN <<>> ELSE <<left>>
             two   == IF right = NoStandard THEN <<>>
                      ELSE IF right = Terminator THEN <<"-">> ELSE <<"-">> \o <<right>>
  <1>1. ScanStep(ts, dims) = [left |-> left, right |-> right, rest |-> rest]
    BY DEF ScanStep
  <1>2. Consumed(left, right) = one \o two
    BY DEF Consumed
  <1>3. /\ one \in Seq(Plain) /\ after \in Seq(Token)
        /\ Spelt(ts) = one \o Spelt(after)
        /\ left = Terminator => ~named /\ after = ts
    <2>1. CASE named
      <3>1. /\ at \in Seq(Token) /\ at # <<>> /\ Head(at) \in Standard
            /\ Spelt(at) = Spelt(ts)
        BY <2>1, SubstituteFirst
      <3>2. left = Head(at) /\ after = Tail(at)
        BY <2>1
      <3> HIDE DEF at, left, after
      <3>3. one = <<Head(at)>> /\ Head(at) \notin Macro
        BY <3>1, <3>2, NotStandard
      <3>4. <<Head(at)>> \in Seq(Plain)
        <4>1. Head(at) \in Plain
          BY <3>1, NotStandard
        <4> QED BY <4>1, TupleType
      <3>5. Spelt(at) = <<Head(at)>> \o Spelt(Tail(at)) /\ Tail(at) \in Seq(Token)
        BY <3>1, <3>3, SpeltFirst
      <3> HIDE DEF one
      <3>6. left # Terminator
        BY <3>1, <3>2, NotStandard
      <3> QED BY <3>1, <3>2, <3>3, <3>4, <3>5, <3>6
    <2>2. CASE ~named
      <3>1. one = <<>> /\ after = ts
        BY <2>2
      <3>2. Spelt(ts) \in Seq(Plain)
        BY SpeltStep
      <3> HIDE DEF one, after
      <3>3. <<>> \o Spelt(ts) = Spelt(ts) /\ <<>> \in Seq(Plain)
        BY <3>2
      <3> QED BY <2>2, <3>1, <3>3
    <2> QED BY <2>1, <2>2
  <1> HIDE DEF one, after, left
  <1>4. /\ two \in Seq(Plain) /\ rest \in Seq(Token)
        /\ Spelt(after) = two \o Spelt(rest)
        /\ right = NoStandard => ~dash /\ rest = after
        /\ right = Terminator => Current(rest) \notin Name
    <2>1. CASE ~dash
      <3>1. right = NoStandard /\ next = after
        BY <2>1
      <3> HIDE DEF right, next
      <3>2. two = <<>> /\ rest = after
        BY <3>1, NotStandard
      <3>3. Spelt(after) \in Seq(Plain)
        BY <1>3, SpeltStep
      <3> HIDE DEF two, rest
      <3>4. <<>> \o Spelt(after) = Spelt(after) /\ <<>> \in Seq(Plain)
        BY <3>3
      <3> QED BY <1>3, <2>1, <3>1, <3>2, <3>4, NotStandard
    <2>2. CASE dash
      <3>1. after # <<>> /\ Head(after) = "-"
        BY <2>2 DEF Current
      <3>2. Tail(after) \in Seq(Token) /\ Spelt(after) = <<"-">> \o Spelt(Tail(after))
        BY <1>3, <3>1, SpeltFirst DEF Macro
      <3>3. next = Substitute(Tail(after), dims)
        BY <2>2
      <3>4. /\ next \in Seq(Token) /\ Spelt(next) = Spelt(Tail(after))
            /\ Current(next) \in Name => next # <<>> /\ Head(next) \in Standard
        BY <3>2, <3>3, SubstituteFirst
      <3>5. <<"-">> \in Seq(Plain)
        <4>1. "-" \in Plain
          BY NotStandard
        <4> QED BY <4>1, TupleType
      <3> HIDE DEF next
      <3>6. CASE Current(next) \in Name
        <4>1. right = Head(next)
          BY <2>2, <3>6
        <4> HIDE DEF right, dash
        <4>2. right \in Standard /\ right # NoStandard /\ right # Terminator
              /\ right \notin Macro
          BY <3>4, <3>6, <4>1, NotStandard
        <4>3. two = <<"-">> \o <<right>> /\ rest = Tail(next)
          BY <4>2
        <4>4. Tail(next) \in Seq(Token) /\ Spelt(next) = <<right>> \o Spelt(Tail(next))
          BY <3>4, <3>6, <4>1, <4>2, SpeltFirst
        <4>5. Spelt(Tail(next)) \in Seq(Plain)
          BY <4>4, SpeltStep
        <4>6. <<right>> \in Seq(Plain)
          <5>1. right \in Plain
            BY <4>2, NotStandard
          <5> QED BY <5>1, TupleType
        <4> HIDE DEF two, rest
        <4>7. <<"-">> \o <<right>> \in Seq(Plain)
          BY <3>5, <4>6, ConcatProperties
        <4>8. <<"-">> \o (<<right>> \o Spelt(Tail(next)))
                  = (<<"-">> \o <<right>>) \o Spelt(Tail(next))
          BY <3>5, <4>5, <4>6, ConcatAssociative
        <4> QED BY <3>2, <3>4, <4>2, <4>3, <4>4, <4>7, <4>8
      <3>7. CASE Current(next) \notin Name
        <4>1. right = Terminator
          BY <2>2, <3>7
        <4> HIDE DEF right, dash
        <4>2. two = <<"-">> /\ rest = next /\ right # NoStandard
          BY <4>1, NotStandard
        <4> HIDE DEF two, rest
        <4> QED BY <3>2, <3>4, <3>5, <3>7, <4>2
      <3> QED BY <3>6, <3>7
    <2> QED BY <2>1, <2>2
  <1>5. Spelt(ts) = (one \o two) \o Spelt(rest) /\ one \o two \in Seq(Plain)
    <2> HIDE DEF two, rest
    <2>1. Spelt(rest) \in Seq(Plain)
      BY <1>4, SpeltStep
    <2>2. one \o (two \o Spelt(rest)) = (one \o two) \o Spelt(rest)
      <3>1. \A a, b, c \in Seq(Plain) : a \o (b \o c) = (a \o b) \o c
        BY SMTT(30), ConcatAssociative
      <3> QED BY <1>3, <1>4, <2>1, <3>1
    <2>3. one \o two \in Seq(Plain)
      BY <1>3, <1>4, ConcatProperties
    <2> QED BY <1>3, <1>4, <2>2, <2>3
  <1>6. right = NoStandard => Current(rest) # "-"
    BY <1>4
  <1>7. right = NoStandard /\ left = Terminator => Current(rest) \notin Name
    BY <1>3, <1>4
  <1> HIDE DEF two, rest, right
  <1> DEFINE r == ScanStep(ts, dims)
  <1>8. r.left = left /\ r.right = right /\ r.rest = rest
    BY <1>1
  <1>9. Spelt(ts) = Consumed(left, right) \o Spelt(rest) /\ Consumed(left, right) \in Seq(Plain)
    BY <1>2, <1>5
  <1> HIDE DEF r
  <1> SUFFICES /\ Consumed(r.left, r.right) \in Seq(Plain)
               /\ Spelt(ts) = Consumed(r.left, r.right) \o Spelt(r.rest)
               /\ r.right = NoStandard => Current(r.rest) # "-"
               /\ r.right = NoStandard /\ r.left = Terminator => Current(r.rest) \notin Name
               /\ r.right = Terminator => Current(r.rest) \notin Name
    BY DEF r
  <1> QED BY <1>4, <1>6, <1>7, <1>8, <1>9

(***************************************************************************)
(* The pieces of a string.                                                 *)
(***************************************************************************)
\* A piece that begins at b ends at e.
EndsAt(ts, b, e) ==
    /\ e \in (b - 1)..Len(ts)
    /\ e = Len(ts) \/ CommaAt(ts, e + 1)
    /\ \A j \in b..e : ~CommaAt(ts, j)

LEMMA PieceEnds ==
  ASSUME NEW T, NEW ts \in Seq(T), NEW b \in Nat, 1 <= b, b <= Len(ts) + 1
  PROVE  \E e : EndsAt(ts, b, e)
  <1> SUFFICES ASSUME \A e : ~EndsAt(ts, b, e) PROVE FALSE
    OBVIOUS
  <1> DEFINE S == {m \in Nat : (b - 1) + m <= Len(ts) =>
                       \A j \in b..((b - 1) + m) : ~CommaAt(ts, j)}
  <1>1. 0 \in S
    OBVIOUS
  <1>2. ASSUME NEW m \in Nat, m \in S PROVE m + 1 \in S
    <2> SUFFICES ASSUME (b - 1) + (m + 1) <= Len(ts)
                 PROVE  \A j \in b..((b - 1) + (m + 1)) : ~CommaAt(ts, j)
      OBVIOUS
    <2> DEFINE e == (b - 1) + m
    <2>1. e \in (b - 1)..Len(ts) /\ e # Len(ts) /\ e + 1 = (b - 1) + (m + 1)
      OBVIOUS
    <2>2. \A j \in b..e : ~CommaAt(ts, j)
      BY <1>2, <2>1
    <2>3. ~CommaAt(ts, e + 1)
      BY <2>1, <2>2 DEF EndsAt
    <2>4. \A j \in b..((b - 1) + (m + 1)) : j \in b..e \/ j = e + 1
      OBVIOUS
    <2> QED BY <2>2, <2>3, <2>4
  <1> HIDE DEF S
  <1>3. (Len(ts) + 1) - b \in Nat /\ (b - 1) + ((Len(ts) + 1) - b) = Len(ts)
    OBVIOUS
  <1>4. (Len(ts) + 1) - b \in S
    BY <1>1, <1>2, <1>3, SetInduction
  <1>5. \A j \in b..Len(ts) : ~CommaAt(ts, j)
    BY <1>3, <1>4 DEF S
  <1> QED BY <1>5 DEF EndsAt

LEMMA PieceIs ==
  ASSUME NEW T, NEW ts \in Seq(T), NEW b \in Nat, NEW e, EndsAt(ts, b, e)
  PROVE  Piece(ts, b) = SubSeq(ts, b, e)
  <1>1. \A x, y : EndsAt(ts, b, x) /\ EndsAt(ts, b, y) => ~(x < y)
    <2> SUFFICES ASSUME NEW x, NEW y, EndsAt(ts, b, x), EndsAt(ts, b, y), x < y
                 PROVE  FALSE
      OBVIOUS
    <2>1. x \in Int /\ y \in Int /\ x + 1 \in b..y /\ x # Len(ts)
      BY DEF EndsAt
    <2> QED BY <2>1 DEF EndsAt
  <1>2. \A x, y : EndsAt(ts, b, x) /\ EndsAt(ts, b, y) => x = y
    <2> SUFFICES ASSUME NEW x, NEW y, EndsAt(ts, b, x), EndsAt(ts, b, y) PROVE x = y
      OBVIOUS
    <2>1. x \in Int /\ y \in Int
      BY DEF EndsAt
    <2>2. ~(x < y) /\ ~(y < x)
      BY <1>1
    <2> QED BY <2>1, <2>2
  <1> DEFINE Stop == CHOOSE x \in (b - 1)..Len(ts) :
                         /\ x = Len(ts) \/ CommaAt(ts, x + 1)
                         /\ \A j \in b..x : ~CommaAt(ts, j)
  <1>3. EndsAt(ts, b, Stop)
    BY DEF EndsAt
  <1>4. Piece(ts, b) = SubSeq(ts, b, Stop)
    BY DEF Piece
  <1> HIDE DEF Stop
  <1> QED BY <1>2, <1>3, <1>4

\* The rest of ts from n + 1 on is us.
From(ts, n, us) ==
    /\ Len(ts) = n + Len(us)
    /\ \A i \in 1..Len(us) : ts[n + i] = us[i]

\* Where the commas of the rest are.
LEMMA FromComma ==
  ASSUME NEW T, NEW ts \in Seq(T), NEW n \in Nat, NEW us \in Seq(T), From(ts, n, us),
         NEW i \in Nat, 1 <= i
  PROVE  CommaAt(ts, n + i) <=> CommaAt(us, i)
  <1>1. n + i \in 1..Len(ts) <=> i \in 1..Len(us)
    BY DEF From
  <1>2. i \in 1..Len(us) => ts[n + i] = us[i]
    BY DEF From
  <1> QED BY <1>1, <1>2, Zenon DEF CommaAt

LEMMA ConcatComma ==
  ASSUME NEW T, NEW c \in Seq(T), NEW us \in Seq(T), NEW i \in Nat, 1 <= i
  PROVE  /\ i <= Len(c) => (CommaAt(c \o us, i) <=> CommaAt(c, i))
         /\ CommaAt(c \o us, Len(c) + i) <=> CommaAt(us, i)
  <1>1. i <= Len(c) => /\ i \in 1..Len(c) /\ i \in 1..Len(c \o us)
                       /\ (c \o us)[i] = c[i]
    OBVIOUS
  <1>2. Len(c) + i \in 1..Len(c \o us) <=> i \in 1..Len(us)
    OBVIOUS
  <1>3. i \in 1..Len(us) => (c \o us)[Len(c) + i] = us[i]
    OBVIOUS
  <1>4. i <= Len(c) => (CommaAt(c \o us, i) <=> CommaAt(c, i))
    BY <1>1, Zenon DEF CommaAt
  <1>5. CommaAt(c \o us, Len(c) + i) <=> CommaAt(us, i)
    BY <1>2, <1>3, Zenon DEF CommaAt
  <1> QED BY <1>4, <1>5

\* A piece at n + 1 without commas, which the string or a comma ends.
LEMMA PieceRead ==
  ASSUME NEW T, NEW ts \in Seq(T), NEW n \in Nat, NEW c \in Seq(T), NEW us \in Seq(T),
         From(ts, n, c \o us), \A i \in 1..Len(c) : ~CommaAt(c, i),
         us # <<>> => CommaAt(us, 1)
  PROVE  Piece(ts, n + 1) = c
  <1> DEFINE e == n + Len(c)
  <1>1. /\ c \o us \in Seq(T) /\ Len(c \o us) = Len(c) + Len(us)
        /\ \A i \in 1..Len(c) : (c \o us)[i] = c[i] /\ i \in 1..Len(c \o us)
    OBVIOUS
  <1>2. Len(ts) = e + Len(us) /\ e \in Nat
    BY <1>1 DEF From
  <1>3. \A i \in 1..Len(c) : ts[n + i] = c[i]
    BY <1>1 DEF From
  <1>4. us # <<>> => CommaAt(ts, e + 1)
    <2>1. CommaAt(c \o us, Len(c) + 1) <=> CommaAt(us, 1)
      BY ConcatComma
    <2>2. CommaAt(ts, n + (Len(c) + 1)) <=> CommaAt(c \o us, Len(c) + 1)
      <3>1. Len(c) + 1 \in Nat /\ 1 <= Len(c) + 1
        OBVIOUS
      <3>2. \A i \in Nat : 1 <= i => (CommaAt(ts, n + i) <=> CommaAt(c \o us, i))
        BY <1>1, FromComma
      <3> QED BY <3>1, <3>2, Zenon
    <2>3. n + (Len(c) + 1) = e + 1
      OBVIOUS
    <2> QED BY <2>1, <2>2, <2>3
  <1>5. \A j \in (n + 1)..e : ~CommaAt(ts, j)
    <2> SUFFICES ASSUME NEW j \in (n + 1)..e PROVE ~CommaAt(ts, j)
      OBVIOUS
    <2>1. j - n \in Nat /\ 1 <= j - n /\ j - n <= Len(c) /\ n + (j - n) = j
      OBVIOUS
    <2>2. CommaAt(c \o us, j - n) <=> CommaAt(c, j - n)
      BY <2>1, ConcatComma
    <2>3. CommaAt(ts, n + (j - n)) <=> CommaAt(c \o us, j - n)
      BY <1>1, <2>1, FromComma
    <2> QED BY <2>1, <2>2, <2>3
  <1>6. EndsAt(ts, n + 1, e)
    BY <1>2, <1>4, <1>5 DEF EndsAt
  <1>7. Piece(ts, n + 1) = SubSeq(ts, n + 1, e)
    BY <1>6, PieceIs
  <1>8. /\ SubSeq(ts, n + 1, e) \in Seq(T) /\ Len(SubSeq(ts, n + 1, e)) = Len(c)
        /\ \A i \in 1..Len(c) : SubSeq(ts, n + 1, e)[i] = ts[n + i]
    <2>1. n + 1 \in 1..(Len(ts) + 1) /\ e \in n..Len(ts) /\ (e - (n + 1)) + 1 = Len(c)
      BY <1>2
    <2>2. /\ SubSeq(ts, n + 1, e) \in Seq(T) /\ Len(SubSeq(ts, n + 1, e)) = Len(c)
          /\ \A i \in 1..Len(c) : SubSeq(ts, n + 1, e)[i] = ts[(n + 1) + i - 1]
      BY <2>1, SubSeqProperties
    <2>3. \A i \in 1..Len(c) : (n + 1) + i - 1 = n + i
      OBVIOUS
    <2> QED BY <2>2, <2>3
  <1>9. SubSeq(ts, n + 1, e) = c
    BY <1>3, <1>8, SeqEqual
  <1> QED BY <1>7, <1>9

\* The piece p goes on after c, with x.
GoesOn(p, c, x) ==
    /\ p \in Seq(Plain) /\ Len(p) > Len(c)
    /\ \A i \in 1..Len(c) : p[i] = c[i]
    /\ p[Len(c) + 1] = x

LEMMA PieceGoesOn ==
  ASSUME NEW ts \in Seq(Plain), NEW n \in Nat, NEW c \in Seq(Plain),
         NEW us \in Seq(Plain),
         From(ts, n, c \o us), \A i \in 1..Len(c) : ~CommaAt(c, i),
         us # <<>>, ~CommaAt(us, 1)
  PROVE  GoesOn(Piece(ts, n + 1), c, us[1])
  <1> DEFINE m == Len(c) + 1
  <1>1. /\ c \o us \in Seq(Plain) /\ Len(c \o us) = Len(c) + Len(us) /\ Len(us) > 0
        /\ \A i \in 1..Len(c) : (c \o us)[i] = c[i] /\ i \in 1..Len(c \o us)
        /\ (c \o us)[m] = us[1]
    OBVIOUS
  <1>2. m \in Nat /\ n + m <= Len(ts) /\ \A i \in 1..m : i \in 1..Len(c \o us)
    BY <1>1 DEF From
  <1>3. (\A i \in 1..Len(c) : ts[n + i] = c[i]) /\ ts[n + m] = us[1]
    BY <1>1, <1>2 DEF From
  <1>4. \A j \in (n + 1)..(n + m) : ~CommaAt(ts, j)
    <2> SUFFICES ASSUME NEW j \in (n + 1)..(n + m) PROVE ~CommaAt(ts, j)
      OBVIOUS
    <2>1. /\ n + (j - n) = j /\ j - n \in Nat /\ 1 <= j - n
          /\ j - n \in 1..Len(c) \/ j - n = Len(c) + 1
      OBVIOUS
    <2>2. CommaAt(ts, n + (j - n)) <=> CommaAt(c \o us, j - n)
      BY <1>1, <2>1, FromComma
    <2>3. j - n \in 1..Len(c) => (CommaAt(c \o us, j - n) <=> CommaAt(c, j - n))
      BY <2>1, ConcatComma
    <2>4. CommaAt(c \o us, Len(c) + 1) <=> CommaAt(us, 1)
      BY ConcatComma
    <2> QED BY <2>1, <2>2, <2>3, <2>4
  <1>5. PICK e : EndsAt(ts, n + 1, e)
    <2>1. n + 1 \in Nat /\ 1 <= n + 1 /\ n + 1 <= Len(ts) + 1
      BY <1>2
    <2> QED BY <2>1, PieceEnds
  <1>6. e \in Int /\ n + m <= e /\ e <= Len(ts)
    <2>1. e \in Int /\ n <= e /\ e <= Len(ts)
      BY <1>5 DEF EndsAt
    <2>2. ASSUME e < n + m PROVE FALSE
      <3>1. e # Len(ts) /\ e + 1 \in (n + 1)..(n + m)
        BY <1>2, <2>1, <2>2
      <3> QED BY <1>4, <1>5, <3>1 DEF EndsAt
    <2> QED BY <1>2, <2>1, <2>2
  <1> DEFINE p == SubSeq(ts, n + 1, e)
  <1>7. Piece(ts, n + 1) = p
    BY <1>5, PieceIs
  <1>8. p \in Seq(Plain) /\ Len(p) >= m /\ \A i \in 1..m : p[i] = ts[n + i]
    <2>1. n + 1 \in 1..(Len(ts) + 1) /\ e \in n..Len(ts) /\ (e - (n + 1)) + 1 = e - n
      BY <1>2, <1>6
    <2>2. /\ p \in Seq(Plain) /\ Len(p) = e - n
          /\ \A i \in 1..(e - n) : p[i] = ts[(n + 1) + i - 1]
      BY <2>1, SubSeqProperties
    <2>3. \A i \in 1..m : i \in 1..(e - n) /\ (n + 1) + i - 1 = n + i
      BY <1>2, <1>6
    <2>4. e - n >= m
      BY <1>2, <1>6
    <2> HIDE DEF p, m
    <2> QED BY <2>2, <2>3, <2>4
  <1> HIDE DEF p
  <1>9. Len(p) > Len(c) /\ \A i \in 1..Len(c) : p[i] = c[i]
    <2>1. \A i \in 1..Len(c) : i \in 1..m
      OBVIOUS
    <2>2. Len(p) > Len(c)
      BY <1>8
    <2> QED BY <1>3, <1>8, <2>1, <2>2
  <1>10. p[m] = us[1]
    BY <1>3, <1>8
  <1> QED BY <1>7, <1>8, <1>9, <1>10 DEF GoesOn

(***************************************************************************)
(* The readings of a piece.                                                *)
(***************************************************************************)
LEMMA Shapes ==
  ASSUME NEW T, NEW p \in Seq(T), NEW a, NEW b, NEW c
  PROVE  /\ p = <<a>> <=> Len(p) = 1 /\ p[1] = a
         /\ p = <<a, b>> <=> Len(p) = 2 /\ p[1] = a /\ p[2] = b
         /\ p = <<a, b, c>> <=> Len(p) = 3 /\ p[1] = a /\ p[2] = b /\ p[3] = c
  <1>0. \A i \in 1..1 : i = 1
    OBVIOUS
  <1>1. ASSUME Len(p) = 1, p[1] = a PROVE p = <<a>>
    <2>1. a \in T
      BY <1>1
    <2>2. <<a>> \in Seq(T) /\ Len(<<a>>) = 1 /\ <<a>>[1] = a
      BY <2>1
    <2> QED BY <1>0, <1>1, <2>2, SeqEqual
  <1>2. ASSUME Len(p) = 2, p[1] = a, p[2] = b PROVE p = <<a, b>>
    <2>1. a \in T /\ b \in T
      BY <1>2
    <2>2. <<a, b>> \in Seq(T) /\ Len(<<a, b>>) = 2 /\ <<a, b>>[1] = a /\ <<a, b>>[2] = b
      BY <2>1
    <2>3. \A i \in 1..2 : i = 1 \/ i = 2
      OBVIOUS
    <2> QED BY <1>2, <2>2, <2>3, SeqEqual
  <1>3. ASSUME Len(p) = 3, p[1] = a, p[2] = b, p[3] = c PROVE p = <<a, b, c>>
    <2>1. a \in T /\ b \in T /\ c \in T
      BY <1>3
    <2>2. /\ <<a, b, c>> \in Seq(T) /\ Len(<<a, b, c>>) = 3
          /\ <<a, b, c>>[1] = a /\ <<a, b, c>>[2] = b /\ <<a, b, c>>[3] = c
      BY <2>1
    <2>3. \A i \in 1..3 : i = 1 \/ i = 2 \/ i = 3
      OBVIOUS
    <2> QED BY <1>3, <2>2, <2>3, SeqEqual
  <1>4. /\ Len(<<a>>) = 1 /\ <<a>>[1] = a
        /\ Len(<<a, b>>) = 2 /\ <<a, b>>[1] = a /\ <<a, b>>[2] = b
        /\ Len(<<a, b, c>>) = 3
        /\ <<a, b, c>>[1] = a /\ <<a, b, c>>[2] = b /\ <<a, b, c>>[3] = c
    OBVIOUS
  <1> QED BY <1>1, <1>2, <1>3, <1>4

Reflects(s) == s \in Standard /\ Ports(files, s) = 1

LoneReflectStep(s) ==
    OneStep("SINGLE_REFLECT", s, IF dims.rows = 2 THEN Terminator ELSE NoStandard)
LineStep(s) == OneStep(IF s = "T" THEN "THROUGH" ELSE "LINE", s, NoStandard)

LEMMA ReadingsAre ==
  ASSUME NEW T, NEW p \in Seq(T), NEW y
  PROVE  y \in Readings(p) <=>
             \/ Len(p) = 1 /\ Reflects(p[1]) /\ y = LoneReflectStep(p[1])
             \/ /\ Len(p) = 1 /\ p[1] \in Standard /\ dims.rows = 2
                /\ Ports(files, p[1]) = 2 /\ y = LineStep(p[1])
             \/ /\ Len(p) = 2 /\ Reflects(p[1]) /\ p[2] = "-"
                /\ y = OneStep("SINGLE_REFLECT", p[1], Terminator)
             \/ /\ Len(p) = 2 /\ p[1] = "-" /\ Reflects(p[2])
                /\ y = OneStep("SINGLE_REFLECT", Terminator, p[2])
             \/ /\ Len(p) = 3 /\ Reflects(p[1]) /\ p[2] = "-" /\ Reflects(p[3])
                /\ y = OneStep("DOUBLE_REFLECT", p[1], p[3])
  <1>1. y \in Readings(p) <=>
            \/ \E s \in Standard : p = <<s>> /\ Reflects(s) /\ y = LoneReflectStep(s)
            \/ \E s \in Standard : /\ p = <<s>> /\ dims.rows = 2 /\ Ports(files, s) = 2
                                   /\ y = LineStep(s)
            \/ \E s \in Standard : /\ p = <<s, "-">> /\ Reflects(s)
                                   /\ y = OneStep("SINGLE_REFLECT", s, Terminator)
            \/ \E s \in Standard : /\ p = <<"-", s>> /\ Reflects(s)
                                   /\ y = OneStep("SINGLE_REFLECT", Terminator, s)
            \/ \E x \in Standard \X Standard :
                   /\ p = <<x[1], "-", x[2]>> /\ Reflects(x[1]) /\ Reflects(x[2])
                   /\ y = OneStep("DOUBLE_REFLECT", x[1], x[2])
    BY Zenon DEF Readings, Reflects, LoneReflectStep, LineStep
  <1>2. \A s : (p = <<s>> <=> Len(p) = 1 /\ p[1] = s)
    BY Shapes
  <1>3. \A s : /\ (p = <<s, "-">> <=> Len(p) = 2 /\ p[1] = s /\ p[2] = "-")
               /\ (p = <<"-", s>> <=> Len(p) = 2 /\ p[1] = "-" /\ p[2] = s)
    BY Shapes
  <1>4. \A s, t : (p = <<s, "-", t>> <=> Len(p) = 3 /\ p[1] = s /\ p[2] = "-" /\ p[3] = t)
    BY Shapes
  <1>5. (\E x \in Standard \X Standard :
             /\ p = <<x[1], "-", x[2]>> /\ Reflects(x[1]) /\ Reflects(x[2])
             /\ y = OneStep("DOUBLE_REFLECT", x[1], x[2]))
        <=> (\E s, t \in Standard :
             /\ p = <<s, "-", t>> /\ Reflects(s) /\ Reflects(t)
             /\ y = OneStep("DOUBLE_REFLECT", s, t))
    <2>1. \A x \in Standard \X Standard : x[1] \in Standard /\ x[2] \in Standard
      OBVIOUS
    <2>2. \A s, t \in Standard : /\ <<s, t>> \in Standard \X Standard
                                 /\ <<s, t>>[1] = s /\ <<s, t>>[2] = t
      OBVIOUS
    <2>3. ASSUME NEW s \in Standard, NEW t \in Standard,
                 p = <<s, "-", t>>, Reflects(s), Reflects(t),
                 y = OneStep("DOUBLE_REFLECT", s, t)
          PROVE  \E x \in Standard \X Standard :
                     /\ p = <<x[1], "-", x[2]>> /\ Reflects(x[1]) /\ Reflects(x[2])
                     /\ y = OneStep("DOUBLE_REFLECT", x[1], x[2])
      <3> WITNESS <<s, t>> \in Standard \X Standard
      <3> QED BY <2>2, <2>3, Zenon
    <2> QED BY <2>1, <2>3, Zenon
  <1>6. \A s : Reflects(s) => s \in Standard
    BY DEF Reflects
  <1> QED BY <1>1, <1>2, <1>3, <1>4, <1>5, <1>6, ZenonT(40)

LEMMA Longer ==
  ASSUME NEW T, NEW s \in Seq(T), Len(s) > 2
  PROVE  Len(s) # 1 /\ Len(s) # 2
  <1>1. \A n \in Nat : n > 2 => n # 1 /\ n # 2
    OBVIOUS
  <1>2. Len(s) \in Nat
    OBVIOUS
  <1> QED BY <1>1, <1>2, Zenon

LEMMA PairOf ==
  ASSUME NEW T, NEW s \in Seq(T), NEW t \in Seq(T), Len(s) = 1, Len(t) = 1
  PROVE  /\ s \o t \in Seq(T) /\ Len(s \o t) = 2
         /\ (s \o t)[1] = s[1] /\ (s \o t)[2] = t[1]
  <1>1. s \o t \in Seq(T) /\ Len(s \o t) = Len(s) + Len(t)
    BY ConcatProperties
  <1>2. \A i \in 1..(Len(s) + Len(t)) :
            (s \o t)[i] = IF i <= Len(s) THEN s[i] ELSE t[i - Len(s)]
    BY ConcatProperties
  <1>3. /\ 1 \in 1..(Len(s) + Len(t)) /\ 1 <= Len(s)
        /\ 2 \in 1..(Len(s) + Len(t)) /\ ~(2 <= Len(s)) /\ 2 - Len(s) = 1
    OBVIOUS
  <1>4. (s \o t)[1] = s[1]
    BY <1>2, <1>3
  <1>5. (s \o t)[2] = t[1]
    BY <1>2, <1>3
  <1> QED BY <1>1, <1>4, <1>5

\* The tokens of a step.
LEMMA ConsumedIs ==
  ASSUME NEW l \in Standard \cup {Terminator}, NEW r \in Standard \cup {Terminator, NoStandard}
  PROVE  LET c == Consumed(l, r) IN
         /\ c \in Seq(Plain) /\ \A i \in 1..Len(c) : ~CommaAt(c, i)
         /\ l = Terminator /\ r = NoStandard => c = <<>>
         /\ l = Terminator /\ r = Terminator => Len(c) = 1 /\ c[1] = "-"
         /\ l = Terminator /\ r \in Standard => Len(c) = 2 /\ c[1] = "-" /\ c[2] = r
         /\ l \in Standard /\ r = NoStandard => Len(c) = 1 /\ c[1] = l
         /\ l \in Standard /\ r = Terminator => Len(c) = 2 /\ c[1] = l /\ c[2] = "-"
         /\ l \in Standard /\ r \in Standard =>
                Len(c) = 3 /\ c[1] = l /\ c[2] = "-" /\ c[3] = r
  <1> DEFINE c == Consumed(l, r)
             A == IF l = Terminator THEN <<>> ELSE <<l>>
             B == IF r = NoStandard THEN <<>>
                  ELSE IF r = Terminator THEN <<"-">> ELSE <<"-">> \o <<r>>
  <1>0. c = A \o B
    BY DEF Consumed
  <1>1. /\ A \in Seq(Plain)
        /\ l = Terminator => A = <<>>
        /\ l \in Standard => Len(A) = 1 /\ A[1] = l
    <2>1. CASE l = Terminator
      <3>1. A = <<>> /\ l \notin Standard
        BY <2>1, NotStandard
      <3> HIDE DEF A
      <3> QED BY <3>1, EmptyType
    <2>2. CASE l \in Standard
      <3>1. l \in Plain /\ A = <<l>> /\ l # Terminator
        BY <2>2, NotStandard
      <3> HIDE DEF A
      <3>2. A \in Seq(Plain)
        BY <3>1, TupleType
      <3> QED BY <3>1, <3>2
    <2> QED BY <2>1, <2>2
  <1>2. /\ B \in Seq(Plain)
        /\ r = NoStandard => B = <<>>
        /\ r = Terminator => Len(B) = 1 /\ B[1] = "-"
        /\ r \in Standard => Len(B) = 2 /\ B[1] = "-" /\ B[2] = r
    <2>0. <<"-">> \in Seq(Plain)
      BY NotStandard, TupleType
    <2>1. CASE r = NoStandard
      <3>1. B = <<>> /\ r \notin Standard /\ r # Terminator
        BY <2>1, NotStandard
      <3> HIDE DEF B
      <3> QED BY <2>1, <3>1, EmptyType
    <2>2. CASE r = Terminator
      <3>1. B = <<"-">> /\ r # NoStandard /\ r \notin Standard
        BY <2>2, NotStandard
      <3> HIDE DEF B
      <3> QED BY <2>0, <3>1
    <2>3. CASE r \in Standard
      <3>1. r \in Plain /\ B = <<"-">> \o <<r>> /\ r # Terminator /\ r # NoStandard
        BY <2>3, NotStandard
      <3>2. <<r>> \in Seq(Plain)
        BY <3>1, TupleType
      <3>3. \A s, t \in Seq(Plain) : Len(s) = 1 /\ Len(t) = 1 =>
                /\ s \o t \in Seq(Plain) /\ Len(s \o t) = 2
                /\ (s \o t)[1] = s[1] /\ (s \o t)[2] = t[1]
        BY PairOf
      <3>4. Len(<<"-">>) = 1 /\ Len(<<r>>) = 1 /\ <<"-">>[1] = "-" /\ <<r>>[1] = r
        OBVIOUS
      <3> HIDE DEF B
      <3>5. B \in Seq(Plain) /\ Len(B) = 2 /\ B[1] = "-" /\ B[2] = r
        BY <2>0, <3>1, <3>2, <3>3, <3>4
      <3> QED BY <2>3, <3>1, <3>5
    <2> QED BY <2>1, <2>2, <2>3
  <1> HIDE DEF A, B, c
  <1>3. c \in Seq(Plain) /\ Len(c) = Len(A) + Len(B)
        /\ (\A i \in 1..Len(A) : c[i] = A[i])
        /\ (\A i \in 1..Len(B) : c[Len(A) + i] = B[i])
    BY <1>0, <1>1, <1>2
  <1>4. l = Terminator => c = B
    BY <1>0, <1>1, <1>2
  <1>5. ASSUME l \in Standard PROVE Len(c) = 1 + Len(B) /\ c[1] = l
                                    /\ \A i \in 1..Len(B) : c[1 + i] = B[i]
    <2>1. Len(A) = 1 /\ A[1] = l /\ 1 \in 1..1 /\ Len(B) \in Nat
      BY <1>1, <1>2, <1>5
    <2> QED BY <1>3, <2>1
  <1>6. /\ l = Terminator /\ r = NoStandard => c = <<>>
        /\ l = Terminator /\ r = Terminator => Len(c) = 1 /\ c[1] = "-"
        /\ l = Terminator /\ r \in Standard => Len(c) = 2 /\ c[1] = "-" /\ c[2] = r
    BY <1>2, <1>4
  <1>7. /\ l \in Standard /\ r = NoStandard => Len(c) = 1 /\ c[1] = l
        /\ l \in Standard /\ r = Terminator => Len(c) = 2 /\ c[1] = l /\ c[2] = "-"
        /\ l \in Standard /\ r \in Standard =>
               Len(c) = 3 /\ c[1] = l /\ c[2] = "-" /\ c[3] = r
    <2>1. l \in Standard /\ r = NoStandard => Len(c) = 1 /\ c[1] = l
      <3>1. Len(<<>>) = 0
        OBVIOUS
      <3> QED BY <1>2, <1>5, <3>1
    <2>2. l \in Standard /\ r = Terminator => Len(c) = 2 /\ c[1] = l /\ c[2] = "-"
      <3>1. 1 \in 1..1 /\ 1 + 1 = 2
        OBVIOUS
      <3> QED BY <1>2, <1>5, <3>1
    <2>3. l \in Standard /\ r \in Standard =>
               Len(c) = 3 /\ c[1] = l /\ c[2] = "-" /\ c[3] = r
      <3>1. 1 \in 1..2 /\ 2 \in 1..2 /\ 1 + 1 = 2 /\ 1 + 2 = 3
        OBVIOUS
      <3> QED BY <1>2, <1>5, <3>1
    <2> QED BY <2>1, <2>2, <2>3
  <1>8. \A i \in 1..Len(c) : c[i] \in Standard \cup {"-"}
    <2>0. (\A i \in 1..Len(<<>>) : FALSE) /\ (\A i \in 1..1 : i = 1)
          /\ (\A i \in 1..2 : i = 1 \/ i = 2) /\ (\A i \in 1..3 : i = 1 \/ i = 2 \/ i = 3)
      OBVIOUS
    <2>1. CASE l = Terminator
      <3>1. CASE r = NoStandard
        BY <1>6, <2>0, <2>1, <3>1
      <3>2. CASE r = Terminator
        <4>1. Len(c) = 1 /\ c[1] = "-"
          BY <1>6, <2>1, <3>2
        <4> QED BY <2>0, <4>1
      <3>3. CASE r \in Standard
        <4>1. Len(c) = 2 /\ c[1] = "-" /\ c[2] = r
          BY <1>6, <2>1, <3>3
        <4> QED BY <2>0, <3>3, <4>1
      <3> QED BY <3>1, <3>2, <3>3
    <2>2. CASE l \in Standard
      <3>1. CASE r = NoStandard
        BY <1>7, <2>0, <2>2, <3>1
      <3>2. CASE r = Terminator
        BY <1>7, <2>0, <2>2, <3>2
      <3>3. CASE r \in Standard
        <4>1. Len(c) = 3 /\ c[1] = l /\ c[2] = "-" /\ c[3] = r
          BY <1>7, <2>2, <3>3
        <4> QED BY <2>0, <2>2, <3>3, <4>1
      <3> QED BY <3>1, <3>2, <3>3
    <2> QED BY <2>1, <2>2
  <1>9. \A i \in 1..Len(c) : ~CommaAt(c, i)
    <2>1. "," \notin Standard \cup {"-"}
      BY NotStandard, Zenon
    <2> QED BY <1>8, <2>1, Zenon DEF CommaAt
  <1> QED BY <1>3, <1>6, <1>7, <1>9 DEF c

\* The step is accepted exactly if what it read has a reading: that one.
LEMMA GoodReading ==
  ASSUME dims \in Dims, files \in Files,
         NEW l \in Standard \cup {Terminator}, NEW r \in Standard \cup {Terminator, NoStandard}
  PROVE  LET c == Consumed(l, r) IN
         /\ Accepts(dims, files, l, r) => Readings(c) = {Classify(dims, files, l, r)}
         /\ ~Accepts(dims, files, l, r) => Readings(c) = {}
  <1> DEFINE c == Consumed(l, r)
             new == Classify(dims, files, l, r)
             ok == Accepts(dims, files, l, r)
  <1>1. /\ c \in Seq(Plain)
        /\ l = Terminator /\ r = NoStandard => c = <<>>
        /\ l = Terminator /\ r = Terminator => Len(c) = 1 /\ c[1] = "-"
        /\ l = Terminator /\ r \in Standard => Len(c) = 2 /\ c[1] = "-" /\ c[2] = r
        /\ l \in Standard /\ r = NoStandard => Len(c) = 1 /\ c[1] = l
        /\ l \in Standard /\ r = Terminator => Len(c) = 2 /\ c[1] = l /\ c[2] = "-"
        /\ l \in Standard /\ r \in Standard =>
               Len(c) = 3 /\ c[1] = l /\ c[2] = "-" /\ c[3] = r
    BY ConsumedIs
  <1> HIDE DEF c
  <1>2. dims.rows \in {1, 2} /\ Ports(files, Terminator) = 1
    <2>1. Terminator \in OnePort \cup {Terminator} /\ Terminator # "T"
          /\ Terminator \notin Identifier
      BY NotStandard DEF Standard, Builtin
    <2>2. Ports(files, Terminator) = 1
      BY <2>1 DEF Ports
    <2> QED BY <2>2 DEF Dims
  <1>3. \A s \in Standard : Ports(files, s) \in {0, 1, 2}
    BY DEF Ports, Files, Standard, Builtin
  <1>4. ASSUME NEW y PROVE y \in Readings(c) <=> ok /\ y = new
    <2>1. y \in Readings(c) <=>
             \/ Len(c) = 1 /\ Reflects(c[1]) /\ y = LoneReflectStep(c[1])
             \/ /\ Len(c) = 1 /\ c[1] \in Standard /\ dims.rows = 2
                /\ Ports(files, c[1]) = 2 /\ y = LineStep(c[1])
             \/ /\ Len(c) = 2 /\ Reflects(c[1]) /\ c[2] = "-"
                /\ y = OneStep("SINGLE_REFLECT", c[1], Terminator)
             \/ /\ Len(c) = 2 /\ c[1] = "-" /\ Reflects(c[2])
                /\ y = OneStep("SINGLE_REFLECT", Terminator, c[2])
             \/ /\ Len(c) = 3 /\ Reflects(c[1]) /\ c[2] = "-" /\ Reflects(c[3])
                /\ y = OneStep("DOUBLE_REFLECT", c[1], c[3])
      BY <1>1, ReadingsAre
    <2>2. ~Reflects("-") /\ "-" \notin Standard
      BY NotStandard DEF Reflects
    <2>3. CASE l = Terminator /\ r = NoStandard
      <3>1. ~ok
        BY <2>3, NotStandard DEF Accepts
      <3>2. Len(c) = 0
        BY <1>1, <2>3
      <3> QED BY <2>1, <3>1, <3>2
    <2>4. CASE l = Terminator /\ r = Terminator
      <3>1. ~ok
        BY <2>4, NotStandard DEF Accepts
      <3> QED BY <1>1, <2>1, <2>2, <2>4, <3>1
    <2>5. CASE l = Terminator /\ r \in Standard
      <3>1. ok <=> Reflects(r)
        <4>1. l # NoStandard /\ r # NoStandard /\ Ports(files, l) = 1
          BY <1>2, <2>5, NotStandard
        <4> QED BY <1>3, <2>5, <4>1 DEF Accepts, Reflects, LoneReflect
      <3>2. new = OneStep("SINGLE_REFLECT", Terminator, r)
        BY <2>5, NotStandard DEF Classify, LoneReflect, OneStep
      <3>3. Len(c) = 2 /\ c[1] = "-" /\ c[2] = r
        BY <1>1, <2>5
      <3> HIDE DEF ok, new
      <3> QED BY <2>1, <2>2, <3>1, <3>2, <3>3
    <2>6. CASE l \in Standard /\ r = NoStandard
      <3>1. Len(c) = 1 /\ c[1] = l /\ l # Terminator /\ NoStandard # Terminator
        BY <1>1, <2>6, NotStandard
      <3>2. ok <=> \/ Reflects(l)
                   \/ dims.rows = 2 /\ Ports(files, l) = 2
        BY <1>2, <1>3, <2>6, <3>1 DEF Accepts, Reflects, LoneReflect
      <3>3. Reflects(l) => new = LoneReflectStep(l)
        BY <1>2, <2>6, <3>1 DEF Classify, LoneReflect, LoneReflectStep, OneStep, Reflects
      <3>4. Ports(files, l) = 2 => new = LineStep(l) /\ ~Reflects(l)
        BY <2>6, <3>1 DEF Classify, LoneReflect, LineStep, OneStep, Reflects
      <3> HIDE DEF ok, new
      <3> QED BY <2>1, <2>6, <3>1, <3>2, <3>3, <3>4
    <2>7. CASE l \in Standard /\ r = Terminator
      <3>1. Len(c) = 2 /\ c[1] = l /\ c[2] = "-" /\ l # "-" /\ NoStandard # Terminator
        BY <1>1, <2>7, NotStandard
      <3>2. ok <=> Reflects(l)
        BY <1>2, <1>3, <2>7, <3>1 DEF Accepts, Reflects, LoneReflect
      <3>3. new = OneStep("SINGLE_REFLECT", l, Terminator)
        BY <2>7, <3>1 DEF Classify, LoneReflect, OneStep
      <3> HIDE DEF ok, new
      <3> QED BY <2>1, <2>2, <3>1, <3>2, <3>3
    <2>8. CASE l \in Standard /\ r \in Standard
      <3>1. Len(c) = 3 /\ c[1] = l /\ c[2] = "-" /\ c[3] = r
        BY <1>1, <2>8
      <3>2. l # Terminator /\ r # Terminator /\ r # NoStandard
        BY <2>8, NotStandard
      <3>3. ok <=> Reflects(l) /\ Reflects(r)
        BY <1>2, <1>3, <2>8, <3>2 DEF Accepts, Reflects, LoneReflect
      <3>4. new = OneStep("DOUBLE_REFLECT", l, r)
        BY <2>8, <3>2 DEF Classify, LoneReflect, OneStep
      <3> HIDE DEF ok, new
      <3> QED BY <2>1, <3>1, <3>3, <3>4
    <2> QED BY <2>3, <2>4, <2>5, <2>6, <2>7, <2>8
  <1> HIDE DEF ok, new
  <1>5. ok => Readings(c) = {new}
    BY <1>4
  <1>6. ~ok => Readings(c) = {}
    BY <1>4
  <1> QED BY <1>5, <1>6 DEF c, ok, new

\* Nothing that goes on after a step without a comma has a reading.
LEMMA BadReading ==
  ASSUME NEW l \in Standard \cup {Terminator}, NEW r \in Standard \cup {Terminator, NoStandard},
         NEW x, NEW p, GoesOn(p, Consumed(l, r), x),
         r = NoStandard => x # "-",
         l = Terminator /\ r = NoStandard => x \notin Standard,
         r = Terminator => x \notin Standard
  PROVE  Readings(p) = {}
  <1> DEFINE c == Consumed(l, r)
  <1>1. /\ c \in Seq(Plain)
        /\ l = Terminator /\ r = NoStandard => c = <<>>
        /\ l = Terminator /\ r = Terminator => Len(c) = 1 /\ c[1] = "-"
        /\ l = Terminator /\ r \in Standard => Len(c) = 2 /\ c[1] = "-" /\ c[2] = r
        /\ l \in Standard /\ r = NoStandard => Len(c) = 1 /\ c[1] = l
        /\ l \in Standard /\ r = Terminator => Len(c) = 2 /\ c[1] = l /\ c[2] = "-"
        /\ l \in Standard /\ r \in Standard =>
               Len(c) = 3 /\ c[1] = l /\ c[2] = "-" /\ c[3] = r
    BY ConsumedIs
  <1>2. /\ p \in Seq(Plain) /\ Len(p) > Len(c) /\ p[Len(c) + 1] = x
        /\ \A i \in 1..Len(c) : p[i] = c[i]
    BY DEF GoesOn
  <1> HIDE DEF c
  <1>3. SUFFICES ASSUME NEW y \in Readings(p) PROVE FALSE
    OBVIOUS
  <1>4. \/ Len(p) = 1 /\ Reflects(p[1])
        \/ Len(p) = 1 /\ p[1] \in Standard
        \/ Len(p) = 2 /\ Reflects(p[1]) /\ p[2] = "-"
        \/ Len(p) = 2 /\ p[1] = "-" /\ Reflects(p[2])
        \/ Len(p) = 3 /\ Reflects(p[1]) /\ p[2] = "-" /\ Reflects(p[3])
    BY <1>2, <1>3, ReadingsAre
  <1>5. \/ Len(p) = 1 /\ p[1] \in Standard
        \/ Len(p) = 2 /\ p[1] \in Standard /\ p[2] = "-"
        \/ Len(p) = 2 /\ p[1] = "-" /\ p[2] \in Standard
        \/ Len(p) = 3 /\ p[1] \in Standard /\ p[2] = "-" /\ p[3] \in Standard
    BY <1>4 DEF Reflects
  <1>6. "-" \notin Standard
    BY NotStandard
  <1>7. CASE l = Terminator /\ r = NoStandard
    <2>1. Len(c) = 0
      BY <1>1, <1>7
    <2>2. p[1] = x
      BY <1>2, <2>1
    <2> QED BY <1>5, <1>6, <1>7, <2>2
  <1>8. CASE l = Terminator /\ r = Terminator
    <2>1. Len(c) = 1 /\ c[1] = "-" /\ 1 \in 1..1 /\ 1 + 1 = 2
      BY <1>1, <1>8
    <2>2. p[1] = "-" /\ p[2] = x /\ Len(p) > 1
      BY <1>2, <2>1
    <2> QED BY <1>5, <1>6, <1>8, <2>2
  <1>9. CASE l = Terminator /\ r \in Standard
    <2>1. Len(c) = 2 /\ c[1] = "-" /\ 1 \in 1..2
      BY <1>1, <1>9
    <2>2. p[1] = "-" /\ Len(p) > 2
      BY <1>2, <2>1
    <2>3. p[1] \notin Standard
      BY <1>6, <2>2, Zenon
    <2>4. Len(p) # 1 /\ Len(p) # 2
      <3>1. Len(p) > 2
        BY <2>2, Zenon
      <3> QED BY <1>2, <3>1, Longer, Zenon
    <2> QED BY <1>5, <2>3, <2>4, Zenon
  <1>10. CASE l \in Standard /\ r = NoStandard
    <2>1. Len(c) = 1 /\ c[1] = l /\ 1 \in 1..1 /\ 1 + 1 = 2
      BY <1>1, <1>10
    <2>2. p[1] = l /\ p[2] = x /\ Len(p) > 1
      BY <1>2, <2>1
    <2> QED BY <1>5, <1>6, <1>10, <2>2
  <1>11. CASE l \in Standard /\ r = Terminator
    <2>1. Len(c) = 2 /\ 2 + 1 = 3
      BY <1>1, <1>11
    <2>2. p[3] = x /\ Len(p) > 2
      BY <1>2, <2>1
    <2> QED BY <1>5, <1>11, <2>2
  <1>12. CASE l \in Standard /\ r \in Standard
    <2>1. Len(c) = 3
      BY <1>1, <1>12
    <2> QED BY <1>2, <1>5, <2>1
  <1> QED BY <1>7, <1>8, <1>9, <1>10, <1>11, <1>12

(***************************************************************************)
(* How far the parser has got: the pieces before position n + 1 are read.  *)
(***************************************************************************)
Before(n) == {a \in Starts(SpeltOut) : a <= n}

ReadUpTo(n) ==
    /\ n + 1 \in Starts(SpeltOut)
    /\ From(SpeltOut, n, Spelt(tokens))
    /\ Len(steps) = Cardinality(Before(n))
    /\ \A b \in Before(n) :
           Readings(Piece(SpeltOut, b)) = {steps[Place(SpeltOut, b)]}

MeaningInv ==
    /\ status = "step" => \E n \in Nat : ReadUpTo(n)
    /\ ParsedIsMeant

LEMMA SpeltOutType ==
  ASSUME ParserTypeOK
  PROVE  SpeltOut \in Seq(Plain) /\ Spelt(tokens) \in Seq(Plain)
  BY SpeltStep DEF ParserTypeOK, SpeltOut

LEMMA StartsFinite ==
  ASSUME NEW T, NEW ts \in Seq(T)
  PROVE  /\ IsFiniteSet(Starts(ts)) /\ Starts(ts) \subseteq 1..(Len(ts) + 1)
         /\ 1 \in Starts(ts)
         /\ \A b \in Starts(ts) : Place(ts, b) \in 1..Cardinality(Starts(ts))
         /\ \A S \in SUBSET Starts(ts) :
                IsFiniteSet(S) /\ Cardinality(S) \in Nat
                /\ \A b \in Starts(ts) : (\A a \in Starts(ts) : a <= b => a \in S) =>
                       Place(ts, b) \in 1..Cardinality(S)
  <1>1. Starts(ts) \subseteq 1..(Len(ts) + 1) /\ 1 \in Starts(ts)
    BY DEF Starts
  <1>2. IsFiniteSet(1..(Len(ts) + 1))
    BY FS_Interval
  <1>3. IsFiniteSet(Starts(ts))
    BY <1>1, <1>2, FS_Subset
  <1>4. ASSUME NEW S \in SUBSET Starts(ts)
        PROVE  /\ IsFiniteSet(S) /\ Cardinality(S) \in Nat
               /\ \A b \in Starts(ts) : (\A a \in Starts(ts) : a <= b => a \in S) =>
                      Place(ts, b) \in 1..Cardinality(S)
    <2>1. IsFiniteSet(S) /\ Cardinality(S) \in Nat
      BY <1>3, FS_Subset, FS_CardinalityType
    <2>2. ASSUME NEW b \in Starts(ts), \A a \in Starts(ts) : a <= b => a \in S
          PROVE  Place(ts, b) \in 1..Cardinality(S)
      <3> DEFINE A == {a \in Starts(ts) : a <= b}
      <3>1. A \in SUBSET S /\ b \in A
        BY <1>1, <2>2
      <3>2. IsFiniteSet(A) /\ Cardinality(A) \in Nat /\ Cardinality(A) <= Cardinality(S)
        BY <2>1, <3>1, FS_Subset, FS_CardinalityType
      <3>3. Cardinality(A) # 0
        BY <3>1, <3>2, FS_EmptySet
      <3>4. Place(ts, b) = Cardinality(A)
        BY DEF Place
      <3> HIDE DEF A
      <3> QED BY <2>1, <3>2, <3>3, <3>4
    <2> QED BY <2>1, <2>2
  <1>5. \A b \in Starts(ts) : Place(ts, b) \in 1..Cardinality(Starts(ts))
    BY <1>4
  <1> QED BY <1>1, <1>3, <1>4, <1>5

\* What is read is kept while only tokens, steps and status change.
LEMMA MeaningFrame ==
  ASSUME dims' = dims, files' = files, input' = input
  PROVE  /\ SpeltOut' = SpeltOut /\ \A p : Readings(p)' = Readings(p)
         /\ NothingBeforeError' <=> NothingBeforeError
         /\ \A p : TwoPortSecond(p)' <=> TwoPortSecond(p)
  <1>1. SpeltOut' = SpeltOut /\ \A p : Readings(p)' = Readings(p)
    BY DEF SpeltOut, Spelt, Readings
  <1>2. NothingBeforeError' <=> NothingBeforeError
    BY DEF NothingBeforeError
  <1>3. ASSUME NEW p PROVE TwoPortSecond(p)' <=> TwoPortSecond(p)
    BY DEF TwoPortSecond, Ports
  <1> QED BY <1>1, <1>2, <1>3

BeginsWith(p, c) ==
    /\ p \in Seq(Plain) /\ Len(c) <= Len(p)
    /\ \A i \in 1..Len(c) : p[i] = c[i]

\* The piece at which the parser fails has no reading; it begins with what was
\* read of it.
LEMMA FailedPiece ==
  ASSUME ParserTypeOK, NEW n \in Nat, ReadUpTo(n), Fails
  PROVE  /\ Readings(Piece(SpeltOut, n + 1)) = {}
         /\ BeginsWith(Piece(SpeltOut, n + 1), Consumed(Scanned.left, Scanned.right))
  <1> DEFINE out == SpeltOut
             r == Scanned
             c == Consumed(r.left, r.right)
             us == Spelt(r.rest)
  <1>1. dims \in Dims /\ files \in Files /\ tokens \in Seq(Token)
    BY DEF ParserTypeOK
  <1>2. out \in Seq(Plain) /\ Spelt(tokens) \in Seq(Plain)
    BY SpeltOutType
  <1>3. /\ r.left \in Standard \cup {Terminator}
        /\ r.right \in Standard \cup {Terminator, NoStandard}
        /\ r.rest \in Seq(Token)
    BY <1>1, ScanStepType DEF Scanned
  <1>4. /\ c \in Seq(Plain) /\ Spelt(tokens) = c \o us
        /\ r.right = NoStandard => Current(r.rest) # "-"
        /\ r.right = NoStandard /\ r.left = Terminator => Current(r.rest) \notin Name
        /\ r.right = Terminator => Current(r.rest) \notin Name
    BY <1>1, ScanStepReads DEF Scanned
  <1>5. \A i \in 1..Len(c) : ~CommaAt(c, i)
    BY <1>3, ConsumedIs
  <1>6. us \in Seq(Plain) /\ From(out, n, c \o us)
    BY <1>1, <1>3, <1>4, SpeltStep DEF ReadUpTo
  <1>7. BeginsWith(c, c)
    <2> HIDE DEF c
    <2>1. Len(c) \in Nat
      BY <1>4
    <2> QED BY <1>4, <2>1 DEF BeginsWith
  <1>8. Readings(Piece(out, n + 1)) = {} /\ BeginsWith(Piece(out, n + 1), c)
    <2>1. CASE r.rest = <<>>
      <3>1. us = <<>>
        BY <1>1, <2>1, EmptyType, SpeltStep
      <3>2. Piece(out, n + 1) = c
        BY <1>2, <1>4, <1>5, <1>6, <3>1, PieceRead
      <3>3. ~Accepts(dims, files, r.left, r.right)
        BY <2>1 DEF Fails, Good, Current
      <3>4. Readings(c) = {}
        BY <1>1, <1>3, <3>3, GoodReading
      <3> QED BY <1>7, <3>2, <3>4
    <2>2. CASE r.rest # <<>>
      <3> DEFINE x == us[1]
      <3>0. Current(r.rest) = Head(r.rest)
        BY <2>2 DEF Current
      <3>1. /\ us # <<>>
            /\ \/ x = Head(r.rest)
               \/ Head(r.rest) \in Macro /\ x \in {"S", "O"}
        BY <1>1, <1>3, <2>2, SpeltFirst
      <3>2. CommaAt(us, 1) <=> Head(r.rest) = ","
        <4>1. 1 \in 1..Len(us)
          BY <1>6, <3>1
        <4>2. Head(r.rest) \in Macro /\ x \in {"S", "O"} => Head(r.rest) # "," /\ x # ","
          BY NotStandard, Zenon DEF Macro
        <4> QED BY <3>1, <4>1, <4>2, Zenon DEF CommaAt
      <3>3. CASE Head(r.rest) = ","
        <4>1. Piece(out, n + 1) = c
          BY <1>2, <1>4, <1>5, <1>6, <3>2, <3>3, PieceRead
        <4>2. ~Accepts(dims, files, r.left, r.right)
          BY <3>0, <3>3, Zenon DEF Fails, Good
        <4>3. Readings(c) = {}
          BY <1>1, <1>3, <4>2, GoodReading
        <4> QED BY <1>7, <4>1, <4>3
      <3>4. CASE Head(r.rest) # ","
        <4> DEFINE p == Piece(out, n + 1)
        <4>1. GoesOn(p, c, x)
          <5>1. us # <<>> /\ ~CommaAt(us, 1)
            BY <3>1, <3>2, <3>4, Zenon
          <5> QED BY <1>2, <1>4, <1>5, <1>6, <5>1, PieceGoesOn
        <4>2. Macro \subseteq Name /\ Standard \subseteq Name /\ "-" \notin {"S", "O"}
          BY DEF Name
        <4>3. r.right = NoStandard => x # "-"
          BY <1>4, <3>0, <3>1, <4>2, Zenon
        <4>4. r.left = Terminator /\ r.right = NoStandard => x \notin Standard
          BY <1>4, <3>0, <3>1, <4>2, Zenon
        <4>5. r.right = Terminator => x \notin Standard
          BY <1>4, <3>0, <3>1, <4>2, Zenon
        <4> HIDE DEF p, x
        <4>6. Readings(p) = {}
          BY <1>3, <4>1, <4>3, <4>4, <4>5, BadReading
        <4>7. p \in Seq(Plain) /\ Len(p) > Len(c) /\ \A i \in 1..Len(c) : p[i] = c[i]
          BY <4>1 DEF GoesOn
        <4>8. Len(c) <= Len(p)
          BY <1>4, <4>7
        <4>9. BeginsWith(p, c)
          BY <4>7, <4>8, Zenon DEF BeginsWith
        <4> QED BY <4>6, <4>9 DEF p
      <3> QED BY <3>3, <3>4
    <2> QED BY <2>1, <2>2
  <1> QED BY <1>8

\* Nothing scanned has a text exactly if nothing stands before the error.
LEMMA NothingFact ==
  ASSUME ParserTypeOK
  PROVE  NoText <=> NothingBeforeError
  <1>1. input = <<>> => NoText /\ NothingBeforeError
    BY Zenon DEF NoText, NothingBeforeError, Current
  <1>2. ASSUME input # <<>> PROVE NoText <=> NothingBeforeError
    <2>1. Current(input) = Head(input) /\ Head(input) \in Token
      BY <1>2 DEF ParserTypeOK, Current
    <2>2. "end" \notin Token
      BY IdentifierAssumption, Zenon DEF Token, Name, Standard, Builtin, OnePort, Macro
    <2> QED BY <1>2, <2>1, <2>2, Zenon DEF NoText, NothingBeforeError
  <1> QED BY <1>1, <1>2

LEMMA BadMeaning ==
  ASSUME ParserTypeOK, MeaningInv, BadStep
  PROVE  MeaningInv'
  <1>1. PICK n \in Nat : ReadUpTo(n)
    BY DEF MeaningInv, BadStep
  <1>2. /\ Fails /\ ~NoText /\ status' = "rejected"
        /\ dims' = dims /\ files' = files /\ input' = input
    BY DEF BadStep, Ends
  <1>3. n + 1 \in Starts(SpeltOut) /\ Readings(Piece(SpeltOut, n + 1)) = {}
    <2>1. ReadUpTo(n) /\ Fails
      BY <1>1, <1>2
    <2> QED BY <2>1, FailedPiece DEF ReadUpTo
  <1>4. ~NothingBeforeError
    BY <1>2, NothingFact
  <1>5. /\ SpeltOut' = SpeltOut /\ \A p : Readings(p)' = Readings(p)
        /\ ~NothingBeforeError'
    BY <1>2, <1>4, MeaningFrame
  <1>6. ParsedIsMeant'
    <2>1. (\E b \in Starts(SpeltOut) : Readings(Piece(SpeltOut, b)) = {})'
      BY <1>3, <1>5
    <2> QED BY <1>2, <1>5, <2>1 DEF ParsedIsMeant
  <1> QED BY <1>2, <1>6 DEF MeaningInv

\* What a step with a second standard of two ports begins with.
LEMMA SecondOfTwo ==
  ASSUME files \in Files, MissingArgument,
         Scanned.left \in Standard \cup {Terminator},
         Scanned.right \in Standard \cup {Terminator, NoStandard},
         NEW p, BeginsWith(p, Consumed(Scanned.left, Scanned.right))
  PROVE  TwoPortSecond(p)
  <1> DEFINE l == Scanned.left
             r == Scanned.right
             c == Consumed(l, r)
  <1>1. Ports(files, l) = 1 /\ Ports(files, r) = 2
    BY DEF MissingArgument
  <1>2. r \in Standard
    <2>1. /\ Terminator \in OnePort \cup {Terminator}
          /\ Terminator # "T" /\ Terminator \notin Identifier
          /\ NoStandard \notin OnePort \cup {Terminator}
          /\ NoStandard # "T" /\ NoStandard \notin Identifier
      BY NotStandard DEF Standard, Builtin
    <2>2. Ports(files, Terminator) = 1
      BY <2>1 DEF Ports
    <2>3. Ports(files, NoStandard) = 0
      BY <2>1 DEF Ports
    <2> QED BY <1>1, <2>2, <2>3
  <1>3. /\ l = Terminator => Len(c) = 2 /\ c[1] = "-" /\ c[2] = r
        /\ l \in Standard => Len(c) = 3 /\ c[1] = l /\ c[2] = "-" /\ c[3] = r
    BY <1>2, ConsumedIs
  <1>4. \A i \in 1..Len(c) : p[i] = c[i] /\ i \in 1..Len(p)
    <2>1. c \in Seq(Plain)
      BY <1>2, ConsumedIs
    <2>2. /\ p \in Seq(Plain) /\ Len(c) <= Len(p)
          /\ \A i \in 1..Len(c) : p[i] = c[i]
      BY DEF BeginsWith
    <2> HIDE DEF c
    <2> QED BY <2>1, <2>2
  <1> HIDE DEF c
  <1>5. CASE l = Terminator
    <2>1. 1 \in 1..Len(c) /\ 2 \in 1..Len(c)
      <3>1. Len(c) = 2
        BY <1>3, <1>5, Zenon
      <3> QED BY <3>1
    <2>2. p[1] = "-" /\ p[2] = r /\ 2 \in 1..Len(p)
      BY <1>3, <1>4, <1>5, <2>1
    <2> HIDE DEF r
    <2> QED BY <1>1, <1>2, <2>2 DEF TwoPortSecond
  <1>6. CASE l \in Standard
    <2>1. 1 \in 1..Len(c) /\ 2 \in 1..Len(c) /\ 3 \in 1..Len(c)
      <3>1. Len(c) = 3
        BY <1>3, <1>6, Zenon
      <3> QED BY <3>1
    <2>2. /\ p[1] = l /\ p[2] = "-" /\ p[3] = r
          /\ 1 \in 1..Len(p) /\ 3 \in 1..Len(p)
      BY <1>3, <1>4, <1>6, <2>1
    <2> HIDE DEF l, r
    <2> QED BY <1>1, <1>2, <1>6, <2>2 DEF TwoPortSecond
  <1> QED BY <1>5, <1>6

LEMMA CrashMeaning ==
  ASSUME ParserTypeOK, MeaningInv, CrashStep
  PROVE  MeaningInv'
  <1>1. PICK n \in Nat : ReadUpTo(n)
    BY DEF MeaningInv, CrashStep
  <1>2. /\ Fails
        /\ NoText \/ MissingArgument
        /\ status' = "crashed"
        /\ dims' = dims /\ files' = files /\ input' = input
    BY DEF CrashStep, Ends
  <1>3. /\ SpeltOut' = SpeltOut /\ \A p : Readings(p)' = Readings(p)
        /\ NothingBeforeError' <=> NothingBeforeError
        /\ \A p : TwoPortSecond(p)' <=> TwoPortSecond(p)
    BY <1>2, MeaningFrame
  <1>4. CASE NoText
    <2>1. NothingBeforeError'
      BY <1>3, <1>4, NothingFact
    <2> QED BY <1>2, <2>1 DEF MeaningInv, ParsedIsMeant
  <1>5. CASE MissingArgument
    <2> DEFINE piece == Piece(SpeltOut, n + 1)
               c == Consumed(Scanned.left, Scanned.right)
    <2>1. dims \in Dims /\ files \in Files /\ tokens \in Seq(Token)
      BY DEF ParserTypeOK
    <2>2. /\ Scanned.left \in Standard \cup {Terminator}
          /\ Scanned.right \in Standard \cup {Terminator, NoStandard}
      BY <2>1, ScanStepType DEF Scanned
    <2>3. Readings(piece) = {} /\ BeginsWith(piece, c)
      <3>1. ReadUpTo(n) /\ Fails
        BY <1>1, <1>2
      <3> QED BY <3>1, FailedPiece, Zenon
    <2>4. TwoPortSecond(piece)
      BY <1>5, <2>1, <2>2, <2>3, SecondOfTwo
    <2>5. n + 1 \in Starts(SpeltOut)
      BY <1>1 DEF ReadUpTo
    <2>6. \A a \in Starts(SpeltOut) : a < n + 1 => Readings(Piece(SpeltOut, a)) # {}
      <3>1. \A a \in Starts(SpeltOut) : a \in Nat
        BY DEF Starts
      <3>2. \A a \in Starts(SpeltOut) : a < n + 1 => a \in Before(n)
        BY <3>1 DEF Before
      <3> QED BY <1>1, <3>2 DEF ReadUpTo
    <2>7. (\E b \in Starts(SpeltOut) :
             /\ TwoPortSecond(Piece(SpeltOut, b)) /\ Readings(Piece(SpeltOut, b)) = {}
             /\ \A a \in Starts(SpeltOut) : a < b => Readings(Piece(SpeltOut, a)) # {})'
      BY <1>3, <2>3, <2>4, <2>5, <2>6
    <2> QED BY <1>2, <2>7 DEF MeaningInv, ParsedIsMeant
  <1> QED BY <1>2, <1>4, <1>5

\* What follows a comma.
LEMMA FromNext ==
  ASSUME NEW T, NEW ts \in Seq(T), NEW n \in Nat, NEW c \in Seq(T), NEW us \in Seq(T),
         NEW x \in T, From(ts, n, c \o (<<x>> \o us))
  PROVE  From(ts, n + Len(c) + 1, us)
  <1> DEFINE vs == <<x>> \o us
  <1>1. /\ vs \in Seq(T) /\ Len(vs) = 1 + Len(us)
        /\ \A i \in 1..Len(us) : vs[1 + i] = us[i] /\ 1 + i \in 1..Len(vs)
    OBVIOUS
  <1> HIDE DEF vs
  <1>2. /\ Len(c \o vs) = Len(c) + Len(vs)
        /\ \A j \in 1..Len(vs) : /\ (c \o vs)[Len(c) + j] = vs[j]
                                 /\ Len(c) + j \in 1..Len(c \o vs)
    <2>1. Len(c \o vs) = Len(c) + Len(vs)
      BY <1>1, ConcatProperties
    <2>2. \A i \in 1..(Len(c) + Len(vs)) :
              (c \o vs)[i] = IF i <= Len(c) THEN c[i] ELSE vs[i - Len(c)]
      BY <1>1, ConcatProperties
    <2>3. \A j \in 1..Len(vs) : /\ Len(c) + j \in 1..(Len(c) + Len(vs))
                                /\ ~(Len(c) + j <= Len(c)) /\ (Len(c) + j) - Len(c) = j
      BY <1>1
    <2> QED BY <2>1, <2>2, <2>3
  <1>3. Len(ts) = n + Len(c \o vs) /\ \A i \in 1..Len(c \o vs) : ts[n + i] = (c \o vs)[i]
    BY DEF From, vs
  <1>4. Len(ts) = (n + Len(c) + 1) + Len(us)
    BY <1>1, <1>2, <1>3
  <1>5. ASSUME NEW i \in 1..Len(us) PROVE ts[(n + Len(c) + 1) + i] = us[i]
    <2>1. vs[1 + i] = us[i] /\ 1 + i \in 1..Len(vs)
      BY <1>1
    <2>2. (c \o vs)[Len(c) + (1 + i)] = us[i] /\ Len(c) + (1 + i) \in 1..Len(c \o vs)
      BY <1>2, <2>1
    <2>3. ts[n + (Len(c) + (1 + i))] = us[i]
      BY <1>3, <2>2
    <2>4. n + (Len(c) + (1 + i)) = (n + Len(c) + 1) + i
      OBVIOUS
    <2> QED BY <2>3, <2>4
  <1> QED BY <1>4, <1>5 DEF From

\* No piece begins within the step just read.
LEMMA BeforeNext ==
  ASSUME SpeltOut \in Seq(Plain), NEW n \in Nat, NEW w \in Nat,
         n + 1 \in Starts(SpeltOut),
         \A j \in (n + 1)..(n + w) : ~CommaAt(SpeltOut, j)
  PROVE  /\ Before(n + w + 1) = Before(n) \cup {n + 1}
         /\ Cardinality(Before(n + w + 1)) = Cardinality(Before(n)) + 1
         /\ Place(SpeltOut, n + 1) = Cardinality(Before(n)) + 1
         /\ \A b \in Before(n) : Place(SpeltOut, b) \in 1..Cardinality(Before(n))
  <1>1. \A a \in Starts(SpeltOut) : a \in Nat /\ (a = 1 \/ CommaAt(SpeltOut, a - 1))
    BY DEF Starts
  <1>2. \A a \in Starts(SpeltOut) : a <= n + w + 1 => a <= n \/ a = n + 1
    <2> SUFFICES ASSUME NEW a \in Starts(SpeltOut), a <= n + w + 1, a > n, a # n + 1
                 PROVE  FALSE
      BY <1>1
    <2>1. a - 1 \in (n + 1)..(n + w) /\ a # 1
      BY <1>1
    <2> QED BY <1>1, <2>1
  <1>3. \A a \in Starts(SpeltOut) : a <= n \/ a = n + 1 => a <= n + w + 1
    BY <1>1
  <1>4. Before(n + w + 1) = Before(n) \cup {n + 1}
    BY <1>2, <1>3 DEF Before
  <1>5. n + 1 \notin Before(n) /\ Before(n) \in SUBSET Starts(SpeltOut)
    BY DEF Before
  <1>6. IsFiniteSet(Before(n)) /\ Cardinality(Before(n)) \in Nat
    BY <1>5, StartsFinite
  <1>7. Cardinality(Before(n) \cup {n + 1}) = Cardinality(Before(n)) + 1
    BY <1>5, <1>6, FS_AddElement
  <1>8. {a \in Starts(SpeltOut) : a <= n + 1} = Before(n) \cup {n + 1}
    BY <1>1 DEF Before
  <1>9. \A b \in Before(n) : Place(SpeltOut, b) \in 1..Cardinality(Before(n))
    <2> SUFFICES ASSUME NEW b \in Before(n)
                 PROVE  Place(SpeltOut, b) \in 1..Cardinality(Before(n))
      OBVIOUS
    <2>1. b \in Starts(SpeltOut) /\ \A a \in Starts(SpeltOut) : a <= b => a \in Before(n)
      BY <1>1 DEF Before
    <2> QED BY <1>5, <2>1, StartsFinite
  <1> QED BY <1>4, <1>7, <1>8, <1>9 DEF Place

LEMMA GoodMeaning ==
  ASSUME ParserTypeOK, MeaningInv, GoodStep
  PROVE  MeaningInv'
  <1> DEFINE out == SpeltOut
             r == Scanned
             c == Consumed(r.left, r.right)
             us == Spelt(r.rest)
             new == Classify(dims, files, r.left, r.right)
  <1>1. dims \in Dims /\ files \in Files /\ tokens \in Seq(Token) /\ steps \in Seq(CalStep)
    BY DEF ParserTypeOK
  <1>2. PICK n \in Nat : ReadUpTo(n)
    BY DEF MeaningInv, GoodStep
  <1>3. out \in Seq(Plain) /\ Spelt(tokens) \in Seq(Plain)
    BY SpeltOutType
  <1>4. /\ r.left \in Standard \cup {Terminator}
        /\ r.right \in Standard \cup {Terminator, NoStandard}
        /\ r.rest \in Seq(Token)
    BY <1>1, ScanStepType DEF Scanned
  <1>5. c \in Seq(Plain) /\ Spelt(tokens) = c \o us
    BY <1>1, ScanStepReads DEF Scanned
  <1>6. \A i \in 1..Len(c) : ~CommaAt(c, i)
    BY <1>4, ConsumedIs
  <1>7. us \in Seq(Plain) /\ From(out, n, c \o us)
    BY <1>1, <1>2, <1>4, <1>5, SpeltStep DEF ReadUpTo
  <1>8. Accepts(dims, files, r.left, r.right)
    BY DEF GoodStep, Good
  <1>9. Readings(c) = {new}
    BY <1>1, <1>4, <1>8, GoodReading
  <1>10. new \in CalStep /\ steps' = Append(steps, new)
    BY <1>1, <1>4, <1>8, ClassifyType DEF GoodStep
  <1>11. r.rest # <<>> => /\ Head(r.rest) = "," /\ "," \in Plain
                          /\ us = <<",">> \o Spelt(Tail(r.rest))
                          /\ Tail(r.rest) \in Seq(Token)
    <2> SUFFICES ASSUME r.rest # <<>>
                 PROVE  /\ Head(r.rest) = "," /\ "," \in Plain
                        /\ us = <<",">> \o Spelt(Tail(r.rest))
                        /\ Tail(r.rest) \in Seq(Token)
      OBVIOUS
    <2>1. Current(r.rest) = Head(r.rest) /\ Head(r.rest) \in Token
      BY <1>4 DEF Current
    <2>2. "end" \notin Token
      BY IdentifierAssumption, Zenon DEF Token, Name, Standard, Builtin, OnePort, Macro
    <2>3. Head(r.rest) = ","
      BY <2>1, <2>2, Zenon DEF GoodStep
    <2>4. "," \in Plain /\ "," \notin Macro
      BY Zenon DEF Plain, Token, Macro
    <2> QED BY <1>1, <1>4, <2>3, <2>4, SpeltFirst, Zenon
  <1>12. r.rest = <<>> => us = <<>>
    BY <1>1, EmptyType, SpeltStep
  <1>13. us # <<>> => CommaAt(us, 1)
    <2> SUFFICES ASSUME us # <<>> PROVE CommaAt(us, 1)
      OBVIOUS
    <2>1. r.rest # <<>>
      BY <1>12
    <2>2. Spelt(Tail(r.rest)) \in Seq(Plain)
      BY <1>1, <1>11, <2>1, SpeltStep
    <2>3. \A x \in Plain, s \in Seq(Plain) :
              1 \in 1..Len(<<x>> \o s) /\ (<<x>> \o s)[1] = x
      OBVIOUS
    <2> QED BY <1>11, <2>1, <2>2, <2>3, Zenon DEF CommaAt
  <1> HIDE DEF c, us, new, out
  <1>14. Piece(out, n + 1) = c
    BY <1>3, <1>5, <1>6, <1>7, <1>13, PieceRead
  <1> DEFINE m == n + Len(c) + 1
  <1>15. \A j \in (n + 1)..(n + Len(c)) : ~CommaAt(out, j)
    <2> SUFFICES ASSUME NEW j \in (n + 1)..(n + Len(c)) PROVE ~CommaAt(out, j)
      OBVIOUS
    <2>1. j - n \in 1..Len(c) /\ j - n \in Nat /\ 1 <= j - n /\ j - n <= Len(c)
          /\ n + (j - n) = j /\ c \o us \in Seq(Plain)
      BY <1>5, <1>7
    <2>2. CommaAt(out, n + (j - n)) <=> CommaAt(c \o us, j - n)
      BY <1>3, <1>7, <2>1, FromComma
    <2>3. CommaAt(c \o us, j - n) <=> CommaAt(c, j - n)
      BY <1>5, <1>7, <2>1, ConcatComma
    <2> QED BY <1>6, <2>1, <2>2, <2>3
  <1>16. /\ Len(c) \in Nat /\ m \in Nat
         /\ Before(m) = Before(n) \cup {n + 1}
         /\ Cardinality(Before(m)) = Cardinality(Before(n)) + 1
         /\ Place(out, n + 1) = Cardinality(Before(n)) + 1
         /\ \A b \in Before(n) : Place(out, b) \in 1..Cardinality(Before(n))
    <2>1. Len(c) \in Nat
      BY <1>5
    <2>2. n + 1 \in Starts(SpeltOut) /\ SpeltOut \in Seq(Plain)
          /\ \A j \in (n + 1)..(n + Len(c)) : ~CommaAt(SpeltOut, j)
      BY <1>2, <1>3, <1>15 DEF ReadUpTo, out
    <2>3. m \in Nat
      BY <2>1
    <2> QED BY <2>1, <2>2, <2>3, BeforeNext DEF out
  <1>17. /\ Len(steps') = Len(steps) + 1 /\ steps'[Len(steps) + 1] = new
         /\ \A i \in 1..Len(steps) : steps'[i] = steps[i]
    BY <1>1, <1>10
  <1>18. /\ Len(steps') = Cardinality(Before(m))
         /\ \A b \in Before(m) : Readings(Piece(out, b)) = {steps'[Place(out, b)]}
    <2>1. Len(steps) = Cardinality(Before(n))
          /\ \A b \in Before(n) : Readings(Piece(out, b)) = {steps[Place(out, b)]}
      BY <1>2 DEF ReadUpTo, out
    <2>2. \A b \in Before(n) : Readings(Piece(out, b)) = {steps'[Place(out, b)]}
      BY <1>16, <1>17, <2>1
    <2>3. Readings(Piece(out, n + 1)) = {steps'[Place(out, n + 1)]}
      BY <1>9, <1>14, <1>16, <1>17, <2>1
    <2> QED BY <1>16, <1>17, <2>1, <2>2, <2>3
  <1>19. out' = out /\ (\A p : Readings(p)' = Readings(p)) /\ dims' = dims
    BY MeaningFrame DEF GoodStep, out
  <1> HIDE DEF m
  <1>20. CASE r.rest = <<>>
    <2>1. us = <<>> /\ status' = "accepted"
      BY <1>12, <1>20 DEF GoodStep
    <2>2. Len(out) = n + Len(c)
      BY <1>5, <1>7, <2>1 DEF From
    <2>3. Before(m) = Starts(out)
      <3>1. \A a \in Starts(out) : a <= m
        BY <2>2 DEF Starts, m
      <3> QED BY <3>1 DEF Before, out
    <2> QED BY <1>18, <1>19, <2>1, <2>3 DEF MeaningInv, ParsedIsMeant, out
  <1>21. CASE r.rest # <<>>
    <2> DEFINE vs == Spelt(Tail(r.rest))
    <2>1. us = <<",">> \o vs /\ "," \in Plain /\ vs \in Seq(Plain)
      BY <1>1, <1>11, <1>21, SpeltStep
    <2>2. status' = "step" /\ tokens' = Tail(r.rest)
      BY <1>21 DEF GoodStep
    <2>3. Spelt(tokens)' = vs
      BY <1>19, <2>2 DEF Spelt
    <2> HIDE DEF vs
    <2>4. From(out, m, vs)
      <3>1. From(out, n, c \o (<<",">> \o vs))
        BY <1>7, <2>1
      <3>2. \A x \in Plain : From(out, n, c \o (<<x>> \o vs)) => From(out, m, vs)
        BY <1>3, <1>5, <2>1, FromNext DEF m
      <3> QED BY <2>1, <3>1, <3>2, Zenon
    <2>5. m + 1 \in Starts(out)
      <3>0. us # <<>>
        <4>1. \A x \in Plain : <<x>> \o vs # <<>>
          <5> SUFFICES ASSUME NEW x \in Plain PROVE <<x>> \o vs # <<>>
            OBVIOUS
          <5>1. \A s, t \in Seq(Plain) : s # <<>> => s \o t # <<>>
            OBVIOUS
          <5>2. <<x>> \in Seq(Plain) /\ <<x>> # <<>>
            OBVIOUS
          <5> QED BY <2>1, <5>1, <5>2
        <4> QED BY <2>1, <4>1, Zenon
      <3>1. CommaAt(us, 1) /\ 1 <= Len(c) + 1 /\ Len(c) + 1 \in Nat
        BY <1>13, <1>16, <3>0
      <3>2. CommaAt(c \o us, Len(c) + 1)
        BY <1>5, <1>7, <3>1, ConcatComma
      <3>3. CommaAt(out, n + (Len(c) + 1)) /\ n + (Len(c) + 1) = m
        <4>1. c \o us \in Seq(Plain)
          BY <1>5, <1>7
        <4>2. CommaAt(out, n + (Len(c) + 1)) <=> CommaAt(c \o us, Len(c) + 1)
          BY <1>3, <1>7, <3>1, <4>1, FromComma
        <4> QED BY <1>16, <3>2, <4>2 DEF m
      <3>4. m \in 1..Len(out) /\ (m + 1) - 1 = m /\ m + 1 \in 1..(Len(out) + 1)
        <4>1. m \in 1..Len(out)
          BY <3>3, Zenon DEF CommaAt
        <4> QED BY <1>3, <1>16, <4>1
      <3> QED BY <3>3, <3>4 DEF Starts
    <2>6. PICK q \in Nat : q = m
      BY <1>16
    <2>7. ReadUpTo(q)'
      <3>1. /\ q + 1 \in Starts(out) /\ From(out, q, vs)
            /\ Len(steps') = Cardinality(Before(q))
            /\ \A b \in Before(q) : Readings(Piece(out, b)) = {steps'[Place(out, b)]}
        BY <1>18, <2>4, <2>5, <2>6
      <3>2. Before(q)' = Before(q)
        BY <1>19 DEF Before, out
      <3> QED BY <1>19, <2>3, <3>1, <3>2 DEF ReadUpTo, out
    <2> QED BY <2>2, <2>7 DEF MeaningInv, ParsedIsMeant
  <1> QED BY <1>20, <1>21

\* Nothing is read yet.
Unread ==
    ParserTypeOK /\ tokens = input /\ steps = <<>> /\ status \in {"idle", "step"}

LEMMA UnreadMeaning == Unread => MeaningInv
  <1> SUFFICES ASSUME ParserTypeOK, tokens = input, steps = <<>>, status \in {"idle", "step"}
               PROVE  MeaningInv
    BY DEF Unread
  <1>1. SpeltOut \in Seq(Plain) /\ Spelt(tokens) = SpeltOut
    BY SpeltOutType DEF SpeltOut
  <1>2. 0 + 1 \in Starts(SpeltOut) /\ Before(0) = {}
    BY <1>1, StartsFinite DEF Before
  <1>3. From(SpeltOut, 0, SpeltOut)
    BY <1>1 DEF From
  <1>4. Len(steps) = Cardinality(Before(0))
    BY <1>2, FS_EmptySet
  <1>5. ReadUpTo(0)
    BY <1>1, <1>2, <1>3, <1>4 DEF ReadUpTo
  <1> QED BY <1>5 DEF MeaningInv, ParsedIsMeant

LEMMA UnreadMeaningNext == Unread' => MeaningInv'
  BY UnreadMeaning, PTL

LEMMA ParserUnchanged ==
  MeaningInv /\ UNCHANGED parserVars => MeaningInv'
  <1> SUFFICES ASSUME MeaningInv, UNCHANGED parserVars PROVE MeaningInv'
    OBVIOUS
  <1>1. /\ dims' = dims /\ files' = files /\ input' = input
        /\ tokens' = tokens /\ steps' = steps /\ status' = status
    BY DEF parserVars
  <1>2. SpeltOut' = SpeltOut /\ (\A p : Readings(p)' = Readings(p))
        /\ Spelt(tokens)' = Spelt(tokens)
    BY <1>1, MeaningFrame DEF Spelt
  <1>3. /\ NothingBeforeError' <=> NothingBeforeError
        /\ \A p : TwoPortSecond(p)' <=> TwoPortSecond(p)
    BY <1>1, MeaningFrame
  <1>4. ParsedIsMeant'
    BY <1>1, <1>2, <1>3 DEF MeaningInv, ParsedIsMeant
  <1>5. ASSUME NEW n \in Nat, ReadUpTo(n) PROVE ReadUpTo(n)'
    BY <1>1, <1>2, <1>5 DEF ReadUpTo, Before
  <1> QED BY <1>1, <1>4, <1>5 DEF MeaningInv

LEMMA ParseMeaning ==
  ASSUME ParserTypeOK, MeaningInv, ParseNext
  PROVE  MeaningInv'
  BY GoodMeaning, BadMeaning, CrashMeaning DEF ParseNext

\* The inductive invariant of the parser by itself.
ParserInv == ParserTypeOK /\ StepsInv /\ MeaningInv

LEMMA ParserInitInv == ParserInit => ParserInv
  <1> SUFFICES ASSUME ParserInit PROVE ParserInv
    OBVIOUS
  <1>1. ParserTypeOK
    BY EmptyType DEF ParserInit, ParserTypeOK
  <1>2. StepsInv
    BY DEF ParserInit, StepsInv
  <1>3. MeaningInv
    BY <1>1, UnreadMeaning DEF Unread, ParserInit
  <1> QED BY <1>1, <1>2, <1>3 DEF ParserInv

LEMMA ParserStepInv == ParserInv /\ [ParserStep]_parserVars => ParserInv'
  <1> SUFFICES ASSUME ParserInv, [ParserStep]_parserVars PROVE ParserInv'
    OBVIOUS
  <1>1. ASSUME NEW s \in Spelling, StartParse(dims, files, s) PROVE ParserInv'
    <2>1. ParserTypeOK'
      <3>1. s \in Seq(Token)
        BY SpellingAssumption
      <3>2. steps' \in Seq(CalStep)
        BY <1>1, EmptyType DEF StartParse
      <3> QED BY <1>1, <3>1, <3>2 DEF StartParse, ParserTypeOK, ParserInv
    <2>2. StepsInv'
      BY <1>1 DEF StartParse, StepsInv
    <2>3. MeaningInv'
      BY <1>1, <2>1, UnreadMeaningNext DEF Unread, StartParse
    <2> QED BY <2>1, <2>2, <2>3 DEF ParserInv
  <1>2. CASE ParseNext
    BY <1>2, ParseNextType, ParseMeaning DEF ParserInv
  <1>3. CASE UNCHANGED parserVars
    <2>1. ParserTypeOK' /\ StepsInv'
      BY <1>3 DEF ParserInv, ParserTypeOK, StepsInv, parserVars
    <2> QED BY <1>3, <2>1, ParserUnchanged DEF ParserInv
  <1> QED BY <1>1, <1>2, <1>3 DEF ParserStep

(***************************************************************************)
(* Whatever the strings, the setup and the files: if the parser by itself  *)
(* accepts a string, every piece of it has a reading and the steps         *)
(* returned are those readings, in order; if it refuses one, some piece    *)
(* has none and there is something to show before the error; and it        *)
(* crashes the program only on a string with nothing before the error or   *)
(* with a two-port second standard (cal_standard.c).                       *)
(***************************************************************************)
THEOREM ParserCorrect == ParserSpec => []ParsedIsMeant
  <1>1. ParserInv => ParsedIsMeant
    BY DEF ParserInv, MeaningInv
  <1> QED BY <1>1, ParserInitInv, ParserStepInv, PTL DEF ParserSpec

\* Within the calibrate command only a new command or a return resets it.
LEMMA CommandMeaning == Inv /\ MeaningInv /\ [Next]_vars => MeaningInv'
  <1> SUFFICES ASSUME Inv, MeaningInv, [Next]_vars PROVE MeaningInv'
    OBVIOUS
  <1>0. Inv'
    BY StepInv
  <1>1. CASE UNCHANGED parserVars
    BY <1>1, ParserUnchanged
  <1>2. ASSUME NEW d \in Dims, NEW f \in Files, NEW s \in Spelling, StartCalibrate(d, f, s)
        PROVE  MeaningInv'
    BY <1>0, <1>2, UnreadMeaningNext DEF Unread, StartCalibrate, StartParse, Inv, TypeOK
  <1>3. CASE Parse \/ ParseCrashes
    BY <1>3, ParseMeaning DEF Parse, ParseCrashes, ParseNext, Inv, TypeOK
  <1>4. CASE Return
    BY <1>0, <1>4, UnreadMeaningNext DEF Unread, Return, Inv, TypeOK
  <1>5. CASE Restart
    BY <1>0, <1>5, UnreadMeaningNext DEF Unread, Restart, Inv, TypeOK
  <1>6. CASE Command
    BY <1>1, <1>2, <1>6 DEF Command, StartMeasure
  <1>7. CASE Program
    <2>1. Program => \/ Parse \/ ParseCrashes \/ Return \/ UNCHANGED parserVars
      BY DEF Program, Parsed, ParseFails, Instruct, NullStandard, SwitchFails, Prompt, NoPrompt,
             Scan, ScanFails, ScanFailsUnnoticed, Add, AddRefused, Finish, FinishFails
    <2> QED BY <1>1, <1>3, <1>4, <1>7, <2>1
  <1>8. CASE Operator
    BY <1>1, <1>4, <1>8 DEF Operator, FollowOne, Acknowledge, Cancel, Rewire
  <1>9. CASE UNCHANGED vars
    BY <1>1, <1>9 DEF vars
  <1> QED BY <1>5, <1>6, <1>7, <1>8, <1>9 DEF Next

(***************************************************************************)
(* So it does within the calibrate command, whatever failed before and     *)
(* whatever happens to the steps it has returned.                          *)
(***************************************************************************)
THEOREM ParsedCorrect == Spec => []ParsedIsMeant
  <1>1. Init => MeaningInv
    BY InitInv, UnreadMeaning DEF Unread, Init, ParserInit, Inv, TypeOK
  <1>2. MeaningInv => ParsedIsMeant
    BY DEF MeaningInv
  <1> QED BY <1>1, <1>2, Invariance, CommandMeaning, PTL DEF Spec
===============================================================================
