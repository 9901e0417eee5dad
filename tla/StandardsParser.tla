--------------------------- MODULE StandardsParser ---------------------------
(***************************************************************************)
(* The -S option of the calibrate command (cal_standard.c): a list of      *)
(* calibration steps such as "S-,-O,S-O,T,foo" or the abbreviations SOLT   *)
(* and OSLT, parsed for the dimensions of the chosen setup.                *)
(*                                                                         *)
(* The scanner's tokens are the model's atoms: the built-in standards M,   *)
(* O, S and T, the two abbreviations, the names of user-defined standards, *)
(* the dash, the comma, and "?" for a character the scanner rejects.       *)
(* Blanks are left out.  One step of the model is one turn of the loop of  *)
(* cal_standards_parse.                                                    *)
(***************************************************************************)
EXTENDS Integers, Sequences, FiniteSets

CONSTANTS
    Identifier, \* names of user-defined standards
    Spelling    \* the strings given to -S, as sequences of tokens

VARIABLES
    dims,   \* rows and columns of the setup
    files,  \* ports of the standard in each file, 0 if it cannot be loaded
    input,  \* the string given
    tokens, \* what is left to scan, the current token first
    steps,  \* csl_steps
    status  \* of the parse

parserVars == <<dims, files, input, tokens, steps, status>>

OnePort == {"M", "O", "S"}
Builtin == OnePort \cup {"T"}
Macro == {"SOLT", "OSLT"}
Terminator == "terminator"
NoStandard == "none"

Standard == Builtin \cup Identifier
Name == Standard \cup Macro        \* is_name
Token == Name \cup {"-", ",", "?"}

ASSUME IdentifierAssumption ==
    Identifier \cap (Builtin \cup Macro \cup
        {"-", ",", "?", "end", "DUT", Terminator, NoStandard}) = {}

ASSUME SpellingAssumption == Spelling \subseteq Seq(Token)

Dims == [rows : 1..2, cols : 1..2]
Files == [Identifier -> 0..2]

\* cs_ports; 0 stands for a standard get_standard cannot find or load.
Ports(f, s) ==
    CASE s \in OnePort \cup {Terminator} -> 1
      [] s = "T" -> 2
      [] s \in Identifier -> f[s]
      [] OTHER -> 0

-----------------------------------------------------------------------------
(***************************************************************************)
(* Scanner.                                                                *)
(***************************************************************************)
Current(ts) == IF ts = <<>> THEN "end" ELSE Head(ts)

\* "x-," and "-x,": a reflect standard on probe 1 or 2.
OnProbe1(x) == <<x, "-", ",">>
OnProbe2(x) == <<"-", x, ",">>

Expansion(macro, d) ==
    LET a == IF macro = "SOLT" THEN "S" ELSE "O"
        b == IF macro = "SOLT" THEN "O" ELSE "S"
    IN  CASE d.rows * d.cols = 1 -> <<a, ",", b, ",", "M">>
          [] d.rows * d.cols = 2 ->
                 OnProbe1(a) \o (OnProbe1(b) \o (OnProbe1("M") \o <<"T">>))
          [] d.rows * d.cols = 4 ->
                 OnProbe1(a) \o (OnProbe2(a) \o (OnProbe2(b) \o (OnProbe1(b)
                     \o (OnProbe2("M") \o (OnProbe1("M") \o <<"T">>)))))

\* scan_substitute: an abbreviation is replaced in place and scanned again.
Substitute(ts, d) ==
    IF Current(ts) \in Macro THEN Expansion(Head(ts), d) \o Tail(ts) ELSE ts

(***************************************************************************)
(* parse_calibration_step: what the current step says, "left-right", and   *)
(* what remains.  A missing name next to a dash is the terminator.         *)
(***************************************************************************)
ScanStep(ts, d) ==
    LET named  == Current(ts) \in Name
        at     == IF named THEN Substitute(ts, d) ELSE ts
        left   == IF named THEN Head(at) ELSE Terminator
        after  == IF named THEN Tail(at) ELSE at
        dash   == Current(after) = "-"
        next   == IF dash THEN Substitute(Tail(after), d) ELSE after
        right  == IF ~dash THEN NoStandard
                  ELSE IF Current(next) \in Name THEN Head(next)
                  ELSE Terminator
    IN  [left |-> left, right |-> right,
         rest |-> IF right \in Standard THEN Tail(next) ELSE next]

(***************************************************************************)
(* A lone one-port standard is a reflect standard on probe 1 when the      *)
(* setup has more than one row.                                            *)
(***************************************************************************)
LoneReflect(d, f, left, right) ==
    right = NoStandard /\ Ports(f, left) = 1 /\ d.rows > 1

\* Mutant: a lone standard is not compared with the setup.
AcceptsAnyLone(d, f, left, right) ==
    /\ {left, right} \cap Standard # {}
    /\ \A s \in {left, right} \ {NoStandard} : Ports(f, s) > 0
    /\ right # NoStandard => Ports(f, left) = 1 /\ Ports(f, right) = 1

\* The step is accepted.
Accepts(d, f, left, right) ==
    /\ {left, right} \cap Standard # {}
    /\ \A s \in {left, right} \ {NoStandard} : Ports(f, s) > 0
    /\ \/ right = NoStandard /\ Ports(f, left) = d.rows
       \/ LoneReflect(d, f, left, right)
       \/ right # NoStandard /\ Ports(f, left) = 1 /\ Ports(f, right) = 1

StepType == {"SINGLE_REFLECT", "DOUBLE_REFLECT", "THROUGH", "LINE"}
CalStep ==
    [type : StepType,
     standards : (Standard \cup {Terminator}) \X
                 (Standard \cup {Terminator, NoStandard})]

\* Mutant: an arbitrary two-port standard is given no type.
ForgetsLine(d, f, left, right) ==
    LET second == IF LoneReflect(d, f, left, right) THEN Terminator ELSE right
    IN  [type |-> IF Terminator \in {left, second} THEN "SINGLE_REFLECT"
                  ELSE IF second # NoStandard THEN "DOUBLE_REFLECT"
                  ELSE IF Ports(f, left) = 1 THEN "SINGLE_REFLECT"
                  ELSE IF left = "T" THEN "THROUGH"
                  ELSE "INVALID",
         standards |-> <<left, second>>]

\* cst_type and cst_standards
Classify(d, f, left, right) ==
    LET second == IF LoneReflect(d, f, left, right) THEN Terminator ELSE right
    IN  [type |-> IF Terminator \in {left, second} THEN "SINGLE_REFLECT"
                  ELSE IF second # NoStandard THEN "DOUBLE_REFLECT"
                  ELSE IF Ports(f, left) = 1 THEN "SINGLE_REFLECT"
                  ELSE IF left = "T" THEN "THROUGH"
                  ELSE "LINE",
         standards |-> <<left, second>>]

-----------------------------------------------------------------------------
ParserInit ==
    /\ dims \in Dims /\ files \in Files
    /\ input = <<>> /\ tokens = <<>> /\ steps = <<>>
    /\ status = "idle"

StartParse(d, f, s) ==
    /\ dims' = d /\ files' = f
    /\ input' = s /\ tokens' = s
    /\ steps' = <<>>
    /\ status' = "step"

Scanned == ScanStep(tokens, dims)
Good == Accepts(dims, files, Scanned.left, Scanned.right)

\* One more step and the list goes on after the comma, or ends.
GoodStep ==
    /\ status = "step" /\ Good
    /\ Current(Scanned.rest) \in {",", "end"}
    /\ steps' = Append(steps,
                       Classify(dims, files, Scanned.left, Scanned.right))
    /\ IF Scanned.rest = <<>>
       THEN status' = "accepted" /\ tokens' = <<>>
       ELSE status' = "step" /\ tokens' = Tail(Scanned.rest)
    /\ UNCHANGED <<dims, files, input>>

\* A syntax error, a standard that does not fit or that cannot be loaded.
Fails == ~Good \/ Current(Scanned.rest) \notin {",", "end"}

\* Nothing scanned so far has a text: the first token is the end of the string
\* or rejected, so the first step fails, and print_here, which is to show the
\* place, follows the null pointer ss_text.
NoText == Current(input) \in {"end", "?"}

\* The message about a second standard of two ports has one argument for its
\* two "%s": what printing it does is undefined.
MissingArgument ==
    Ports(files, Scanned.left) = 1 /\ Ports(files, Scanned.right) = 2

\* The parse ends without a list.
Ends(how) ==
    /\ status' = how
    /\ tokens' = <<>>
    /\ UNCHANGED <<dims, files, input, steps>>

\* The error is reported and the list of steps freed.
BadStep ==
    /\ status = "step" /\ Fails /\ ~NoText
    /\ Ends("rejected")

\* Reporting the error crashes the program.
CrashStep ==
    /\ status = "step" /\ Fails
    /\ NoText \/ MissingArgument
    /\ Ends("crashed")

ParseNext == GoodStep \/ BadStep \/ CrashStep

ParserTypeOK ==
    /\ dims \in Dims
    /\ files \in Files
    /\ input \in Seq(Token)
    /\ tokens \in Seq(Token)
    /\ steps \in Seq(CalStep)
    /\ status \in {"idle", "step", "accepted", "rejected", "crashed"}
===============================================================================
