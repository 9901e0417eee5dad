--------------------------- MODULE StandardsMeaning ---------------------------
(***************************************************************************)
(* What a -S string means, stated without a parser: spell out the          *)
(* abbreviations, cut the string at its commas and read each piece by      *)
(* itself.  The parser of cal_standard.c, which expands abbreviations in   *)
(* place as it meets them and scans with one token of look-ahead, is       *)
(* compared with it.                                                       *)
(***************************************************************************)
EXTENDS StandardsParser, SequencesExt

(***************************************************************************)
(* The parser by itself, on the strings of Spelling.                       *)
(***************************************************************************)
ParserStep ==
    \/ status = "idle" /\ \E s \in Spelling : StartParse(dims, files, s)
    \/ ParseNext

ParserSpec == ParserInit /\ [][ParserStep]_parserVars

-----------------------------------------------------------------------------
Spelt(ts) ==
    FlattenSeq([i \in 1..Len(ts) |->
        IF ts[i] \in Macro THEN Expansion(ts[i], dims) ELSE <<ts[i]>>])

SpeltOut == Spelt(input)

\* There is a comma at position i of ts.
CommaAt(ts, i) == i \in 1..Len(ts) /\ ts[i] = ","

\* Where the pieces begin: at the first token and after each comma.
Starts(ts) == {i \in 1..(Len(ts) + 1) : i = 1 \/ CommaAt(ts, i - 1)}

\* The piece of ts that begins at b.
Piece(ts, b) ==
    LET last == CHOOSE e \in (b - 1)..Len(ts) :
                    /\ e = Len(ts) \/ CommaAt(ts, e + 1)
                    /\ \A j \in b..e : ~CommaAt(ts, j)
    IN  SubSeq(ts, b, last)

\* Which piece of ts it is.
Place(ts, b) == Cardinality({a \in Starts(ts) : a <= b})

OneStep(type, left, right) == [type |-> type, standards |-> <<left, right>>]

(***************************************************************************)
(* The readings of a piece: none, or one.  A name alone is a standard for  *)
(* all the ports of the setup, or a reflect standard on probe 1 of a setup *)
(* of two rows; two names, or a name and a missing one, are two reflect    *)
(* standards.                                                              *)
(***************************************************************************)
Readings(p) ==
    LET Reflects(s) == s \in Standard /\ Ports(files, s) = 1
        two == dims.rows = 2
    IN  {OneStep("SINGLE_REFLECT", x, IF two THEN Terminator ELSE NoStandard) :
            x \in {s \in Standard : p = <<s>> /\ Reflects(s)}}
        \cup
        {OneStep(IF x = "T" THEN "THROUGH" ELSE "LINE", x, NoStandard) :
            x \in {s \in Standard : p = <<s>> /\ two /\ Ports(files, s) = 2}}
        \cup
        {OneStep("SINGLE_REFLECT", x, Terminator) :
            x \in {s \in Standard : p = <<s, "-">> /\ Reflects(s)}}
        \cup
        {OneStep("SINGLE_REFLECT", Terminator, x) :
            x \in {s \in Standard : p = <<"-", s>> /\ Reflects(s)}}
        \cup
        {OneStep("DOUBLE_REFLECT", x[1], x[2]) :
            x \in {s \in Standard \X Standard :
                      /\ p = <<s[1], "-", s[2]>>
                      /\ Reflects(s[1]) /\ Reflects(s[2])}}

(***************************************************************************)
(* The strings that cal_standard.c fails to refuse: those in which nothing *)
(* stands before the error, which print_here cannot show (line 251), and   *)
(* those with a second standard of two ports after a dash, whose message   *)
(* lacks an argument (line 674).                                           *)
(***************************************************************************)
NothingBeforeError == input = <<>> \/ Head(input) = "?"

TwoPortSecond(p) ==
    LET Is(ports, i) ==
            i \in 1..Len(p) /\ p[i] \in Standard /\ Ports(files, p[i]) = ports
    IN  \/ Is(2, 2) /\ p[1] = "-"
        \/ Is(2, 3) /\ p[2] = "-" /\ Is(1, 1)

(***************************************************************************)
(* The parser accepts exactly the strings of which every piece has a       *)
(* reading, and the steps it returns are those readings, in order.  A      *)
(* string it refuses has a piece without a reading and something to show   *)
(* before the error; the program crashes only if there is nothing, or if   *)
(* the first piece without a reading has a two-port second standard.       *)
(* (cal_standards_parse, parse_calibration_step, parse_standard,           *)
(* scan_substitute and print_here)                                         *)
(***************************************************************************)
ParsedIsMeant ==
    LET starts == Starts(SpeltOut)
        Read(b) == Readings(Piece(SpeltOut, b))
    IN  /\ status = "accepted" =>
               /\ Len(steps) = Cardinality(starts)
               /\ \A b \in starts : Read(b) = {steps[Place(SpeltOut, b)]}
        /\ status = "rejected" =>
               ~NothingBeforeError /\ \E b \in starts : Read(b) = {}
        /\ status = "crashed" =>
               \/ NothingBeforeError
               \/ \E b \in starts :
                      /\ TwoPortSecond(Piece(SpeltOut, b)) /\ Read(b) = {}
                      /\ \A a \in starts : a < b => Read(a) # {}

===============================================================================
