------------------------------ MODULE MCSetupStore -----------------------------
(***************************************************************************)
(* Two names and the setups of the example in properties.c, with texts,    *)
(* edited versions and bad ones, for SetupStore.                           *)
(***************************************************************************)
EXTENDS SetupStore

V(kind, r, c) == [kind |-> kind, row |-> r, col |-> c]
M(code, d1, d2) == [sw |-> code, det |-> <<d1, d2>>]
S(name, text, last, meas) ==
    [name |-> name, text |-> text, textLast |-> last, meas |-> meas]
D(rows, cols, steps) ==
    [rows |-> rows, cols |-> cols, steps |-> steps, broken |-> FALSE]
E(name, doc) == [name |-> name, doc |-> doc]

Bridge == D(2, 1, << S(None, None, FALSE,
                       << M(NoSwitch, V("b", 1, 1), V("b", 2, 1)) >>) >>)
\* Two measurements, the first of which alone would do for a 1x1 setup.
Switched == D(1, 1, << S(None, None, FALSE,
                         << M(0, V("b", 1, 1), NoVector),
                            M(1, V("a", 1, 1), NoVector) >>) >>)
Steps(n1, t1, n2, t2, last) ==
    D(2, 1, << S(n1, t1, last, << M(NoSwitch, V("b", 1, 1), NoVector) >>),
               S(n2, t2, last, << M(NoSwitch, V("b", 2, 1), NoVector) >>) >>)
Texts == Steps("reflection", "turn left", "transmission", "turn right", TRUE)
TextFirst == Steps("reflection", "turn", "transmission", "turn", FALSE)
SameText == Steps("reflection", "turn", "transmission", "turn", TRUE)
BadVectors == D(2, 1, << S(None, None, FALSE,
                           << M(NoSwitch, V("b", 1, 1), V("b", 1, 2)) >>) >>)
Broken == [Bridge EXCEPT !.broken = TRUE]

MCLabel == {"reflection", "transmission", "turn left", "turn right", "turn"}
MCHandFiles ==
    {<< E("s1", Bridge), E("s2", Texts) >>, << E("s1", Switched), E("s2", Broken) >>}
MCInputs ==
    {<< E("s1", Switched) >>, << E("s2", SameText) >>, << E("s1", BadVectors) >>,
     << E("s2", TextFirst), E("s1", BadVectors) >>}
MCDefaultRB ==
    [rows |-> 2, cols |-> 1,
     steps |-> << [name |-> None, text |-> None,
                   meas |-> << M(NoSwitch, V("b", 1, 1), V("b", 2, 1)) >>] >>]
MCSwitchCode == 0..1
===============================================================================
