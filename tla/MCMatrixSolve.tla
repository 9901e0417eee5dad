----------------------------- MODULE MCMatrixSolve -----------------------------
(***************************************************************************)
(* The hardware setups of doc/html/setup.html, and some that measure a     *)
(* vector twice or only part of A, for MatrixSolve.                        *)
(***************************************************************************)
EXTENDS MatrixSolve

V(k, r, c) == [kind |-> k, row |-> r, col |-> c]
M(code, d1, d2) == [sw |-> code, det |-> <<d1, d2>>]
OneStep(rows, cols, meas) ==
    [rows |-> rows, cols |-> cols, steps |-> << [named |-> FALSE, meas |-> meas] >>]

\* rb_2x1, s_2x2, a single detector 1x2 and the reference detectors 2x2.
Bridge == OneStep(2, 1, << M(NoSwitch, V("b", 1, 1), V("b", 2, 1)) >>)
TestSet == OneStep(2, 2, << M(0, V("b", 1, 1), V("b", 2, 1)),
                            M(1, V("b", 1, 2), V("b", 2, 2)) >>)
Single == OneStep(1, 2, << M(0, V("b", 1, 1), NoVector),
                           M(1, V("b", 1, 2), NoVector) >>)
References == OneStep(2, 2, << M(0, V("a", 1, 1), V("b", 1, 1)),
                               M(1, V("a", 2, 2), V("b", 2, 1)),
                               M(2, V("b", 2, 2), V("b", 1, 2)),
                               M(3, V("a", 1, 2), V("b", 2, 2)) >>)
\* b11 and a11 in two measurements each, a21 (which column systems drop).
Twice == OneStep(2, 1, << M(0, V("a", 1, 1), V("b", 1, 1)),
                          M(1, V("b", 1, 1), V("b", 2, 1)),
                          M(2, V("a", 1, 1), V("a", 2, 1)) >>)
Reference1x2 == OneStep(1, 2, << M(0, V("a", 1, 1), V("b", 1, 1)),
                                 M(1, V("a", 1, 2), V("b", 1, 2)) >>)
\* rfiv_2x1, and a single voltage detector.
RFIV == OneStep(2, 1, << M(0, V("v", 1, 1), V("b", 2, 1)),
                         M(1, V("i", 1, 1), V("b", 2, 1)) >>)
Voltage == OneStep(1, 1, << M(NoSwitch, V("v", 1, 1), NoVector) >>)

Defs == [bridge |-> Bridge, testset |-> TestSet, single |-> Single,
         references |-> References, twice |-> Twice,
         reference1x2 |-> Reference1x2, rfiv |-> RFIV, voltage |-> Voltage]

MCSwitchCode == 0..3
MCSetup == DOMAIN Defs
MCSetupDef == Defs
RFIVOnly == {"rfiv"}
===============================================================================
