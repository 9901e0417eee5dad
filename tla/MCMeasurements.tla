---------------------------- MODULE MCMeasurements ----------------------------
(***************************************************************************)
(* Three setups for Measurements: the two of the example in properties.c,  *)
(* and one whose steps overlap, so that measurements become useless before *)
(* they are made.                                                          *)
(***************************************************************************)
EXTENDS Measurements

V(k, r, c) == [kind |-> k, row |-> r, col |-> c]
M(code, d1, d2) == [sw |-> code, det |-> <<d1, d2>>]

\* single_detector_2x2
Single2x2 ==
    [rows |-> 2, cols |-> 2, steps |->
       << [named |-> TRUE, meas |-> << M(0, V("b", 1, 1), NoVector),
                                       M(1, V("b", 2, 2), NoVector) >>],
          [named |-> TRUE, meas |-> << M(0, V("b", 1, 2), NoVector),
                                       M(1, V("b", 2, 1), NoVector) >>] >>]

\* reflection_bridge
Bridge2x1 ==
    [rows |-> 2, cols |-> 1, steps |->
       << [named |-> FALSE, meas |->
              << M(NoSwitch, V("b", 1, 1), V("b", 2, 1)) >>] >>]

\* Overlapping steps, current vectors, a step without switches.
Overlap2x1 ==
    [rows |-> 2, cols |-> 1, steps |->
       << [named |-> TRUE, meas |-> << M(1, V("b", 1, 1), V("a", 1, 1)),
                                       M(0, V("b", 1, 1), V("b", 2, 1)) >>],
          [named |-> TRUE, meas |->
              << M(NoSwitch, V("i", 1, 1), V("a", 1, 1)) >>] >>]

MCSetup == {"single", "bridge", "overlap"}
MCSetupDef == [s \in MCSetup |-> CASE s = "single"  -> Single2x2
                                   [] s = "bridge"  -> Bridge2x1
                                   [] s = "overlap" -> Overlap2x1]
===============================================================================
