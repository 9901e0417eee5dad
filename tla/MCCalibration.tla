---------------------------- MODULE MCCalibration ----------------------------
(***************************************************************************)
(* The -S strings for Calibration: both abbreviations, and lists in which  *)
(* standards follow each other in the ways that decide the instructions:   *)
(* the same again, exchanged, one probe kept, a two-port standard between, *)
(* a one-port standard alone after one with two names, the terminator      *)
(* after nothing; and two on which the parser crashes.                     *)
(***************************************************************************)
EXTENDS Calibration

MCSpelling ==
    {<<"SOLT">>, <<"OSLT">>, <<"T", ",", "T", ",", "foo", ",", "T">>,
     <<"S", "-", "O", ",", "O", "-", "S", ",", "O", "-", "O">>,
     <<"S", "-", ",", "O", "-", "S", ",", "-", "foo">>,
     <<"S", "-", "O", ",", "S">>, <<"M", "-", "S", "-">>,
     <<"S", ",", "O", "-">>, <<>>, <<"S", "-", ",", "O", "-", "T">>}
===============================================================================
