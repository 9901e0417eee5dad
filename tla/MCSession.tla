------------------------------ MODULE MCSession -------------------------------
(***************************************************************************)
(* The protocol bounds itself: one session of any number of commands, each *)
(* with any number of prompts, has finitely many states.                   *)
(***************************************************************************)
EXTENDS Session
===============================================================================
