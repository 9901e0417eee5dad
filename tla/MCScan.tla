-------------------------------- MODULE MCScan --------------------------------
(***************************************************************************)
(* Scans of one and of two frequencies of two phases each: the longer one  *)
(* changes the frequency while two of its settings are outstanding.  Three *)
(* tries, one more than the old replies and the pause that may come before *)
(* an answer.                                                              *)
(***************************************************************************)
EXTENDS Scan
===============================================================================
