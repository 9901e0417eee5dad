----------------------------- MODULE MCStandards -----------------------------
(***************************************************************************)
(* Every -S string of up to four tokens over a small alphabet, which has a *)
(* one-port and a two-port built-in standard, an abbreviation, a           *)
(* user-defined standard and all the punctuation.                          *)
(***************************************************************************)
EXTENDS StandardsMeaning

Alphabet == {"S", "T", "SOLT", "foo", "-", ",", "?"}

MCSpelling == UNION {[1..n -> Alphabet] : n \in 0..4}
===============================================================================
