------------------------------- MODULE MCVnaOpen -------------------------------
(***************************************************************************)
(* Two VNAs of different models and up to two configurations, the first    *)
(* being the default of both models; each .cfg says which are there.       *)
(***************************************************************************)
EXTENDS VnaOpen, TLC

CONSTANTS c1, c2, d1, d2, m1, m2

MCModelOf == d1 :> m1 @@ d2 :> m2
MCDefaultConfig == [m \in {m1, m2} |-> c1]
===============================================================================
