---------------------------- MODULE MCParseAddress ----------------------------
(***************************************************************************)
(* Every unit address of up to six tokens (n2pkvna.3 has "0547:,2/1") over *)
(* a vendor, a product, a number that may be either or a place, zero, and  *)
(* a word that is no number.  The first two are no 8-bit decimal numbers.  *)
(***************************************************************************)
EXTENDS ParseAddress

MCWord == {"0547", "100b", "2", "0", "zz"}
MCHex == [w \in MCWord |->
             CASE w = "0547" -> 1351 [] w = "100b" -> 4107
               [] w = "2" -> 2 [] w = "0" -> 0 [] w = "zz" -> Bad]
MCDec == [w \in MCWord |-> CASE w = "2" -> 2 [] w = "0" -> 0 [] OTHER -> Bad]

\* The longer strings have fewer words and no errors.
MCSpelling ==
    UNION {[1..n -> Token] : n \in 0..4}
    \cup [1..5 -> Token \ {"?", "zz"}]
    \cup [1..6 -> {"0547", "2", ":", ".", "/", ","}]

\* VNAs of two vendors and products in two places, one of them no N2PK.
MCUsb ==
    {d \in [Field -> {1, 2, 1351, 4107}] :
        /\ d["vendor"] \in {2, 1351} /\ d["product"] \in {2, 4107}
        /\ \A f \in {"bus", "device", "port"} : d[f] \in {1, 2}}
===============================================================================
