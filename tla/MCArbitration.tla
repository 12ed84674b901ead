--------------------------- MODULE MCArbitration ---------------------------
(* Model values and product tables for checking Arbitration with TLC.      *)
EXTENDS Arbitration, TLC

CONSTANTS d1, d2, con, ext, can

MCAction == [f \in Followups |-> CASE f = con -> "CON"
                                   [] f = ext -> "EXT"
                                   [] f = can -> "CAN"]
MCOrder  == [f \in Followups |-> CASE f = con -> 1 [] f = ext -> 2 [] f = can -> 3]

DestSymmetry == Permutations({d1, d2})
=============================================================================
