-------------------------------- MODULE MCOms --------------------------------
(***************************************************************************)
(* Three orders at two prices on the tick and one off it.  One party has    *)
(* both assets, one little cash.  The second schedule changes which role    *)
(* pays more.                                                              *)
(***************************************************************************)
EXTENDS Oms, TLC

CONSTANTS p1, p2
MCParties == {p1, p2}
MCPrices == 2..4
MCQuantities == 1..2
MCSchedules == <<[maker |-> 100000, taker |-> 300000], [maker |-> 900000, taker |-> 0]>>
MCFunds == (p1 :> [BUY |-> 20, SELL |-> 4]) @@ (p2 :> [BUY |-> 12, SELL |-> 4])
MCSymmetry == Permutations(Orders)
=============================================================================
