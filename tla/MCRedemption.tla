----------------------------- MODULE MCRedemption -----------------------------
(***************************************************************************)
(* Two receipts of equal quantity, each worth one token, and two requests   *)
(* that may ask for one token each, so that both fit either receipt.        *)
(* Requests and delivery calls are interchangeable.                         *)
(***************************************************************************)
EXTENDS Redemption, TLC

MCReceipts == 1..2
MCQuantity == <<2, 2>>
MCAmounts == 1..2
MCSymmetry == Permutations(Workers) \cup Permutations(Redemptions)
=============================================================================
