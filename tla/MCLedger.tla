------------------------------- MODULE MCLedger -------------------------------
(***************************************************************************)
(* Four accounts: a trader's AVAILABLE (1) and RESERVED (2) cash, the       *)
(* credit-normal funding account (3) and a token account (4).  Key k1 is    *)
(* used for funding by two different requests, so it meets retries and      *)
(* conflicts; k2 by a second funding, a reserve and a posting that does not *)
(* balance by denomination; k3 by a release; k3 and k4 by two reversals of  *)
(* k1, for which the second funding leaves enough money, and by a reversal  *)
(* of a reversal.  A balance is at most 1: the second funding of an account *)
(* is too wide for its column, and so is the funding by 2.                  *)
(***************************************************************************)
EXTENDS Ledger, TLC

MCAccounts == 1..4
MCOwner == <<"trader", "trader", "bank", "trader">>
MCPurpose == <<"AVAILABLE", "RESERVED", "RESIDUAL", "AVAILABLE">>
MCNormalSide == <<"DEBIT", "DEBIT", "CREDIT", "DEBIT">>
MCDenomination == <<"KZT", "KZT", "KZT", "WHT">>

Leg(a, d, n) == <<a, d>> :> n
Funding(n) == Leg(3, "CREDIT", n) @@ Leg(1, "DEBIT", n)

MCPosts == {
    [key |-> "k1", legs |-> Funding(1)],
    [key |-> "k1", legs |-> Funding(2)],
    [key |-> "k2", legs |-> Funding(1)],
    [key |-> "k2", legs |-> Leg(3, "CREDIT", 1) @@ Leg(4, "DEBIT", 1)] }

MCMoves == {
    [key |-> "k2", op |-> "RESERVE", available |-> 1, reserved |-> 2, amount |-> 1],
    [key |-> "k3", op |-> "RELEASE", available |-> 1, reserved |-> 2, amount |-> 1] }

MCReversals == {
    [key |-> "k3", target |-> "k1"],
    [key |-> "k4", target |-> "k1"],
    [key |-> "k4", target |-> "k3"] }

=============================================================================
