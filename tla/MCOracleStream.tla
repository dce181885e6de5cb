---------------------------- MODULE MCOracleStream ----------------------------
(***************************************************************************)
(* Two receipts and four nonces: enough for one receipt to live its whole   *)
(* life beside another one, and for the counter to run out.                 *)
(***************************************************************************)
EXTENDS OracleStream, TLC

Symmetry == Permutations(Receipts) \cup Permutations(Callers)
=============================================================================
