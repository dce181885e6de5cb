------------------------------- MODULE EventLog -------------------------------
(***************************************************************************)
(* What the registry and the oracle gateway promise together: each change   *)
(* of a receipt is recorded in one log, and the market applies the log from *)
(* its beginning, event by event, each of them once.  OracleStream          *)
(* implements this specification.                                           *)
(***************************************************************************)
EXTENDS Integers, Sequences

CONSTANTS Receipts, StatusAfter(_), StatusBefore(_)

VARIABLES status, log, applied
vars == <<status, log, applied>>

Init ==
    /\ status = [r \in Receipts |-> "NONE"]
    /\ log = <<>>
    /\ applied = 0

Record(r, type) ==
    /\ status[r] = StatusBefore(type)
    /\ status' = [status EXCEPT ![r] = StatusAfter(type)]
    /\ log' = Append(log, [receipt |-> r, type |-> type])
    /\ UNCHANGED applied

Apply ==
    /\ applied < Len(log)
    /\ applied' = applied + 1
    /\ UNCHANGED <<status, log>>

Next ==
    \/ \E r \in Receipts, type \in {"STOCK_UPDATED", "RECEIPT_LOCKED", "GOODS_RELEASED"} :
          Record(r, type)
    \/ Apply

Spec == Init /\ [][Next]_vars
=============================================================================
