-------------------------- MODULE InstrumentLifecycle --------------------------
(***************************************************************************)
(* instrument-state-machine.ts: the states of an instrument.  A state is a  *)
(* status and, while the instrument is suspended, the status it came from;  *)
(* records with more fields than these two will do.                         *)
(***************************************************************************)
Forward == {
    <<"DRAFT", "UNDER_REVIEW">>, <<"UNDER_REVIEW", "APPROVED">>,
    <<"APPROVED", "COLLATERALIZED">>, <<"COLLATERALIZED", "PRIMARY">>,
    <<"PRIMARY", "ACTIVE">>, <<"ACTIVE", "REDEMPTION">>,
    <<"REDEMPTION", "MATURED">>, <<"REDEMPTION", "CLOSED">>}

\* DEFAULT is among the statuses, but no transition leads there.
Suspendable == {"DRAFT", "UNDER_REVIEW", "APPROVED", "COLLATERALIZED", "PRIMARY", "ACTIVE",
                "REDEMPTION", "MATURED", "CLOSED", "DEFAULT"}
Statuses == Suspendable \cup {"SUSPENDED"}

Lifecycles == [status : Statuses, suspendedFrom : Suspendable \cup {"NONE"}]

MayBecome(state, target) ==
    \/ state.status = "SUSPENDED" /\ target = state.suspendedFrom
    \/ state.status \in Suspendable /\ target = "SUSPENDED"
    \/ <<state.status, target>> \in Forward

Become(state, target) ==
    [state EXCEPT !.status = target,
                  !.suspendedFrom = IF target = "SUSPENDED" THEN state.status ELSE "NONE"]
=============================================================================
