------------------------------- MODULE AtomicDvp -------------------------------
(***************************************************************************)
(* What settlement promises to buyers and sellers: once a trade has its     *)
(* commitments in the clearing accounts, either every leg of delivery       *)
(* versus payment moves in one step and for good, or nothing moves and the  *)
(* trade fails for good.  Settlement implements this specification.         *)
(***************************************************************************)
EXTENDS Integers

CONSTANTS Trades, Accounts,
          CommitEffect(_, _),   \* what the trade itself adds to an account
          DvpEffect(_, _)       \* what its delivery versus payment adds

VARIABLES phase, balance
vars == <<phase, balance>>

Init ==
    /\ phase = [t \in Trades |-> "none"]
    /\ balance = [a \in Accounts |-> 0]

Move(t, from, to) ==
    /\ phase[t] = from
    /\ phase' = [phase EXCEPT ![t] = to]

Commit(t) ==
    /\ Move(t, "none", "open")
    /\ balance' = [a \in Accounts |-> balance[a] + CommitEffect(t, a)]

Settle(t) ==
    /\ Move(t, "open", "settled")
    /\ balance' = [a \in Accounts |-> balance[a] + DvpEffect(t, a)]
    /\ \A a \in Accounts : balance'[a] >= 0

Fail(t) ==
    /\ Move(t, "open", "failed")
    /\ UNCHANGED balance

Next == \E t \in Trades : Commit(t) \/ Settle(t) \/ Fail(t)

Spec == Init /\ [][Next]_vars
=============================================================================
