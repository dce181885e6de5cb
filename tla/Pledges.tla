-------------------------------- MODULE Pledges --------------------------------
(***************************************************************************)
(* What the collateral ledger promises: goods are pledged and released in   *)
(* single steps, each for an event of its own, never more than there are,   *)
(* and never released from under the tokens they support; tokens are minted *)
(* only on goods already pledged.  Collateral implements this.              *)
(***************************************************************************)
EXTENDS Integers, Functions

CONSTANTS Assets, Instruments, Events, AssetQuantity, UnitPerToken

VARIABLES pledged, supply, used
vars == <<pledged, supply, used>>

OnAsset(a) == SumFunctionOnSet(pledged, {a} \X Instruments)
Behind(i) == SumFunctionOnSet(pledged, Assets \X {i})
Supported(i) == supply[i] * UnitPerToken[i] <= Behind(i)

Init ==
    /\ pledged = [p \in Assets \X Instruments |-> 0]
    /\ supply = [i \in Instruments |-> 0]
    /\ used = {}

\* One event changes one pledge, once.
Apply(e, a, i) ==
    /\ e \notin used /\ used' = used \cup {e}
    /\ pledged' = [pledged EXCEPT ![<<a, i>>] = pledged'[<<a, i>>]]
    /\ \/ pledged'[<<a, i>>] > pledged[<<a, i>>] /\ OnAsset(a)' <= AssetQuantity[a]
       \/ pledged'[<<a, i>>] \in 0..pledged[<<a, i>>] - 1 /\ Supported(i)'
    /\ UNCHANGED supply

Mint(i) ==
    /\ supply' = [supply EXCEPT ![i] = supply'[i]]
    /\ supply'[i] > supply[i] /\ Supported(i)'
    /\ UNCHANGED <<pledged, used>>

Next ==
    \/ \E e \in Events, a \in Assets, i \in Instruments : Apply(e, a, i)
    \/ \E i \in Instruments : Mint(i)

Spec == Init /\ [][Next]_vars
=============================================================================
