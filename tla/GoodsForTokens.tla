----------------------------- MODULE GoodsForTokens -----------------------------
(***************************************************************************)
(* What redemption promises to holders and elevators.  Tokens are frozen    *)
(* for a redemption; they are returned only if no goods left for them and   *)
(* none ever will, goods leave against one redemption only, and what is     *)
(* burned or returned stays so.  Redemption implements this specification.  *)
(***************************************************************************)
CONSTANTS Redemptions, Receipts, None

VARIABLES tokens,   \* of each redemption
          goods     \* the redemption against which a receipt's goods left
vars == <<tokens, goods>>

Init ==
    /\ tokens = [d \in Redemptions |-> "none"]
    /\ goods = [a \in Receipts |-> None]

Move(d, from, to) ==
    /\ tokens[d] = from
    /\ tokens' = [tokens EXCEPT ![d] = to]
    /\ UNCHANGED goods

Freeze(d) == Move(d, "none", "frozen")
Burn(d) == Move(d, "frozen", "burned")
Return(d) ==
    /\ \A a \in Receipts : goods[a] # d
    /\ Move(d, "frozen", "returned")

Ship(a, d) ==
    /\ goods[a] = None
    /\ \A b \in Receipts : goods[b] # d
    /\ tokens[d] \in {"frozen", "burned"}
    /\ goods' = [goods EXCEPT ![a] = d]
    /\ UNCHANGED tokens

Next ==
    \E d \in Redemptions :
        Freeze(d) \/ Burn(d) \/ Return(d) \/ \E a \in Receipts : Ship(a, d)

Spec == Init /\ [][Next]_vars
=============================================================================
