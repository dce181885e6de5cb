--------------------------------- MODULE MCDesk ---------------------------------
(***************************************************************************)
(* Desk for TLC: two buyers have bids in two books, in opposite order; two  *)
(* sellers meet both bids of a book each, while one buyer, who has no cash  *)
(* left, buys once more and may cancel a bid.                               *)
(***************************************************************************)
EXTENDS Desk, TLC

CONSTANTS s1, s2, q1, q2, t1, t2, t3, wheat, barley

Order(p, i, side, n) == [party |-> p, instrument |-> i, side |-> side, quantity |-> n]
MCWants == t1 :> Order(s1, wheat, "SELL", 2) @@ t2 :> Order(s2, barley, "SELL", 2)
           @@ t3 :> Order(q1, wheat, "BUY", 1)
\* Ids of resting orders look like those of tickets.
O(n) == <<"old", n>>
MCResting == {O(4)}
MCAtStart ==
    wheat :> [BUY |-> <<Unit(O(1), q1), Unit(O(2), q2)>>, SELL |-> <<>>] @@
    barley :> [BUY |-> <<Unit(O(3), q2), Unit(O(4), q1)>>, SELL |-> <<>>]
MCParties == {q1, q2, s1, s2}
MCCash == [p \in MCParties |-> 0]
MCGetsBack == [p \in MCParties |-> p = q2]
MCAccountIds == <<<<q1, "AVAILABLE">>, <<q1, "RESERVED">>, <<q2, "RESERVED">>, <<q2, "AVAILABLE">>,
                  <<s1, "RESERVED">>, <<s1, "AVAILABLE">>, <<s2, "AVAILABLE">>, <<s2, "RESERVED">>>>
=============================================================================
