----------------------------- MODULE MatchingEngine -----------------------------
(***************************************************************************)
(* The matching engine of packages/matching-core: price-time priority,      *)
(* execution at the maker's price, CANCEL_NEWEST for trades with oneself.   *)
(*                                                                         *)
(* A book maps an order to what the engine knows of it, or to None.  The    *)
(* loop of place is cut into its passes: Maker is the order that the next   *)
(* pass meets.                                                             *)
(***************************************************************************)
EXTENDS Integers

CONSTANTS
    Orders,     \* named by party and client order id
    Parties,
    Prices,     \* that commands name
    Quantities,
    Tick, Lot,  \* of matching_books, immutable
    None

Sides == {"BUY", "SELL"}
EngineOrder == [party : Parties, side : Sides, price : Prices, open : Nat, sequence : Nat]

ASSUME EngineAssumption ==
    /\ Prices \subseteq Nat \ {0} /\ Quantities \subseteq Nat \ {0}
    /\ Tick \in Nat \ {0} /\ Lot \in Nat \ {0}
    /\ None \notin Orders /\ None \notin EngineOrder

Opposite(s) == IF s = "BUY" THEN "SELL" ELSE "BUY"

OpenOrders(b, s) == {o \in Orders : b[o] # None /\ b[o].side = s /\ b[o].open > 0}

\* Price p is at least as good as q for orders of side s.
AsGood(s, p, q) == IF s = "BUY" THEN p >= q ELSE p <= q

\* Seeded fault: of equal prices the later goes first.
LaterFirst(b, x, y) ==
    /\ AsGood(b[x].side, b[x].price, b[y].price)
    /\ b[x].price = b[y].price => b[x].sequence >= b[y].sequence

\* orderComparator: the better price, then the earlier order.
First(b, x, y) ==
    /\ AsGood(b[x].side, b[x].price, b[y].price)
    /\ b[x].price = b[y].price => b[x].sequence <= b[y].sequence

PricesCross(s, takerPrice, makerPrice) == AsGood(s, takerPrice, makerPrice)

\* Seeded fault: orders of the taker's own party are passed over.
MakersOfOthers(b, taker) ==
    {m \in OpenOrders(b, Opposite(b[taker].side)) :
        /\ b[taker].open > 0 /\ PricesCross(b[taker].side, b[taker].price, b[m].price)
        /\ b[m].party # b[taker].party}

\* Open orders that the taker may meet.
Makers(b, taker) ==
    {m \in OpenOrders(b, Opposite(b[taker].side)) :
        b[taker].open > 0 /\ PricesCross(b[taker].side, b[taker].price, b[m].price)}

Maker(b, taker, m) ==
    m \in Makers(b, taker) /\ \A n \in Makers(b, taker) : First(b, m, n)

Misaligned(price, quantity) == price % Tick # 0 \/ quantity % Lot # 0

\* The effects of the events OrderAccepted, TradeExecuted, OrderCancelled.
Accept(b, o, order) == [b EXCEPT ![o] = order]
Execute(b, x, y, q) == [b EXCEPT ![x].open = @ - q, ![y].open = @ - q]
Close(b, o) == [b EXCEPT ![o].open = 0]
ExecutionQuantity(b, x, y) == IF b[x].open < b[y].open THEN b[x].open ELSE b[y].open
=============================================================================
