----------------------------------- MODULE Oms -----------------------------------
(***************************************************************************)
(* oms.service.ts: orders of one instrument, what is reserved for them in   *)
(* the ledger, and the trades they make.                                   *)
(*                                                                         *)
(* One command at a time holds the book, in the process by a queue and in   *)
(* the database by an advisory lock, and is one transaction.  A command     *)
(* that matches is cut into one step for each event of the engine; taker is *)
(* the order it places.  A transaction that fails leaves nothing, and a     *)
(* repeated command finds the stored answer; both change nothing here.      *)
(*                                                                         *)
(* Row and book are kept apart: the row is what OMS has written, the book   *)
(* what the engine gets by replaying matching_events.                       *)
(***************************************************************************)
EXTENDS MatchingEngine, FiniteSets, Functions

CONSTANTS
    Schedules,   \* fee_schedules: [maker, taker] rates by version
    Funds        \* initial AVAILABLE balance of a party, in what a side spends

Scale == 1000000     \* FEE_RATE_SCALE

Versions == DOMAIN Schedules
Statuses == {"OPEN", "PARTIALLY_FILLED", "FILLED", "CANCELLED", "REJECTED"}
Rows == [party : Parties, side : Sides, price : Prices, quantity : Quantities,
         open : Nat, status : Statuses, version : Versions,
         reservation : Nat, reserved : Nat,
         made : Nat, taken : Nat,   \* executed_notional as maker and as taker
         charged : Nat]
Trades == [maker : Orders, buy : Orders, sell : Orders, price : Prices, quantity : Nat,
           buyerFee : Nat, sellerFee : Nat, residual : Nat]

ASSUME OmsAssumption ==
    /\ 1 \in Versions /\ Versions \subseteq Nat
    /\ Schedules \in [Versions -> [maker : 0..Scale, taker : 0..Scale]]
    /\ Funds \in [Parties -> [Sides -> Nat]]
    /\ IsFiniteSet(Orders) /\ IsFiniteSet(Parties) /\ None \notin Rows

VARIABLES
    row,         \* orders
    book,        \* replay of matching_events
    version,     \* of the fee schedule in force
    available,   \* AVAILABLE balance of each party in what each side spends:
    reserved,    \*   cash for BUY, tokens for SELL; and the RESERVED balance
    clearing,    \* of the clearing accounts of the instrument
    trades,      \* with the terms given to settlement
    taker        \* order whose command is being carried out

accounts == <<available, reserved, clearing>>
vars == <<row, book, version, accounts, trades, taker>>

Init ==
    /\ row = [o \in Orders |-> None]
    /\ book = [o \in Orders |-> None]
    /\ version = 1
    /\ available = Funds
    /\ reserved = [p \in Parties |-> [s \in Sides |-> 0]]
    /\ clearing = [s \in Sides |-> 0]
    /\ trades = {}
    /\ taker = None

-----------------------------------------------------------------------------
(* Fees and reservations *)

\* calculateFee, rounded up.
Fee(notional, rate) == (notional * rate + Scale - 1) \div Scale

\* allocateCommission: the part below one minor unit is charged as one.
Residual(notional, rate) == IF (notional * rate) % Scale = 0 THEN 0 ELSE 1

WorstRate(v) == IF Schedules[v].maker > Schedules[v].taker
                THEN Schedules[v].maker ELSE Schedules[v].taker

\* Seeded fault: the open part of a BUY is reserved under the version in force.
CostInForce(r, q) ==
    IF r.side = "SELL" THEN q
    ELSE q * r.price + Fee(q * r.price, WorstRate(version))

\* What quantity q of an order may cost: calculateRemainingBuyReservation, or
\* the tokens themselves.
Cost(r, q) ==
    IF r.side = "SELL" THEN q
    ELSE q * r.price + Fee(q * r.price, WorstRate(r.version))

-----------------------------------------------------------------------------
(* Commands *)

Live(o) == row[o] # None /\ row[o].status \in {"OPEN", "PARTIALLY_FILLED"}
Placed == {o \in Orders : row[o] # None}

NewRow(p, s, price, q) ==
    LET r == [party |-> p, side |-> s, price |-> price, quantity |-> q, open |-> q,
              status |-> "OPEN", version |-> version, reservation |-> 0, reserved |-> 0,
              made |-> 0, taken |-> 0, charged |-> 0]
    IN  [r EXCEPT !.reservation = Cost(r, q), !.reserved = Cost(r, q)]

\* place up to the acceptance by the engine.  Refusals before the reservation
\* leave no row and are not shown.
Place(o, p, s, price, q) ==
    LET r == NewRow(p, s, price, q) IN
    /\ taker = None /\ row[o] = None
    /\ available[p][s] >= r.reserved
    /\ ~Misaligned(price, q)
    /\ available' = [available EXCEPT ![p][s] = @ - r.reserved]
    /\ reserved' = [reserved EXCEPT ![p][s] = @ + r.reserved]
    /\ row' = [row EXCEPT ![o] = r]
    /\ book' = Accept(book, o, [party |-> p, side |-> s, price |-> price, open |-> q,
                                sequence |-> Cardinality(Placed) + 1])
    /\ taker' = o
    /\ UNCHANGED <<version, clearing, trades>>

\* The engine rejects; rejectPlacedOrder returns the whole reservation.
PlaceRejected(o, p, s, price, q) ==
    LET r == NewRow(p, s, price, q) IN
    /\ taker = None /\ row[o] = None
    /\ available[p][s] >= r.reserved
    /\ Misaligned(price, q)
    /\ row' = [row EXCEPT ![o] = [r EXCEPT !.open = 0, !.reserved = 0, !.status = "REJECTED"]]
    /\ UNCHANGED <<book, version, accounts, trades, taker>>

\* closeOrder: what is still reserved returns to AVAILABLE.
CloseOrder(o) ==
    LET p == row[o].party
        s == row[o].side IN
    /\ reserved[p][s] >= row[o].reserved
    /\ available' = [available EXCEPT ![p][s] = @ + row[o].reserved]
    /\ reserved' = [reserved EXCEPT ![p][s] = @ - row[o].reserved]
    /\ row' = [row EXCEPT ![o].open = 0, ![o].reserved = 0, ![o].status = "CANCELLED"]
    /\ book' = Close(book, o)
    /\ UNCHANGED <<version, clearing, trades>>

Cancel(o) ==
    /\ taker = None /\ Live(o)
    /\ book[o].open > 0
    /\ CloseOrder(o)
    /\ UNCHANGED taker

PreventSelfTrade(m) ==
    /\ taker # None /\ Maker(book, taker, m)
    /\ book[m].party = book[taker].party
    /\ CloseOrder(taker)
    /\ taker' = None

\* The answer is stored and the transaction commits.
Finish ==
    /\ taker # None /\ Makers(book, taker) = {}
    /\ taker' = None
    /\ UNCHANGED <<row, book, version, accounts, trades>>

\* A new version of the fee schedule comes into force.
ChangeFees ==
    /\ taker = None
    /\ version + 1 \in Versions
    /\ version' = version + 1
    /\ UNCHANGED <<row, book, accounts, trades, taker>>

-----------------------------------------------------------------------------
(* applyTrade *)

Buyer(m) == IF row[taker].side = "BUY" THEN taker ELSE m
Seller(m) == IF row[taker].side = "SELL" THEN taker ELSE m

\* The amounts of the trade of taker with maker m.
Terms(m) ==
    LET b == row[Buyer(m)]
        s == row[Seller(m)]
        q == ExecutionQuantity(book, taker, m)
        notional == book[m].price * q
        buyerRate == IF m = Buyer(m) THEN Schedules[b.version].maker ELSE Schedules[b.version].taker
        sellerRate == IF m = Seller(m) THEN Schedules[s.version].maker ELSE Schedules[s.version].taker
        made == b.made + (IF m = Buyer(m) THEN notional ELSE 0)
        taken == b.taken + (IF m = Buyer(m) THEN 0 ELSE notional)
        reduction == b.reserved - Cost(b, b.open - q)
        due == Fee(made, Schedules[b.version].maker)
                 + Fee(taken, Schedules[b.version].taker) - b.charged
        most == reduction - notional
        fee == IF due < most THEN due ELSE most
        buyerResidual == IF Residual(notional, buyerRate) > fee THEN fee
                         ELSE Residual(notional, buyerRate)
    IN  [quantity |-> q, notional |-> notional, made |-> made, taken |-> taken,
         reduction |-> reduction, due |-> due, most |-> most, fee |-> fee,
         sellerFee |-> Fee(notional, sellerRate),
         residual |-> buyerResidual + Residual(notional, sellerRate)]

\* What applyTrade and updateFilledOrder throw an error about.
Consistent(m) ==
    LET t == Terms(m)
        b == row[Buyer(m)]
        s == row[Seller(m)] IN
    /\ b.open >= t.quantity /\ s.open >= t.quantity
    /\ t.reduction >= 0 /\ t.due >= 0 /\ t.most >= 0
    /\ s.reserved >= t.quantity

Filled(open) == IF open = 0 THEN "FILLED" ELSE "PARTIALLY_FILLED"

\* Seeded fault: the fee is taken without regard to what is reserved for it.
ApplyTradeUncapped(m) ==
    LET t == Terms(m)
        b == Buyer(m)
        s == Seller(m) IN
    /\ row' = [row EXCEPT
           ![b].open = @ - t.quantity, ![b].reserved = @ - t.reduction,
           ![b].status = Filled(row[b].open - t.quantity),
           ![b].made = t.made, ![b].taken = t.taken, ![b].charged = @ + t.due,
           ![s].open = @ - t.quantity, ![s].reserved = @ - t.quantity,
           ![s].status = Filled(row[s].open - t.quantity)]
    /\ reserved' = [reserved EXCEPT ![row[b].party]["BUY"] = @ - t.reduction,
                                    ![row[s].party]["SELL"] = @ - t.quantity]
    /\ available' = [available EXCEPT ![row[b].party]["BUY"] = @ + t.most - t.fee]
    /\ clearing' = [clearing EXCEPT !["BUY"] = @ + t.notional + t.fee,
                                    !["SELL"] = @ + t.quantity]

\* Seeded fault: what the price was better than the limit is not returned.
ApplyTradeKeepingRest(m) ==
    LET t == Terms(m)
        b == Buyer(m)
        s == Seller(m) IN
    /\ row' = [row EXCEPT
           ![b].open = @ - t.quantity, ![b].reserved = @ - t.reduction,
           ![b].status = Filled(row[b].open - t.quantity),
           ![b].made = t.made, ![b].taken = t.taken, ![b].charged = @ + t.fee,
           ![s].open = @ - t.quantity, ![s].reserved = @ - t.quantity,
           ![s].status = Filled(row[s].open - t.quantity)]
    /\ reserved' = [reserved EXCEPT ![row[b].party]["BUY"] = @ - t.reduction,
                                    ![row[s].party]["SELL"] = @ - t.quantity]
    /\ UNCHANGED available
    /\ clearing' = [clearing EXCEPT !["BUY"] = @ + t.notional + t.fee,
                                    !["SELL"] = @ + t.quantity]

\* Rows, the cash posting and the token posting of a trade.
ApplyTrade(m) ==
    LET t == Terms(m)
        b == Buyer(m)
        s == Seller(m) IN
    /\ row' = [row EXCEPT
           ![b].open = @ - t.quantity, ![b].reserved = @ - t.reduction,
           ![b].status = Filled(row[b].open - t.quantity),
           ![b].made = t.made, ![b].taken = t.taken, ![b].charged = @ + t.fee,
           ![s].open = @ - t.quantity, ![s].reserved = @ - t.quantity,
           ![s].status = Filled(row[s].open - t.quantity)]
    /\ reserved' = [reserved EXCEPT ![row[b].party]["BUY"] = @ - t.reduction,
                                    ![row[s].party]["SELL"] = @ - t.quantity]
    /\ available' = [available EXCEPT ![row[b].party]["BUY"] = @ + t.most - t.fee]
    /\ clearing' = [clearing EXCEPT !["BUY"] = @ + t.notional + t.fee,
                                    !["SELL"] = @ + t.quantity]

Fill(m) ==
    LET t == Terms(m) IN
    /\ taker # None /\ Maker(book, taker, m)
    /\ book[m].party # book[taker].party
    /\ Consistent(m)
    /\ reserved[row[Buyer(m)].party]["BUY"] >= t.reduction
    /\ reserved[row[Seller(m)].party]["SELL"] >= t.quantity
    /\ ApplyTrade(m)
    /\ book' = Execute(book, taker, m, t.quantity)
    /\ trades' = trades \cup {[maker |-> m, buy |-> Buyer(m), sell |-> Seller(m),
                               price |-> book[m].price, quantity |-> t.quantity,
                               buyerFee |-> t.fee, sellerFee |-> t.sellerFee,
                               residual |-> t.residual]}
    /\ UNCHANGED <<version, taker>>

-----------------------------------------------------------------------------
Next ==
    \/ \E o \in Orders, p \in Parties, s \in Sides, price \in Prices, q \in Quantities :
          Place(o, p, s, price, q) \/ PlaceRejected(o, p, s, price, q)
    \/ \E o \in Orders : Cancel(o) \/ Fill(o) \/ PreventSelfTrade(o)
    \/ Finish
    \/ ChangeFees

Spec == Init /\ [][Next]_vars

-----------------------------------------------------------------------------
(* Properties *)

\* The types; in particular no balance is ever negative.
TypeOK ==
    /\ row \in [Orders -> {None} \cup Rows]
    /\ book \in [Orders -> {None} \cup EngineOrder]
    /\ version \in Versions
    /\ available \in [Parties -> [Sides -> Nat]]
    /\ reserved \in [Parties -> [Sides -> Nat]]
    /\ clearing \in [Sides -> Nat]
    /\ trades \subseteq Trades
    /\ taker \in Orders \cup {None}

\* A party's RESERVED account has what its orders hold, clearing has what the
\* trades owe, and nothing is lost: every other unit is AVAILABLE again.
AccountsFollowOrders ==
    LET Held(p, s) == SumFunctionOnSet([o \in Orders |->
            IF row[o] # None /\ row[o].party = p /\ row[o].side = s
            THEN row[o].reserved ELSE 0], Orders)
        Sum(s) == SumFunctionOnSet([p \in Parties |-> Funds[p][s] - available[p][s]], Parties)
    IN  /\ \A p \in Parties, s \in Sides : reserved[p][s] = Held(p, s)
        /\ clearing["SELL"] = SumFunctionOnSet([t \in trades |-> t.quantity], trades)
        /\ clearing["BUY"] = SumFunctionOnSet(
              [t \in trades |-> t.price * t.quantity + t.buyerFee], trades)
        /\ \A s \in Sides : Sum(s) = clearing[s] +
              SumFunctionOnSet([p \in Parties |-> reserved[p][s]], Parties)

\* No command is refused because applyTrade finds its own books inconsistent,
\* whatever fills, fee schedules and cancellations came before: the reservation
\* of the open part always covers notional and fee of the next fill.
FillsAreConsistent ==
    \A m \in Orders :
        taker # None /\ Maker(book, taker, m) /\ book[m].party # book[taker].party
            => Consistent(m)

\* What an order has spent and still holds is never more than was reserved for
\* it at first; and a buyer pays no more commission, over all fills, than the
\* fee on what it executed as maker and as taker, each rounded up once.
SpendingIsWithinLimit ==
    \A o \in Placed :
        row[o].side = "BUY" =>
            /\ row[o].made + row[o].taken + row[o].charged + row[o].reserved
                  <= row[o].reservation
            /\ row[o].charged <= Fee(row[o].made, Schedules[row[o].version].maker)
                                   + Fee(row[o].taken, Schedules[row[o].version].taker)

\* Between commands no bid reaches an ask, also not of the same party.
BookIsNotCrossed ==
    taker = None =>
        \A x \in OpenOrders(book, "BUY"), y \in OpenOrders(book, "SELL") :
            book[x].price < book[y].price

\* Nobody is overtaken: while an order is open, no later one of its side has
\* traded at a price that was no better.
NoOvertaking ==
    \A x, y \in Orders :
        /\ book[x] # None /\ book[x].open > 0
        /\ book[y] # None /\ book[y].side = book[x].side
        /\ book[x].sequence < book[y].sequence
        /\ AsGood(book[x].side, book[x].price, book[y].price)
        => \A t \in trades : y \notin {t.buy, t.sell}
=============================================================================
