------------------------------- MODULE OmsProofs -------------------------------
(***************************************************************************)
(* Proofs about Oms for every number of orders and parties, every price,    *)
(* quantity and fee schedule.                                              *)
(***************************************************************************)
EXTENDS Oms, SumTheorems, FiniteSetTheorems, TLAPS

\* OMS and the engine agree on each order; of a rejected one the engine knows
\* nothing.
BookAgrees ==
    \A o \in Orders :
        /\ row[o] # None /\ book[o] = None =>
              row[o].open = 0 /\ row[o].status = "REJECTED"
        /\ book[o] # None =>
              /\ row[o] # None
              /\ row[o].party = book[o].party /\ row[o].side = book[o].side
              /\ row[o].price = book[o].price /\ row[o].open = book[o].open

\* The reservation is exactly what the open part may still cost.
ReservesAreExact ==
    \A o \in Orders : row[o] # None => row[o].reserved = Cost(row[o], row[o].open)

\* While a command matches, only the order it places may reach the other side.
OnlyTakerCrosses ==
    /\ taker # None => book[taker] # None
    /\ \A x \in OpenOrders(book, "BUY"), y \in OpenOrders(book, "SELL") :
          book[x].price >= book[y].price => taker \in {x, y}

\* Sequence numbers grow with the orders placed, and only placed orders trade.
SequencesGrow ==
    /\ \A o \in Orders : book[o] # None => book[o].sequence <= Cardinality(Placed)
    /\ \A t \in trades : t.buy \in Placed /\ t.sell \in Placed

IndInv ==
    /\ TypeOK
    /\ BookAgrees
    /\ ReservesAreExact
    /\ SpendingIsWithinLimit
    /\ OnlyTakerCrosses
    /\ SequencesGrow
    /\ NoOvertaking

------------------------------------------------------------------------------
\* Fees.

LEMMA ScaleIsPositive == Scale \in Nat \ {0}
  BY DEF Scale

LEMMA ProductMonotone ==
    ASSUME NEW a \in Nat, NEW b \in Nat, NEW r \in Nat, a <= b
    PROVE  a * r <= b * r /\ a * r \in Nat /\ b * r \in Nat
  OBVIOUS

LEMMA FeeNat ==
    ASSUME NEW n \in Nat, NEW r \in Nat
    PROVE  Fee(n, r) \in Nat
  <1>1. n * r \in Nat
    OBVIOUS
  <1> QED
    BY <1>1 DEF Fee, Scale

\* A greater notional never has a smaller fee.
LEMMA FeeMonotone ==
    ASSUME NEW a \in Nat, NEW b \in Nat, NEW r \in Nat, a <= b
    PROVE  Fee(a, r) <= Fee(b, r)
  <1> DEFINE x == a * r
             y == b * r
  <1>1. x \in Nat /\ y \in Nat /\ x <= y
    BY ProductMonotone
  <1> HIDE DEF x, y
  <1>2. (x + Scale - 1) \div Scale <= (y + Scale - 1) \div Scale
    BY <1>1 DEF Scale
  <1> QED
    BY <1>2 DEF Fee, x, y

LEMMA FeeOfNothing ==
    ASSUME NEW r \in Nat
    PROVE  Fee(0, r) = 0
  <1>1. 0 * r = 0
    OBVIOUS
  <1> QED
    BY <1>1 DEF Fee, Scale

LEMMA ResidualNat ==
    ASSUME NEW n, NEW r
    PROVE  Residual(n, r) \in Nat
  BY DEF Residual

LEMMA RatesNat ==
    ASSUME NEW v \in Versions
    PROVE  /\ Schedules[v].maker \in Nat /\ Schedules[v].taker \in Nat
           /\ WorstRate(v) \in Nat
  BY OmsAssumption, ScaleIsPositive DEF WorstRate

\* What an order may cost, and how it falls with a fill at price p.
LEMMA CostNat ==
    ASSUME NEW r \in Rows, NEW q \in Nat
    PROVE  Cost(r, q) \in Nat
  <1>1. r.price \in Nat /\ r.version \in Versions
    BY EngineAssumption DEF Rows
  <1>2. q * r.price \in Nat
    BY <1>1
  <1>3. Fee(q * r.price, WorstRate(r.version)) \in Nat
    BY <1>1, <1>2, RatesNat, FeeNat
  <1> QED
    BY <1>2, <1>3 DEF Cost

LEMMA CostOfNothing ==
    ASSUME NEW r \in Rows
    PROVE  Cost(r, 0) = 0
  <1>1. r.price \in Nat /\ r.version \in Versions
    BY EngineAssumption DEF Rows
  <1>2. 0 * r.price = 0
    BY <1>1
  <1>3. Fee(0, WorstRate(r.version)) = 0
    BY <1>1, RatesNat, FeeOfNothing
  <1> QED
    BY <1>2, <1>3 DEF Cost

LEMMA CostFalls ==
    ASSUME NEW r \in Rows, r.side = "BUY", NEW a \in Nat, NEW q \in Nat, q <= a,
           NEW p \in Nat, p <= r.price
    PROVE  Cost(r, a) - Cost(r, a - q) >= p * q
  <1> DEFINE w == WorstRate(r.version)
             x == (a - q) * r.price
             y == a * r.price
  <1>1. r.price \in Nat /\ w \in Nat /\ a - q \in Nat
    <2>1. r.price \in Nat /\ r.version \in Versions
      BY EngineAssumption DEF Rows
    <2>2. w \in Nat
      BY <2>1, RatesNat
    <2> QED
      BY <2>1, <2>2
  <1>2. x \in Nat /\ y \in Nat /\ x <= y
    BY <1>1, ProductMonotone
  <1>3. y - x = q * r.price
    BY <1>1
  <1>4. p * q <= r.price * q /\ p * q \in Nat
    BY <1>1, ProductMonotone
  <1>5. q * r.price = r.price * q
    BY <1>1
  <1>6. Cost(r, a) = y + Fee(y, w) /\ Cost(r, a - q) = x + Fee(x, w)
    BY DEF Cost
  <1> HIDE DEF w, x, y
  <1>7. Fee(x, w) <= Fee(y, w) /\ Fee(x, w) \in Nat /\ Fee(y, w) \in Nat
    BY <1>1, <1>2, FeeMonotone, FeeNat
  <1>8. y - x >= p * q
    BY <1>1, <1>3, <1>4, <1>5
  <1>9. \A k, f, g \in Nat : f <= g /\ y - x >= k => (y + g) - (x + f) >= k
    BY <1>2
  <1>10. (y + Fee(y, w)) - (x + Fee(x, w)) >= p * q
    BY <1>4, <1>7, <1>8, <1>9
  <1> QED
    BY <1>6, <1>10

------------------------------------------------------------------------------
\* The engine and the amounts of a trade.

\* An order and the maker it meets: one bids, the other asks.
LEMMA MakerIsOpposite ==
    ASSUME TypeOK, taker # None, book[taker] # None, NEW m \in Orders, Maker(book, taker, m)
    PROVE  /\ taker \in Orders /\ m # taker
           /\ book[taker] \in EngineOrder /\ book[m] \in EngineOrder
           /\ book[m].side = Opposite(book[taker].side)
           /\ book[taker].open > 0 /\ book[m].open > 0
           /\ AsGood(book[taker].side, book[taker].price, book[m].price)
  <1>1. taker \in Orders /\ book[taker] \in EngineOrder /\ book[m] # None
    BY DEF TypeOK, Maker, Makers, OpenOrders
  <1>2. book[m] \in EngineOrder /\ book[taker].side \in Sides
    BY <1>1 DEF TypeOK, EngineOrder
  <1>3. book[m].side = Opposite(book[taker].side)
    BY DEF Maker, Makers, OpenOrders
  <1>4. book[taker].open > 0 /\ book[m].open > 0
        /\ AsGood(book[taker].side, book[taker].price, book[m].price)
    BY DEF Maker, Makers, OpenOrders, PricesCross
  <1>5. m # taker
    BY <1>2, <1>3 DEF Opposite, Sides
  <1> QED
    BY <1>1, <1>2, <1>3, <1>4, <1>5

\* What is executed is positive and open on both sides.
LEMMA QuantityIsOpen ==
    ASSUME TypeOK, NEW x \in Orders, NEW y \in Orders,
           book[x] \in EngineOrder, book[y] \in EngineOrder, book[x].open > 0, book[y].open > 0
    PROVE  LET q == ExecutionQuantity(book, x, y) IN
           /\ q \in Nat \ {0} /\ q <= book[x].open /\ q <= book[y].open
  <1>1. book[x].open \in Nat /\ book[y].open \in Nat
    BY DEF EngineOrder
  <1> QED
    BY <1>1 DEF ExecutionQuantity

Sound(m) ==
    LET t == Terms(m)
        b == row[Buyer(m)]
        s == row[Seller(m)] IN
    /\ Buyer(m) \in Orders /\ Seller(m) \in Orders /\ Buyer(m) # Seller(m)
    /\ {Buyer(m), Seller(m)} = {taker, m}
    /\ b \in Rows /\ s \in Rows /\ b.side = "BUY" /\ s.side = "SELL"
    /\ t.quantity = ExecutionQuantity(book, taker, m)
    /\ t.quantity \in Nat \ {0} /\ t.quantity <= b.open /\ t.quantity <= s.open
    /\ s.reserved = s.open
    /\ t.notional \in Nat /\ t.made \in Nat /\ t.taken \in Nat
    /\ t.made + t.taken = b.made + b.taken + t.notional
    /\ t.reduction \in Nat /\ b.reserved - t.reduction = Cost(b, b.open - t.quantity)
    /\ b.open - t.quantity \in Nat
    /\ t.most \in Nat /\ t.most = t.reduction - t.notional
    /\ t.due \in Nat /\ t.fee \in Nat /\ t.fee <= t.due /\ t.fee <= t.most
    /\ t.due = Fee(t.made, Schedules[b.version].maker)
                 + Fee(t.taken, Schedules[b.version].taker) - b.charged
    /\ t.sellerFee \in Nat /\ t.residual \in Nat

\* The reservation of the buyer covers notional and fee of the trade.
LEMMA TermsAreSound ==
    ASSUME IndInv, taker # None, NEW m \in Orders, Maker(book, taker, m)
    PROVE  Sound(m)
  <1> DEFINE t == Terms(m)
             bo == Buyer(m)
             so == Seller(m)
             b == row[bo]
             s == row[so]
             q == ExecutionQuantity(book, taker, m)
             n == book[m].price * q
             mk == Schedules[b.version].maker
             tk == Schedules[b.version].taker
  <1>1. /\ taker \in Orders /\ m # taker
        /\ book[taker] \in EngineOrder /\ book[m] \in EngineOrder
        /\ book[m].side = Opposite(book[taker].side)
        /\ book[taker].open > 0 /\ book[m].open > 0
        /\ AsGood(book[taker].side, book[taker].price, book[m].price)
    BY MakerIsOpposite DEF IndInv, OnlyTakerCrosses
  <1>2. \A o \in {taker, m} :
           /\ row[o] \in Rows
           /\ row[o].side = book[o].side /\ row[o].price = book[o].price
           /\ row[o].open = book[o].open
           /\ row[o].reserved = Cost(row[o], row[o].open)
    <2>1. taker \in Orders /\ book[taker] # None /\ book[m] # None
      BY <1>1, EngineAssumption
    <2>2. \A o \in Orders : row[o] # None => row[o] \in Rows
      BY DEF IndInv, TypeOK
    <2> QED
      BY <2>1, <2>2 DEF IndInv, BookAgrees, ReservesAreExact
  <1>3. /\ bo \in Orders /\ so \in Orders /\ bo # so /\ {bo, so} = {taker, m}
        /\ b.side = "BUY" /\ s.side = "SELL"
    BY <1>1, <1>2 DEF Buyer, Seller, Opposite, EngineOrder, Sides
  <1>4. b \in Rows /\ s \in Rows
        /\ b.reserved = Cost(b, b.open) /\ s.reserved = Cost(s, s.open)
    BY <1>2, <1>3
  <1>5. /\ b.open \in Nat /\ s.open \in Nat /\ b.price \in Nat /\ b.made \in Nat /\ b.taken \in Nat
        /\ b.charged \in Nat /\ b.reserved \in Nat /\ b.version \in Versions /\ s.version \in Versions
    BY <1>4, EngineAssumption DEF Rows
  <1>6. q \in Nat \ {0} /\ q <= b.open /\ q <= s.open
    BY <1>1, <1>2, <1>3, QuantityIsOpen DEF IndInv
  <1>7. book[m].price \in Nat /\ book[m].price <= b.price
    <2>1. book[m].price \in Nat /\ book[taker].price \in Nat
      BY <1>1, EngineAssumption DEF EngineOrder
    <2>2. CASE row[taker].side = "BUY"
      BY <2>1, <2>2, <1>1, <1>2 DEF Buyer, AsGood
    <2>3. CASE row[taker].side # "BUY"
      BY <2>1, <2>3, <1>2 DEF Buyer
    <2> QED
      BY <2>2, <2>3
  <1>8. /\ t.quantity = q /\ t.notional = n
        /\ t.made = b.made + (IF m = bo THEN n ELSE 0)
        /\ t.taken = b.taken + (IF m = bo THEN 0 ELSE n)
        /\ t.reduction = b.reserved - Cost(b, b.open - q)
        /\ t.due = Fee(t.made, mk) + Fee(t.taken, tk) - b.charged
        /\ t.most = t.reduction - t.notional
        /\ t.fee = IF t.due < t.most THEN t.due ELSE t.most
    BY ZenonT(60) DEF Terms
  <1>9. t.sellerFee = Fee(n, IF m = so THEN Schedules[s.version].maker ELSE Schedules[s.version].taker)
    BY ZenonT(60) DEF Terms
  <1> DEFINE br == IF m = bo THEN mk ELSE tk
             sr == IF m = so THEN Schedules[s.version].maker ELSE Schedules[s.version].taker
  <1>10. t.residual = (IF Residual(n, br) > t.fee THEN t.fee ELSE Residual(n, br)) + Residual(n, sr)
    BY ZenonT(60) DEF Terms
  <1> HIDE DEF br, sr
  <1>11. /\ b.charged <= Fee(b.made, mk) + Fee(b.taken, tk)
    BY <1>3, <1>4, OmsAssumption DEF IndInv, SpendingIsWithinLimit, Placed
  <1>12. mk \in Nat /\ tk \in Nat /\ Schedules[s.version].maker \in Nat
         /\ Schedules[s.version].taker \in Nat
    BY <1>5, RatesNat
  <1>13. Cost(b, b.open) - Cost(b, b.open - q) >= n /\ Cost(b, b.open - q) \in Nat
         /\ b.open - q \in Nat
    BY <1>3, <1>4, <1>5, <1>6, <1>7, CostFalls, CostNat
  <1>14. s.reserved = s.open
    BY <1>3, <1>4 DEF Cost
  <1> HIDE DEF t, bo, so, b, s, mk, tk, q
  <1>15. n \in Nat
    BY <1>6, <1>7
  <1> HIDE DEF n
  <1>16. t.made \in Nat /\ t.taken \in Nat /\ b.made <= t.made /\ b.taken <= t.taken
         /\ t.made + t.taken = b.made + b.taken + n
    BY <1>5, <1>8, <1>15
  <1>17. /\ Fee(b.made, mk) <= Fee(t.made, mk) /\ Fee(b.taken, tk) <= Fee(t.taken, tk)
         /\ Fee(b.made, mk) \in Nat /\ Fee(t.made, mk) \in Nat
         /\ Fee(b.taken, tk) \in Nat /\ Fee(t.taken, tk) \in Nat
    BY <1>5, <1>12, <1>16, FeeMonotone, FeeNat
  <1>18. t.due \in Nat
    BY <1>5, <1>8, <1>11, <1>17
  <1>19. t.reduction \in Nat /\ t.reduction >= n
         /\ b.reserved - t.reduction = Cost(b, b.open - q)
    BY <1>4, <1>5, <1>8, <1>13, <1>15
  <1>20. t.most \in Nat
    BY <1>8, <1>15, <1>19
  <1>21. t.fee \in Nat /\ t.fee <= t.due /\ t.fee <= t.most
    BY <1>8, <1>18, <1>20
  <1>22. t.sellerFee \in Nat
    BY <1>9, <1>12, <1>15, FeeNat
  <1>23. t.residual \in Nat
    BY <1>10, <1>21, ResidualNat
  <1> QED
    BY <1>3, <1>4, <1>6, <1>8, <1>13, <1>14, <1>15, <1>16, <1>18, <1>19, <1>20, <1>21, <1>22, <1>23
       DEF Sound, t, bo, so, b, s, q, mk, tk

LEMMA SoundIsConsistent ==
    ASSUME NEW m \in Orders, Sound(m)
    PROVE  Consistent(m)
  BY DEF Sound, Consistent, Rows

------------------------------------------------------------------------------
\* What the steps have in common.

\* Open quantities only fall, and nobody is placed or trades.
BookShrinks ==
    \A o \in Orders :
        /\ book'[o] # None => book[o] # None
        /\ book'[o] # None =>
              /\ book'[o].side = book[o].side /\ book'[o].price = book[o].price
              /\ book'[o].sequence = book[o].sequence
              /\ book'[o].open > 0 => book[o].open > 0

LEMMA ShrinkingKeepsOrder ==
    ASSUME SequencesGrow, NoOvertaking, BookShrinks, Placed' = Placed, UNCHANGED trades
    PROVE  SequencesGrow' /\ NoOvertaking'
  <1>1. SequencesGrow'
    BY DEF SequencesGrow, BookShrinks
  <1>2. NoOvertaking'
    BY DEF NoOvertaking, BookShrinks
  <1> QED
    BY <1>1, <1>2

\* Balances stay in Nat when one of them is replaced.
LEMMA BalanceTypes ==
    ASSUME NEW f \in [Parties -> [Sides -> Nat]], NEW p \in Parties, NEW s \in Sides, NEW v \in Nat
    PROVE  [f EXCEPT ![p][s] = v] \in [Parties -> [Sides -> Nat]]
  OBVIOUS

LEMMA InitInv == Init => IndInv
  <1> SUFFICES ASSUME Init PROVE IndInv
    OBVIOUS
  <1>1. TypeOK
    BY OmsAssumption DEF Init, TypeOK
  <1>2. \A o \in Orders : row[o] = None /\ book[o] = None
    BY DEF Init
  <1> QED
    BY <1>1, <1>2 DEF Init, IndInv, BookAgrees, ReservesAreExact, SpendingIsWithinLimit, Placed,
       OnlyTakerCrosses, OpenOrders, SequencesGrow, NoOvertaking

LEMMA FinishInv ==
    ASSUME IndInv, Finish
    PROVE  IndInv'
  <1>1. TypeOK'
    BY DEF IndInv, TypeOK, Finish, accounts
  <1>2. taker \in Orders /\ book[taker] # None
    BY DEF Finish, IndInv, TypeOK, OnlyTakerCrosses
  <1>3. \A x \in OpenOrders(book, "BUY"), y \in OpenOrders(book, "SELL") :
           ~ (book[x].price >= book[y].price)
    <2> SUFFICES ASSUME NEW x \in OpenOrders(book, "BUY"), NEW y \in OpenOrders(book, "SELL"),
                        book[x].price >= book[y].price
                 PROVE  FALSE
      OBVIOUS
    <2>1. x \in Orders /\ y \in Orders /\ book[x].side = "BUY" /\ book[y].side = "SELL"
          /\ book[x].open > 0 /\ book[y].open > 0
      BY DEF OpenOrders
    <2>2. book[x].price \in Nat /\ book[y].price \in Nat
      BY <2>1, EngineAssumption DEF OpenOrders, IndInv, TypeOK, EngineOrder
    <2>3. CASE taker = x
      <3>1. y \in Makers(book, taker)
        BY <2>1, <2>2, <2>3 DEF Makers, Opposite, PricesCross, AsGood
      <3> QED
        BY <3>1 DEF Finish
    <2>4. CASE taker = y
      <3>1. x \in Makers(book, taker)
        BY <2>1, <2>2, <2>4 DEF Makers, Opposite, PricesCross, AsGood
      <3> QED
        BY <3>1 DEF Finish
    <2> QED
      BY <2>3, <2>4 DEF IndInv, OnlyTakerCrosses
  <1>4. OnlyTakerCrosses'
    BY <1>3 DEF Finish, OnlyTakerCrosses, OpenOrders
  <1> QED
    BY <1>1, <1>4 DEF Finish, IndInv, BookAgrees, ReservesAreExact, SpendingIsWithinLimit, Placed,
       SequencesGrow, NoOvertaking

LEMMA ChangeFeesInv ==
    ASSUME IndInv, ChangeFees
    PROVE  IndInv'
  BY DEF ChangeFees, accounts, IndInv, TypeOK, BookAgrees, ReservesAreExact, SpendingIsWithinLimit,
     Placed, OnlyTakerCrosses, OpenOrders, SequencesGrow, NoOvertaking

------------------------------------------------------------------------------
\* Closing an order.

LEMMA CloseInv ==
    ASSUME IndInv, NEW o \in Orders, book[o] # None, CloseOrder(o),
           taker \in {None, o}, taker' = None
    PROVE  IndInv'
  <1> DEFINE r == row[o]
  <1>1. /\ r \in Rows /\ book[o] \in EngineOrder
    BY EngineAssumption, OmsAssumption DEF IndInv, TypeOK, BookAgrees
  <1>2. /\ row' = [row EXCEPT ![o] = [r EXCEPT !.open = 0, !.reserved = 0, !.status = "CANCELLED"]]
        /\ book' = [book EXCEPT ![o] = [book[o] EXCEPT !.open = 0]]
        /\ UNCHANGED <<version, clearing, trades>>
    BY DEF CloseOrder, Close
  <1>3. /\ [r EXCEPT !.open = 0, !.reserved = 0, !.status = "CANCELLED"] \in Rows
        /\ [book[o] EXCEPT !.open = 0] \in EngineOrder
    BY <1>1 DEF Rows, EngineOrder, Statuses
  <1>4. row' \in [Orders -> {None} \cup Rows] /\ book' \in [Orders -> {None} \cup EngineOrder]
    BY <1>2, <1>3 DEF IndInv, TypeOK
  <1>5. available' \in [Parties -> [Sides -> Nat]] /\ reserved' \in [Parties -> [Sides -> Nat]]
    <2>1. r.party \in Parties /\ r.side \in Sides /\ r.reserved \in Nat
      BY <1>1 DEF Rows
    <2>2. available[r.party][r.side] \in Nat /\ reserved[r.party][r.side] \in Nat
      BY <2>1 DEF IndInv, TypeOK
    <2>3. /\ available[r.party][r.side] + r.reserved \in Nat
          /\ reserved[r.party][r.side] - r.reserved \in Nat
      BY <2>1, <2>2 DEF CloseOrder
    <2>4. /\ available' = [available EXCEPT ![r.party][r.side] = available[r.party][r.side] + r.reserved]
          /\ reserved' = [reserved EXCEPT ![r.party][r.side] = reserved[r.party][r.side] - r.reserved]
      BY DEF CloseOrder
    <2> HIDE DEF r
    <2> QED
      BY <2>1, <2>3, <2>4, BalanceTypes DEF IndInv, TypeOK
  <1>6. TypeOK'
    BY <1>2, <1>4, <1>5 DEF IndInv, TypeOK
  <1>7. \A p \in Orders :
           /\ row'[p] = IF p = o THEN [r EXCEPT !.open = 0, !.reserved = 0, !.status = "CANCELLED"]
                        ELSE row[p]
           /\ book'[p] = IF p = o THEN [book[o] EXCEPT !.open = 0] ELSE book[p]
    BY <1>2 DEF IndInv, TypeOK
  <1>8. /\ row'[o] \in Rows /\ row'[o].open = 0 /\ row'[o].reserved = 0
        /\ row'[o].party = r.party /\ row'[o].side = r.side /\ row'[o].price = r.price
        /\ row'[o].version = r.version /\ row'[o].made = r.made /\ row'[o].taken = r.taken
        /\ row'[o].charged = r.charged /\ row'[o].reservation = r.reservation
        /\ book'[o].open = 0 /\ book'[o].party = book[o].party /\ book'[o].side = book[o].side
        /\ book'[o].price = book[o].price /\ book'[o].sequence = book[o].sequence
    BY <1>1, <1>3, <1>7 DEF Rows, EngineOrder
  <1>9. row'[o] # None /\ book'[o] # None /\ r # None
    BY <1>1, <1>3, <1>7, EngineAssumption, OmsAssumption
  <1> HIDE DEF r
  <1>10. \A p \in Orders \ {o} : row'[p] = row[p] /\ book'[p] = book[p]
    BY <1>7
  <1>11. BookAgrees'
    BY <1>8, <1>9, <1>10 DEF IndInv, BookAgrees, r
  <1>12. ReservesAreExact'
    <2>1. Cost(row'[o], 0) = 0
      BY <1>8, CostOfNothing
    <2> QED
      BY <2>1, <1>8, <1>10 DEF IndInv, ReservesAreExact, Cost
  <1>13. Placed' = Placed
    BY <1>9, <1>10 DEF Placed, r
  <1>14. SpendingIsWithinLimit'
    <2>1. r.made \in Nat /\ r.taken \in Nat /\ r.charged \in Nat /\ r.reserved \in Nat /\ r.reservation \in Nat
      BY <1>1 DEF Rows
    <2>2. row'[o].side = "BUY" =>
             row'[o].made + row'[o].taken + row'[o].charged + row'[o].reserved <= row'[o].reservation
      <3>1. r.side = "BUY" => r.made + r.taken + r.charged + r.reserved <= r.reservation
        BY <1>9 DEF IndInv, SpendingIsWithinLimit, Placed, r
      <3>2. r.side = "BUY" => r.made + r.taken + r.charged + 0 <= r.reservation
        BY <2>1, <3>1
      <3> QED
        BY <1>8, <3>2
    <2> QED
      BY <2>2, <1>8, <1>9, <1>10, <1>13 DEF IndInv, SpendingIsWithinLimit, Placed, r, Fee
  <1>15. BookShrinks
    BY <1>8, <1>10 DEF BookShrinks
  <1>16. SequencesGrow' /\ NoOvertaking'
    BY <1>2, <1>13, <1>15, ShrinkingKeepsOrder DEF IndInv
  <1>17. OnlyTakerCrosses'
    <2>1. \A x, s : x \in OpenOrders(book', s) => x # o /\ x \in OpenOrders(book, s)
      BY <1>8, <1>10 DEF OpenOrders
    <2>2. \A x \in OpenOrders(book', "BUY"), y \in OpenOrders(book', "SELL") :
             ~ (book'[x].price >= book'[y].price)
      <3> SUFFICES ASSUME NEW x \in OpenOrders(book', "BUY"), NEW y \in OpenOrders(book', "SELL"),
                          book'[x].price >= book'[y].price
                   PROVE  FALSE
        OBVIOUS
      <3>1. x \in OpenOrders(book, "BUY") /\ y \in OpenOrders(book, "SELL") /\ x # o /\ y # o
        BY <2>1
      <3>2. x \in Orders /\ y \in Orders /\ book'[x] = book[x] /\ book'[y] = book[y]
        BY <3>1, <1>10 DEF OpenOrders
      <3>3. taker \in {x, y}
        BY <3>1, <3>2 DEF IndInv, OnlyTakerCrosses
      <3> QED
        BY <3>1, <3>2, <3>3, EngineAssumption
    <2> QED
      BY <2>2 DEF OnlyTakerCrosses
  <1> QED
    BY <1>6, <1>11, <1>12, <1>14, <1>16, <1>17 DEF IndInv

LEMMA CancelInv ==
    ASSUME IndInv, NEW o \in Orders, Cancel(o)
    PROVE  IndInv'
  <1>1. book[o] # None
    BY DEF Cancel, Live, IndInv, BookAgrees
  <1> QED
    BY <1>1, CloseInv DEF Cancel

LEMMA PreventSelfTradeInv ==
    ASSUME IndInv, NEW m \in Orders, PreventSelfTrade(m)
    PROVE  IndInv'
  <1>1. taker \in Orders /\ book[taker] # None
    BY DEF PreventSelfTrade, IndInv, TypeOK, OnlyTakerCrosses
  <1> QED
    BY <1>1, CloseInv DEF PreventSelfTrade

------------------------------------------------------------------------------
\* Placing an order.

LEMMA NewRowFacts ==
    ASSUME TypeOK, NEW p \in Parties, NEW s \in Sides, NEW price \in Prices, NEW q \in Quantities
    PROVE  LET r == NewRow(p, s, price, q) IN
           /\ r \in Rows
           /\ r.party = p /\ r.side = s /\ r.price = price /\ r.open = q
           /\ r.made = 0 /\ r.taken = 0 /\ r.charged = 0 /\ r.version = version
           /\ r.reserved = Cost(r, q) /\ r.reservation = Cost(r, q)
  <1> DEFINE e == [party |-> p, side |-> s, price |-> price, quantity |-> q, open |-> q,
                   status |-> "OPEN", version |-> version, reservation |-> 0, reserved |-> 0,
                   made |-> 0, taken |-> 0, charged |-> 0]
             r == NewRow(p, s, price, q)
  <1>1. q \in Nat
    BY EngineAssumption
  <1>2. e \in Rows
    BY <1>1 DEF TypeOK, Rows, Statuses
  <1>3. Cost(e, q) \in Nat
    BY <1>1, <1>2, CostNat
  <1>4. r = [e EXCEPT !.reservation = Cost(e, q), !.reserved = Cost(e, q)]
    BY DEF NewRow
  <1> DEFINE c == Cost(e, q)
  <1>5. r = [party |-> p, side |-> s, price |-> price, quantity |-> q, open |-> q,
             status |-> "OPEN", version |-> version, reservation |-> c, reserved |-> c,
             made |-> 0, taken |-> 0, charged |-> 0]
    BY <1>4
  <1>6. Cost(r, q) = c
    BY <1>5 DEF Cost
  <1> HIDE DEF c, e, r
  <1>7. r \in Rows
    BY <1>1, <1>3, <1>5 DEF TypeOK, Rows, Statuses, c
  <1> QED
    BY <1>5, <1>6, <1>7 DEF r

\* Nothing has been charged to a new order.
LEMMA NewOrderIsWithinLimit ==
    ASSUME NEW r \in Rows, r.made = 0, r.taken = 0, r.charged = 0, r.reserved <= r.reservation
    PROVE  /\ r.made + r.taken + r.charged + r.reserved <= r.reservation
           /\ r.charged <= Fee(r.made, Schedules[r.version].maker)
                             + Fee(r.taken, Schedules[r.version].taker)
  <1>1. r.version \in Versions /\ r.reserved \in Nat /\ r.reservation \in Nat
    BY DEF Rows
  <1>2. Fee(0, Schedules[r.version].maker) = 0 /\ Fee(0, Schedules[r.version].taker) = 0
    BY <1>1, RatesNat, FeeOfNothing
  <1> QED
    BY <1>1, <1>2

LEMMA PlacedGrows ==
    ASSUME TypeOK, NEW o \in Orders, row[o] = None, NEW r \in Rows, row' = [row EXCEPT ![o] = r]
    PROVE  /\ Placed' = Placed \cup {o}
           /\ Cardinality(Placed) \in Nat
           /\ Cardinality(Placed') = Cardinality(Placed) + 1
  <1>1. Placed' = Placed \cup {o}
    BY OmsAssumption DEF TypeOK, Placed
  <1>2. IsFiniteSet(Placed) /\ o \notin Placed
    BY OmsAssumption, FS_Subset DEF Placed
  <1> QED
    BY <1>1, <1>2, FS_AddElement, FS_CardinalityType

LEMMA PlaceRejectedInv ==
    ASSUME IndInv, NEW o \in Orders, NEW p \in Parties, NEW s \in Sides, NEW price \in Prices,
           NEW q \in Quantities, PlaceRejected(o, p, s, price, q)
    PROVE  IndInv'
  <1> DEFINE n == NewRow(p, s, price, q)
             r == [n EXCEPT !.open = 0, !.reserved = 0, !.status = "REJECTED"]
  <1>1. n \in Rows /\ n.made = 0 /\ n.taken = 0 /\ n.charged = 0
    BY NewRowFacts DEF IndInv
  <1> HIDE DEF n
  <1>2. /\ r \in Rows /\ r.made = 0 /\ r.taken = 0 /\ r.charged = 0
        /\ r.open = 0 /\ r.reserved = 0 /\ r.status = "REJECTED"
    BY <1>1 DEF Rows, Statuses
  <1>3. row[o] = None /\ row' = [row EXCEPT ![o] = r]
    BY DEF PlaceRejected, n
  <1>4. UNCHANGED <<book, version, available, reserved, clearing, trades, taker>>
    BY DEF PlaceRejected, accounts
  <1> HIDE DEF r
  <1>5. TypeOK'
    BY <1>2, <1>3, <1>4 DEF IndInv, TypeOK
  <1>6. row'[o] = r /\ \A x \in Orders \ {o} : row'[x] = row[x]
    BY <1>3 DEF IndInv, TypeOK
  <1>7. book[o] = None
    BY <1>3 DEF IndInv, BookAgrees
  <1>8. BookAgrees'
    BY <1>2, <1>4, <1>6, <1>7 DEF IndInv, BookAgrees
  <1>9. ReservesAreExact'
    <2>1. Cost(r, 0) = 0
      BY <1>2, CostOfNothing
    <2> QED
      BY <2>1, <1>2, <1>6 DEF IndInv, ReservesAreExact, Cost
  <1>10. Placed' = Placed \cup {o} /\ Cardinality(Placed) \in Nat
         /\ Cardinality(Placed') = Cardinality(Placed) + 1
    BY <1>2, <1>3, PlacedGrows DEF IndInv
  <1>11. SpendingIsWithinLimit'
    <2>1. r.reserved <= r.reservation
      BY <1>2 DEF Rows
    <2>2. /\ r.made + r.taken + r.charged + r.reserved <= r.reservation
          /\ r.charged <= Fee(r.made, Schedules[r.version].maker)
                            + Fee(r.taken, Schedules[r.version].taker)
      BY <1>2, <2>1, NewOrderIsWithinLimit
    <2>3. \A x \in Placed' : x = o \/ (x \in Placed /\ row'[x] = row[x])
      BY <1>6, <1>10 DEF Placed
    <2> QED
      BY <2>2, <2>3, <1>6 DEF IndInv, SpendingIsWithinLimit, Fee
  <1>12. SequencesGrow'
    <2>1. \A x \in Orders : book[x] # None => book[x].sequence \in Nat
      BY DEF IndInv, TypeOK, EngineOrder
    <2> QED
      BY <2>1, <1>4, <1>10 DEF IndInv, SequencesGrow
  <1>13. OnlyTakerCrosses' /\ NoOvertaking'
    BY <1>4 DEF IndInv, OnlyTakerCrosses, OpenOrders, NoOvertaking
  <1> QED
    BY <1>5, <1>8, <1>9, <1>11, <1>12, <1>13 DEF IndInv

LEMMA PlaceInv ==
    ASSUME IndInv, NEW o \in Orders, NEW p \in Parties, NEW s \in Sides, NEW price \in Prices,
           NEW q \in Quantities, Place(o, p, s, price, q)
    PROVE  IndInv'
  <1> DEFINE r == NewRow(p, s, price, q)
             e == [party |-> p, side |-> s, price |-> price, open |-> q,
                   sequence |-> Cardinality(Placed) + 1]
  <1>1. /\ r \in Rows
        /\ r.party = p /\ r.side = s /\ r.price = price /\ r.open = q
        /\ r.made = 0 /\ r.taken = 0 /\ r.charged = 0
        /\ r.reserved = Cost(r, q) /\ r.reservation = Cost(r, q)
    BY NewRowFacts DEF IndInv
  <1>2. /\ row[o] = None /\ row' = [row EXCEPT ![o] = r]
        /\ book' = [book EXCEPT ![o] = e]
        /\ available[p][s] >= r.reserved
        /\ available' = [available EXCEPT ![p][s] = available[p][s] - r.reserved]
        /\ reserved' = [reserved EXCEPT ![p][s] = reserved[p][s] + r.reserved]
        /\ taker = None /\ taker' = o
        /\ UNCHANGED <<version, clearing, trades>>
    BY DEF Place, Accept
  <1> HIDE DEF r
  <1>3. Placed' = Placed \cup {o} /\ Cardinality(Placed) \in Nat
        /\ Cardinality(Placed') = Cardinality(Placed) + 1
    BY <1>1, <1>2, PlacedGrows DEF IndInv
  <1>4. /\ e \in EngineOrder /\ e # None /\ e.party = p /\ e.side = s /\ e.price = price
        /\ e.open = q /\ e.sequence = Cardinality(Placed) + 1
    <2>1. e \in EngineOrder
      BY <1>3, EngineAssumption DEF EngineOrder
    <2> QED
      BY <2>1, EngineAssumption
  <1> HIDE DEF e
  <1>5. available' \in [Parties -> [Sides -> Nat]] /\ reserved' \in [Parties -> [Sides -> Nat]]
    <2>1. r.reserved \in Nat /\ available[p][s] \in Nat /\ reserved[p][s] \in Nat
      BY <1>1 DEF Rows, IndInv, TypeOK
    <2>2. available[p][s] - r.reserved \in Nat /\ reserved[p][s] + r.reserved \in Nat
      BY <2>1, <1>2
    <2> QED
      BY <2>2, <1>2, BalanceTypes DEF IndInv, TypeOK
  <1>6. TypeOK'
    BY <1>1, <1>2, <1>4, <1>5 DEF IndInv, TypeOK
  <1>7. /\ row'[o] = r /\ book'[o] = e
        /\ \A x \in Orders \ {o} : row'[x] = row[x] /\ book'[x] = book[x]
    BY <1>2 DEF IndInv, TypeOK
  <1>8. r # None /\ o # None
    BY <1>1, OmsAssumption, EngineAssumption
  <1>9. BookAgrees'
    BY <1>1, <1>4, <1>7, <1>8 DEF IndInv, BookAgrees
  <1>10. ReservesAreExact'
    BY <1>1, <1>7 DEF IndInv, ReservesAreExact, Cost
  <1>11. SpendingIsWithinLimit'
    <2>1. r.reserved <= r.reservation
      BY <1>1 DEF Rows
    <2>2. /\ r.made + r.taken + r.charged + r.reserved <= r.reservation
          /\ r.charged <= Fee(r.made, Schedules[r.version].maker)
                            + Fee(r.taken, Schedules[r.version].taker)
      BY <1>1, <2>1, NewOrderIsWithinLimit
    <2>3. \A x \in Placed' : x = o \/ (x \in Placed /\ row'[x] = row[x])
      BY <1>7, <1>3 DEF Placed
    <2> QED
      BY <2>2, <2>3, <1>7 DEF IndInv, SpendingIsWithinLimit, Fee
  <1>12. SequencesGrow'
    <2>1. \A x \in Orders : book[x] # None => book[x].sequence \in Nat
      BY DEF IndInv, TypeOK, EngineOrder
    <2> QED
      BY <2>1, <1>2, <1>3, <1>4, <1>7 DEF IndInv, SequencesGrow
  <1>13. OnlyTakerCrosses'
    <2> SUFFICES ASSUME NEW x \in OpenOrders(book', "BUY"), NEW y \in OpenOrders(book', "SELL"),
                        book'[x].price >= book'[y].price, o \notin {x, y}
                 PROVE  FALSE
      BY <1>2, <1>4, <1>7 DEF OnlyTakerCrosses
    <2>1. /\ x \in Orders /\ y \in Orders /\ book'[x] = book[x] /\ book'[y] = book[y]
          /\ x \in OpenOrders(book, "BUY") /\ y \in OpenOrders(book, "SELL")
      BY <1>7 DEF OpenOrders
    <2>2. taker \in {x, y}
      BY <2>1 DEF IndInv, OnlyTakerCrosses
    <2> QED
      BY <2>1, <2>2, <1>2, EngineAssumption
  <1>14. NoOvertaking'
    <2> SUFFICES ASSUME NEW x \in Orders, NEW y \in Orders,
                        book'[x] # None, book'[x].open > 0,
                        book'[y] # None, book'[y].side = book'[x].side,
                        book'[x].sequence < book'[y].sequence,
                        AsGood(book'[x].side, book'[x].price, book'[y].price),
                        NEW t \in trades, y \in {t.buy, t.sell}
                 PROVE  FALSE
      BY <1>2 DEF NoOvertaking
    <2>1. y # o
      BY <1>2 DEF IndInv, SequencesGrow, Placed
    <2>2. CASE x = o
      <3>1. book[y] # None /\ book[y].sequence \in Nat /\ book[y].sequence <= Cardinality(Placed)
        BY <2>1, <1>7 DEF IndInv, SequencesGrow, TypeOK, EngineOrder
      <3> QED
        BY <3>1, <2>1, <2>2, <1>3, <1>4, <1>7
    <2>3. CASE x # o
      BY <2>1, <2>3, <1>7 DEF IndInv, NoOvertaking
    <2> QED
      BY <2>2, <2>3
  <1> QED
    BY <1>6, <1>9, <1>10, <1>11, <1>12, <1>13, <1>14 DEF IndInv

------------------------------------------------------------------------------
\* A trade.

\* A maker that is met has no earlier order of its side in front of it.
LEMMA MakerIsFirst ==
    ASSUME IndInv, taker # None, NEW m \in Orders, Maker(book, taker, m),
           NEW x \in Orders, book[x] # None, book[x].open > 0, NEW y \in {taker, m},
           book[y].side = book[x].side, book[x].sequence < book[y].sequence,
           AsGood(book[x].side, book[x].price, book[y].price)
    PROVE  FALSE
  <1>1. /\ taker \in Orders /\ m # taker
        /\ book[taker] \in EngineOrder /\ book[m] \in EngineOrder
        /\ book[m].side = Opposite(book[taker].side)
        /\ book[taker].open > 0 /\ book[m].open > 0
        /\ AsGood(book[taker].side, book[taker].price, book[m].price)
    BY MakerIsOpposite DEF IndInv, OnlyTakerCrosses
  <1>2. /\ book[x].price \in Nat /\ book[m].price \in Nat /\ book[taker].price \in Nat
        /\ book[x].sequence \in Nat /\ book[m].sequence \in Nat /\ book[taker].sequence \in Nat
        /\ book[taker].side \in Sides
    BY <1>1, EngineAssumption DEF IndInv, TypeOK, EngineOrder
  <1>3. CASE y = m
    <2>1. x \in Makers(book, taker)
      BY <1>1, <1>2, <1>3 DEF Makers, OpenOrders, PricesCross, AsGood, Opposite, Sides
    <2>2. First(book, m, x)
      BY <2>1 DEF Maker
    <2> QED
      BY <2>2, <1>1, <1>2, <1>3 DEF First, AsGood
  <1>4. CASE y = taker
    <2>1. x # taker
      BY <1>2, <1>4
    <2>2. CASE book[taker].side = "BUY"
      <3>1. /\ x \in OpenOrders(book, "BUY") /\ m \in OpenOrders(book, "SELL")
            /\ book[x].price >= book[m].price
        BY <1>1, <1>2, <1>4, <2>2, EngineAssumption DEF OpenOrders, AsGood, Opposite
      <3> QED
        BY <3>1, <2>1, <1>1 DEF IndInv, OnlyTakerCrosses
    <2>3. CASE book[taker].side = "SELL"
      <3>1. /\ x \in OpenOrders(book, "SELL") /\ m \in OpenOrders(book, "BUY")
            /\ book[m].price >= book[x].price
        BY <1>1, <1>2, <1>4, <2>3, EngineAssumption DEF OpenOrders, AsGood, Opposite
      <3> QED
        BY <3>1, <2>1, <1>1 DEF IndInv, OnlyTakerCrosses
    <2> QED
      BY <2>2, <2>3, <1>2 DEF Sides
  <1> QED
    BY <1>3, <1>4

\* The rows of buyer and seller after the trade.
BuyerAfter(b, t) ==
    [b EXCEPT !.open = b.open - t.quantity, !.reserved = b.reserved - t.reduction,
              !.status = Filled(b.open - t.quantity),
              !.made = t.made, !.taken = t.taken, !.charged = b.charged + t.fee]
SellerAfter(s, t) ==
    [s EXCEPT !.open = s.open - t.quantity, !.reserved = s.reserved - t.quantity,
              !.status = Filled(s.open - t.quantity)]

LEMMA FilledType ==
    ASSUME NEW n
    PROVE  Filled(n) \in Statuses
  BY DEF Filled, Statuses

\* A row stays one when amounts and status are replaced.
LEMMA SellerRowType ==
    ASSUME NEW r \in Rows, NEW n \in Nat, NEW v \in Nat, NEW st \in Statuses
    PROVE  [r EXCEPT !.open = n, !.reserved = v, !.status = st] \in Rows
  BY DEF Rows

LEMMA BuyerRowType ==
    ASSUME NEW r \in Rows, NEW n \in Nat, NEW v \in Nat, NEW st \in Statuses,
           NEW i \in Nat, NEW j \in Nat, NEW c \in Nat
    PROVE  [r EXCEPT !.open = n, !.reserved = v, !.status = st,
                     !.made = i, !.taken = j, !.charged = c] \in Rows
  BY DEF Rows

LEMMA FillRows ==
    ASSUME IndInv, NEW m \in Orders, Sound(m), Fill(m)
    PROVE  LET t == Terms(m)
               b == Buyer(m)
               s == Seller(m) IN
           /\ row' \in [Orders -> {None} \cup Rows]
           /\ row'[b] = BuyerAfter(row[b], t) /\ row'[s] = SellerAfter(row[s], t)
           /\ row'[b] \in Rows /\ row'[s] \in Rows
           /\ \A o \in Orders \ {b, s} : row'[o] = row[o]
  <1> DEFINE t == Terms(m)
             b == Buyer(m)
             s == Seller(m)
  <1>1. /\ b \in Orders /\ s \in Orders /\ b # s /\ row[b] \in Rows /\ row[s] \in Rows
        /\ t.quantity \in Nat \ {0} /\ t.quantity <= row[b].open /\ t.quantity <= row[s].open
        /\ row[s].reserved = row[s].open
        /\ t.made \in Nat /\ t.taken \in Nat /\ t.fee \in Nat
        /\ row[b].open - t.quantity \in Nat
        /\ row[b].reserved - t.reduction = Cost(row[b], row[b].open - t.quantity)
    BY SMTT(40) DEF Sound
  <1>2. row' = [row EXCEPT
           ![b].open = @ - t.quantity, ![b].reserved = @ - t.reduction,
           ![b].status = Filled(row[b].open - t.quantity),
           ![b].made = t.made, ![b].taken = t.taken, ![b].charged = @ + t.fee,
           ![s].open = @ - t.quantity, ![s].reserved = @ - t.quantity,
           ![s].status = Filled(row[s].open - t.quantity)]
    BY ZenonT(60) DEF Fill, ApplyTrade
  <1> HIDE DEF t, b, s
  <1>3. row \in [Orders -> {None} \cup Rows]
    BY DEF IndInv, TypeOK
  <1>4. /\ row[b].open \in Nat /\ row[s].open \in Nat /\ row[b].charged \in Nat
    BY <1>1 DEF Rows
  <1>5. Cost(row[b], row[b].open - t.quantity) \in Nat
    BY <1>1, CostNat
  <1>6. BuyerAfter(row[b], t) \in Rows
    <2> DEFINE n == row[b].open - t.quantity
               v == row[b].reserved - t.reduction
               c == row[b].charged + t.fee
    <2>1. n \in Nat /\ c \in Nat /\ v \in Nat
      BY <1>1, <1>4, <1>5
    <2>2. Filled(n) \in Statuses
      BY FilledType
    <2>3. BuyerAfter(row[b], t) =
             [row[b] EXCEPT !.open = n, !.reserved = v, !.status = Filled(n),
                            !.made = t.made, !.taken = t.taken, !.charged = c]
      BY DEF BuyerAfter
    <2> HIDE DEF n, v, c
    <2>4. [row[b] EXCEPT !.open = n, !.reserved = v, !.status = Filled(n),
                         !.made = t.made, !.taken = t.taken, !.charged = c] \in Rows
      BY <2>1, <2>2, <1>1, BuyerRowType, ZenonT(60)
    <2> QED
      BY <2>3, <2>4
  <1>7. SellerAfter(row[s], t) \in Rows
    <2>1. row[s].open - t.quantity \in Nat /\ row[s].reserved - t.quantity \in Nat
      BY <1>1, <1>4
    <2>2. row[s].open - t.quantity \in Nat
          /\ Filled(row[s].open - t.quantity) \in Statuses
      BY <2>1, FilledType
    <2> QED
      BY <2>1, <2>2, <1>1, SellerRowType DEF SellerAfter
  <1>8. row' = [row EXCEPT ![b] = BuyerAfter(row[b], t), ![s] = SellerAfter(row[s], t)]
    BY <1>1, <1>2, <1>3, ZenonT(60) DEF BuyerAfter, SellerAfter
  <1> QED
    BY <1>1, <1>3, <1>6, <1>7, <1>8 DEF t, b, s

\* What a trade changes in a row, and what it leaves.
LEMMA RowsAfter ==
    ASSUME NEW r \in Rows, NEW t
    PROVE  /\ BuyerAfter(r, t).party = r.party /\ BuyerAfter(r, t).side = r.side
           /\ BuyerAfter(r, t).price = r.price /\ BuyerAfter(r, t).version = r.version
           /\ BuyerAfter(r, t).reservation = r.reservation
           /\ BuyerAfter(r, t).open = r.open - t.quantity
           /\ BuyerAfter(r, t).reserved = r.reserved - t.reduction
           /\ BuyerAfter(r, t).status \in {"FILLED", "PARTIALLY_FILLED"}
           /\ BuyerAfter(r, t).made = t.made /\ BuyerAfter(r, t).taken = t.taken
           /\ BuyerAfter(r, t).charged = r.charged + t.fee
           /\ SellerAfter(r, t).party = r.party /\ SellerAfter(r, t).side = r.side
           /\ SellerAfter(r, t).price = r.price
           /\ SellerAfter(r, t).open = r.open - t.quantity
           /\ SellerAfter(r, t).reserved = r.reserved - t.quantity
           /\ SellerAfter(r, t).status \in {"FILLED", "PARTIALLY_FILLED"}
  BY DEF BuyerAfter, SellerAfter, Rows, Filled

LEMMA OpenFalls ==
    ASSUME NEW e \in EngineOrder, NEW q \in Nat, q <= e.open
    PROVE  LET f == [e EXCEPT !.open = e.open - q] IN
           /\ f \in EngineOrder
           /\ f.party = e.party /\ f.side = e.side /\ f.price = e.price
           /\ f.sequence = e.sequence /\ f.open = e.open - q
           /\ f.open > 0 => e.open > 0
  BY DEF EngineOrder

LEMMA FillBook ==
    ASSUME IndInv, NEW m \in Orders, Sound(m), Fill(m)
    PROVE  LET q == Terms(m).quantity IN
           /\ taker \in Orders /\ taker # m
           /\ book[taker] \in EngineOrder /\ book[m] \in EngineOrder
           /\ q \in Nat /\ q <= book[taker].open /\ q <= book[m].open
           /\ book' \in [Orders -> {None} \cup EngineOrder]
           /\ \A o \in {taker, m} : book'[o] = [book[o] EXCEPT !.open = book[o].open - q]
           /\ \A o \in Orders \ {taker, m} : book'[o] = book[o]
           /\ BookShrinks
  <1> DEFINE q == Terms(m).quantity
  <1>1. /\ taker \in Orders /\ m # taker
        /\ book[taker] \in EngineOrder /\ book[m] \in EngineOrder
        /\ book[taker].open > 0 /\ book[m].open > 0
    BY MakerIsOpposite DEF IndInv, OnlyTakerCrosses, Fill
  <1>2. q \in Nat /\ q <= book[taker].open /\ q <= book[m].open
    BY <1>1, QuantityIsOpen DEF Sound, IndInv
  <1>3. book' = [book EXCEPT ![taker].open = @ - q, ![m].open = @ - q]
    BY DEF Fill, Execute
  <1> HIDE DEF q
  <1>4. book \in [Orders -> {None} \cup EngineOrder]
    BY DEF IndInv, TypeOK
  <1> DEFINE after(o) == [book[o] EXCEPT !.open = book[o].open - q]
  <1>5. book' = [book EXCEPT ![taker] = after(taker), ![m] = after(m)]
    BY <1>1, <1>3, <1>4
  <1>6. \A o \in {taker, m} :
           /\ after(o) \in EngineOrder
           /\ after(o).side = book[o].side /\ after(o).price = book[o].price
           /\ after(o).sequence = book[o].sequence
           /\ after(o).open > 0 => book[o].open > 0
    BY <1>1, <1>2, OpenFalls
  <1>7. /\ \A o \in {taker, m} : book'[o] = after(o)
        /\ \A o \in Orders \ {taker, m} : book'[o] = book[o]
    BY <1>1, <1>4, <1>5
  <1> HIDE DEF after
  <1>8. book' \in [Orders -> {None} \cup EngineOrder]
    BY <1>1, <1>4, <1>5, <1>6
  <1>9. BookShrinks
    <2> SUFFICES ASSUME NEW o \in Orders, book'[o] # None
                 PROVE  /\ book[o] # None
                        /\ book'[o].side = book[o].side /\ book'[o].price = book[o].price
                        /\ book'[o].sequence = book[o].sequence
                        /\ book'[o].open > 0 => book[o].open > 0
      BY DEF BookShrinks
    <2>1. CASE o \in {taker, m}
      BY <2>1, <1>1, <1>6, <1>7, EngineAssumption
    <2>2. CASE o \notin {taker, m}
      BY <2>2, <1>7
    <2> QED
      BY <2>1, <2>2
  <1> QED
    BY <1>1, <1>2, <1>7, <1>8, <1>9 DEF q, after

LEMMA FillBalances ==
    ASSUME TypeOK, NEW m \in Orders, Sound(m), Fill(m)
    PROVE  /\ available' \in [Parties -> [Sides -> Nat]]
           /\ reserved' \in [Parties -> [Sides -> Nat]]
           /\ clearing' \in [Sides -> Nat]
  <1> DEFINE t == Terms(m)
             pb == row[Buyer(m)].party
             ps == row[Seller(m)].party
  <1>1. /\ pb \in Parties /\ ps \in Parties
        /\ t.quantity \in Nat /\ t.reduction \in Nat /\ t.notional \in Nat
        /\ t.most \in Nat /\ t.fee \in Nat /\ t.fee <= t.most
    <2>1. row[Buyer(m)] \in Rows /\ row[Seller(m)] \in Rows
      BY DEF Sound
    <2>2. pb \in Parties /\ ps \in Parties
      BY <2>1 DEF Rows
    <2> QED
      BY <2>2 DEF Sound
  <1>2. /\ reserved[pb]["BUY"] >= t.reduction /\ reserved[ps]["SELL"] >= t.quantity
        /\ reserved' = [reserved EXCEPT ![pb]["BUY"] = @ - t.reduction,
                                        ![ps]["SELL"] = @ - t.quantity]
        /\ available' = [available EXCEPT ![pb]["BUY"] = available[pb]["BUY"] + t.most - t.fee]
        /\ clearing' = [clearing EXCEPT !["BUY"] = clearing["BUY"] + t.notional + t.fee,
                                        !["SELL"] = clearing["SELL"] + t.quantity]
    BY ZenonT(60) DEF Fill, ApplyTrade, Sides
  <1>3. /\ reserved \in [Parties -> [Sides -> Nat]] /\ available \in [Parties -> [Sides -> Nat]]
        /\ clearing \in [Sides -> Nat] /\ "BUY" \in Sides /\ "SELL" \in Sides
    BY DEF TypeOK, Sides
  <1> HIDE DEF t, pb, ps
  <1>4. /\ reserved[pb]["BUY"] \in Nat /\ reserved[ps]["SELL"] \in Nat
        /\ available[pb]["BUY"] \in Nat /\ clearing["BUY"] \in Nat /\ clearing["SELL"] \in Nat
    BY <1>1, <1>3
  <1>5. /\ reserved[pb]["BUY"] - t.reduction \in Nat /\ reserved[ps]["SELL"] - t.quantity \in Nat
        /\ available[pb]["BUY"] + t.most - t.fee \in Nat
        /\ clearing["BUY"] + t.notional + t.fee \in Nat /\ clearing["SELL"] + t.quantity \in Nat
    BY <1>1, <1>2, <1>4
  <1> DEFINE f == [reserved EXCEPT ![pb]["BUY"] = reserved[pb]["BUY"] - t.reduction]
  <1>6. f \in [Parties -> [Sides -> Nat]]
    BY <1>1, <1>3, <1>5, BalanceTypes
  <1>7. f[ps]["SELL"] = reserved[ps]["SELL"]
    BY <1>1, <1>3
  <1>8. reserved' = [f EXCEPT ![ps]["SELL"] = f[ps]["SELL"] - t.quantity]
    BY <1>2
  <1> HIDE DEF f
  <1>9. reserved' \in [Parties -> [Sides -> Nat]]
    BY <1>1, <1>3, <1>5, <1>6, <1>7, <1>8, BalanceTypes
  <1>10. available' \in [Parties -> [Sides -> Nat]]
    BY <1>1, <1>2, <1>3, <1>5, BalanceTypes
  <1>11. clearing' \in [Sides -> Nat]
    BY <1>2, <1>3, <1>5
  <1> QED
    BY <1>9, <1>10, <1>11

\* The trade that is recorded.
LEMMA FillTrades ==
    ASSUME IndInv, NEW m \in Orders, Sound(m), Fill(m)
    PROVE  \E new \in Trades :
              /\ trades' = trades \cup {new}
              /\ {new.buy, new.sell} = {taker, m}
              /\ new.quantity = Terms(m).quantity /\ new.buyerFee = Terms(m).fee
              /\ new.price * new.quantity = Terms(m).notional
  <1> DEFINE t == Terms(m)
             new == [maker |-> m, buy |-> Buyer(m), sell |-> Seller(m),
                     price |-> book[m].price, quantity |-> t.quantity,
                     buyerFee |-> t.fee, sellerFee |-> t.sellerFee, residual |-> t.residual]
  <1>1. /\ Buyer(m) \in Orders /\ Seller(m) \in Orders /\ {Buyer(m), Seller(m)} = {taker, m}
        /\ t.quantity \in Nat /\ t.fee \in Nat /\ t.sellerFee \in Nat /\ t.residual \in Nat
    BY DEF Sound
  <1>2. book[m].price \in Prices
    BY FillBook DEF EngineOrder
  <1>3. trades' = trades \cup {new}
    BY DEF Fill
  <1>4. t.notional = book[m].price * t.quantity
    BY ZenonT(60) DEF Terms
  <1> HIDE DEF t
  <1>5. new \in Trades /\ new.buy = Buyer(m) /\ new.sell = Seller(m)
    BY <1>1, <1>2 DEF Trades
  <1>6. new.quantity = t.quantity /\ new.buyerFee = t.fee /\ new.price = book[m].price
    OBVIOUS
  <1> HIDE DEF new
  <1>7. \E x \in Trades :
              /\ trades' = trades \cup {x}
              /\ {x.buy, x.sell} = {taker, m}
              /\ x.quantity = t.quantity /\ x.buyerFee = t.fee
              /\ x.price * x.quantity = t.notional
    BY <1>1, <1>3, <1>4, <1>5, <1>6
  <1> QED
    BY <1>7 DEF t

\* Notional and fee of a trade come out of what the buyer's order held.
LEMMA TradeIsWithinLimit ==
    ASSUME NEW r \in Rows, NEW t,
           t.notional \in Nat, t.made \in Nat, t.taken \in Nat, t.reduction \in Nat,
           t.due \in Nat, t.fee \in Nat, t.fee <= t.due, t.fee <= t.reduction - t.notional,
           t.made + t.taken = r.made + r.taken + t.notional,
           t.due = Fee(t.made, Schedules[r.version].maker)
                     + Fee(t.taken, Schedules[r.version].taker) - r.charged,
           r.made + r.taken + r.charged + r.reserved <= r.reservation
    PROVE  LET a == BuyerAfter(r, t) IN
           /\ a.made + a.taken + a.charged + a.reserved <= a.reservation
           /\ a.charged <= Fee(a.made, Schedules[a.version].maker)
                             + Fee(a.taken, Schedules[a.version].taker)
  <1> DEFINE x == Fee(t.made, Schedules[r.version].maker)
             y == Fee(t.taken, Schedules[r.version].taker)
  <1>1. /\ r.made \in Nat /\ r.taken \in Nat /\ r.charged \in Nat /\ r.reserved \in Nat
        /\ r.reservation \in Nat /\ r.version \in Versions
    BY DEF Rows
  <1>2. x \in Nat /\ y \in Nat
    BY <1>1, RatesNat, FeeNat
  <1>3. t.due = x + y - r.charged
    OBVIOUS
  <1> HIDE DEF x, y
  <1>4. /\ t.made + t.taken + (r.charged + t.fee) + (r.reserved - t.reduction) <= r.reservation
    BY <1>1
  <1>5. r.charged + t.fee <= x + y
    BY <1>1, <1>2, <1>3
  <1> QED
    BY <1>4, <1>5, RowsAfter DEF x, y

LEMMA FillInv ==
    ASSUME IndInv, NEW m \in Orders, Fill(m)
    PROVE  IndInv'
  <1> DEFINE t == Terms(m)
             b == Buyer(m)
             s == Seller(m)
  <1>1. Sound(m)
    BY TermsAreSound DEF Fill
  <1>2. /\ row' \in [Orders -> {None} \cup Rows]
        /\ row'[b] = BuyerAfter(row[b], t) /\ row'[s] = SellerAfter(row[s], t)
        /\ row'[b] \in Rows /\ row'[s] \in Rows
        /\ \A o \in Orders \ {b, s} : row'[o] = row[o]
    BY <1>1, FillRows
  <1>3. /\ taker \in Orders /\ taker # m
        /\ book[taker] \in EngineOrder /\ book[m] \in EngineOrder
        /\ t.quantity \in Nat /\ t.quantity <= book[taker].open /\ t.quantity <= book[m].open
        /\ book' \in [Orders -> {None} \cup EngineOrder]
        /\ \A o \in {taker, m} : book'[o] = [book[o] EXCEPT !.open = book[o].open - t.quantity]
        /\ \A o \in Orders \ {taker, m} : book'[o] = book[o]
        /\ BookShrinks
    BY <1>1, FillBook
  <1>4. PICK new \in Trades : trades' = trades \cup {new} /\ {new.buy, new.sell} = {taker, m}
    BY <1>1, FillTrades
  <1>5. version' = version /\ taker' = taker
    BY DEF Fill
  <1>6. /\ b \in Orders /\ s \in Orders /\ b # s /\ {b, s} = {taker, m}
        /\ row[b] \in Rows /\ row[s] \in Rows /\ row[b].side = "BUY" /\ row[s].side = "SELL"
        /\ row[s].reserved = row[s].open
        /\ row[b].reserved - t.reduction = Cost(row[b], row[b].open - t.quantity)
    BY <1>1 DEF Sound
  <1>7. row[b] # None /\ row[s] # None /\ row'[b] # None /\ row'[s] # None
    BY <1>2, <1>6, OmsAssumption
  <1>8. /\ row'[b].side = "BUY" /\ row'[b].price = row[b].price /\ row'[b].version = row[b].version
        /\ row'[b].party = row[b].party /\ row'[b].open = row[b].open - t.quantity
        /\ row'[b].reserved = row[b].reserved - t.reduction
        /\ row'[s].side = "SELL" /\ row'[s].price = row[s].price /\ row'[s].party = row[s].party
        /\ row'[s].open = row[s].open - t.quantity
        /\ row'[s].reserved = row[s].reserved - t.quantity
    <2> HIDE DEF t, b, s
    <2>0. \A r \in Rows : \A u :
             /\ BuyerAfter(r, u).party = r.party /\ BuyerAfter(r, u).side = r.side
             /\ BuyerAfter(r, u).price = r.price /\ BuyerAfter(r, u).version = r.version
             /\ BuyerAfter(r, u).open = r.open - u.quantity
             /\ BuyerAfter(r, u).reserved = r.reserved - u.reduction
      BY RowsAfter
    <2>1. /\ BuyerAfter(row[b], t).side = "BUY"
          /\ BuyerAfter(row[b], t).price = row[b].price
          /\ BuyerAfter(row[b], t).version = row[b].version
          /\ BuyerAfter(row[b], t).party = row[b].party
          /\ BuyerAfter(row[b], t).open = row[b].open - t.quantity
          /\ BuyerAfter(row[b], t).reserved = row[b].reserved - t.reduction
      BY <1>6, <2>0
    <2>2. /\ SellerAfter(row[s], t).side = "SELL"
          /\ SellerAfter(row[s], t).price = row[s].price
          /\ SellerAfter(row[s], t).party = row[s].party
          /\ SellerAfter(row[s], t).open = row[s].open - t.quantity
          /\ SellerAfter(row[s], t).reserved = row[s].reserved - t.quantity
      BY <1>6, RowsAfter
    <2> QED
      BY <2>1, <2>2, <1>2
  <1>9. TypeOK'
    <2>1. /\ available' \in [Parties -> [Sides -> Nat]]
          /\ reserved' \in [Parties -> [Sides -> Nat]]
          /\ clearing' \in [Sides -> Nat]
      BY <1>1, FillBalances DEF IndInv
    <2> QED
      BY <2>1, <1>2, <1>3, <1>4, <1>5 DEF IndInv, TypeOK
  <1>10. Placed' = Placed
    BY <1>2, <1>6, <1>7 DEF Placed
  <1>11. BookAgrees'
    <2> SUFFICES ASSUME NEW o \in Orders
                 PROVE  /\ row'[o] # None /\ book'[o] = None =>
                              row'[o].open = 0 /\ row'[o].status = "REJECTED"
                        /\ book'[o] # None =>
                              /\ row'[o] # None
                              /\ row'[o].party = book'[o].party /\ row'[o].side = book'[o].side
                              /\ row'[o].price = book'[o].price /\ row'[o].open = book'[o].open
      BY DEF BookAgrees
    <2>1. CASE o \in {taker, m}
      <3> DEFINE f == [book[o] EXCEPT !.open = book[o].open - t.quantity]
      <3>1. /\ book[o] \in EngineOrder /\ t.quantity <= book[o].open /\ book'[o] = f
        BY <2>1, <1>3
      <3>2. /\ f \in EngineOrder /\ f.party = book[o].party /\ f.side = book[o].side
            /\ f.price = book[o].price /\ f.open = book[o].open - t.quantity
        BY <3>1, <1>3, OpenFalls
      <3>3. /\ row[o].party = book[o].party /\ row[o].side = book[o].side
            /\ row[o].price = book[o].price /\ row[o].open = book[o].open
        BY <3>1, EngineAssumption DEF IndInv, BookAgrees
      <3>4. o \in {b, s}
        BY <2>1, <1>6
      <3>5. /\ row'[o] # None /\ row'[o].party = row[o].party /\ row'[o].side = row[o].side
            /\ row'[o].price = row[o].price /\ row'[o].open = row[o].open - t.quantity
        BY <3>4, <1>6, <1>7, <1>8
      <3> HIDE DEF f, t, b, s
      <3>6. book'[o] # None
        BY <3>1, <3>2, EngineAssumption
      <3> QED
        BY <3>1, <3>2, <3>3, <3>5, <3>6
    <2>2. CASE o \notin {taker, m}
      <3>1. row'[o] = row[o] /\ book'[o] = book[o]
        BY <2>2, <1>2, <1>3, <1>6
      <3> QED
        BY <3>1 DEF IndInv, BookAgrees
    <2> QED
      BY <2>1, <2>2
  <1>12. ReservesAreExact'
    <2> SUFFICES ASSUME NEW o \in Orders, row'[o] # None
                 PROVE  row'[o].reserved = Cost(row'[o], row'[o].open)
      BY DEF ReservesAreExact, Cost
    <2>1. CASE o = b
      <3>1. Cost(row'[b], row'[b].open) = Cost(row[b], row[b].open - t.quantity)
        BY <1>6, <1>8 DEF Cost
      <3> QED
        BY <3>1, <2>1, <1>6, <1>8
    <2>2. CASE o = s
      BY <2>2, <1>6, <1>8 DEF Cost
    <2>3. CASE o \notin {b, s}
      BY <2>3, <1>2 DEF IndInv, ReservesAreExact
    <2> QED
      BY <2>1, <2>2, <2>3
  <1>13. SpendingIsWithinLimit'
    <2> DEFINE Within(r) ==
          /\ r.made + r.taken + r.charged + r.reserved <= r.reservation
          /\ r.charged <= Fee(r.made, Schedules[r.version].maker)
                            + Fee(r.taken, Schedules[r.version].taker)
    <2>1. Within(row[b])
      BY <1>6, <1>7 DEF IndInv, SpendingIsWithinLimit, Placed
    <2>2. /\ t.notional \in Nat /\ t.made \in Nat /\ t.taken \in Nat /\ t.reduction \in Nat
          /\ t.due \in Nat /\ t.fee \in Nat /\ t.fee <= t.due /\ t.fee <= t.reduction - t.notional
          /\ t.made + t.taken = row[b].made + row[b].taken + t.notional
          /\ t.due = Fee(t.made, Schedules[row[b].version].maker)
                       + Fee(t.taken, Schedules[row[b].version].taker) - row[b].charged
      BY <1>1 DEF Sound
    <2> HIDE DEF t
    <2>3. Within(BuyerAfter(row[b], t))
      BY <2>1, <2>2, <1>6, TradeIsWithinLimit
    <2>4. \A o \in Placed' : row'[o].side = "BUY" =>
             o = b \/ (o \in Placed /\ row'[o] = row[o])
      BY <1>2, <1>8, <1>10 DEF Placed
    <2>5. \A o \in Placed : row[o].side = "BUY" => Within(row[o])
      BY DEF IndInv, SpendingIsWithinLimit
    <2>6. \A o \in Placed' : row'[o].side = "BUY" => Within(row'[o])
      BY <2>3, <2>4, <2>5, <1>2
    <2> QED
      BY <2>6 DEF SpendingIsWithinLimit, Fee
  <1>14. OnlyTakerCrosses'
    <2>1. taker' # None => book'[taker'] # None
      <3>1. book'[taker] \in EngineOrder
        BY <1>3, OpenFalls
      <3> QED
        BY <3>1, <1>5, EngineAssumption
    <2>2. \A x \in Orders, side \in Sides : x \in OpenOrders(book', side) =>
             x \in OpenOrders(book, side) /\ book'[x].price = book[x].price
      BY <1>3 DEF OpenOrders, BookShrinks
    <2>3. \A x \in OpenOrders(book', "BUY"), y \in OpenOrders(book', "SELL") :
             book'[x].price >= book'[y].price => taker \in {x, y}
      BY <2>2 DEF IndInv, OnlyTakerCrosses, OpenOrders, Sides
    <2> QED
      BY <2>1, <2>3, <1>5 DEF OnlyTakerCrosses
  <1>15. SequencesGrow'
    <2>1. taker \in Placed /\ m \in Placed
      BY <1>6, <1>7 DEF Placed
    <2>2. \A o \in Orders : book'[o] # None => book'[o].sequence <= Cardinality(Placed)
      BY <1>3 DEF IndInv, SequencesGrow, BookShrinks
    <2>3. new.buy \in Placed /\ new.sell \in Placed
      BY <2>1, <1>4
    <2> QED
      BY <2>2, <2>3, <1>4, <1>10 DEF IndInv, SequencesGrow
  <1>16. NoOvertaking'
    <2> SUFFICES ASSUME NEW x \in Orders, NEW y \in Orders,
                        book'[x] # None, book'[x].open > 0,
                        book'[y] # None, book'[y].side = book'[x].side,
                        book'[x].sequence < book'[y].sequence,
                        AsGood(book'[x].side, book'[x].price, book'[y].price),
                        NEW tr \in trades', y \in {tr.buy, tr.sell}
                 PROVE  FALSE
      BY DEF NoOvertaking
    <2>1. /\ book[x] # None /\ book[x].open > 0 /\ book[y] # None
          /\ book[y].side = book[x].side /\ book[x].sequence < book[y].sequence
          /\ AsGood(book[x].side, book[x].price, book[y].price)
      BY <1>3 DEF BookShrinks
    <2>2. CASE tr \in trades
      BY <2>1, <2>2 DEF IndInv, NoOvertaking
    <2>3. CASE tr = new
      <3>1. y \in {taker, m} /\ taker # None /\ Maker(book, taker, m)
        BY <2>3, <1>4 DEF Fill
      <3> QED
        BY <3>1, <2>1, MakerIsFirst
    <2> QED
      BY <2>2, <2>3, <1>4
  <1> QED
    BY <1>9, <1>11, <1>12, <1>13, <1>14, <1>15, <1>16 DEF IndInv

------------------------------------------------------------------------------
\* The theorems.

LEMMA NextInv ==
    ASSUME IndInv, [Next]_vars
    PROVE  IndInv'
  <1>1. CASE UNCHANGED vars
    <2>1. UNCHANGED <<row, book, version, available, reserved, clearing, trades, taker>>
      BY <1>1 DEF vars, accounts
    <2> QED
      BY <2>1 DEF IndInv, TypeOK, BookAgrees, ReservesAreExact, Cost, Fee, SpendingIsWithinLimit,
         Placed, OnlyTakerCrosses, OpenOrders, SequencesGrow, NoOvertaking
  <1>2. ASSUME NEW o \in Orders, NEW p \in Parties, NEW s \in Sides, NEW price \in Prices,
               NEW q \in Quantities, Place(o, p, s, price, q) \/ PlaceRejected(o, p, s, price, q)
        PROVE  IndInv'
    BY <1>2, PlaceInv, PlaceRejectedInv
  <1>3. ASSUME NEW o \in Orders, Cancel(o) \/ Fill(o) \/ PreventSelfTrade(o)
        PROVE  IndInv'
    BY <1>3, CancelInv, FillInv, PreventSelfTradeInv
  <1>4. CASE Finish
    BY <1>4, FinishInv
  <1>5. CASE ChangeFees
    BY <1>5, ChangeFeesInv
  <1> QED
    BY <1>1, <1>2, <1>3, <1>4, <1>5 DEF Next

\* Row, engine, reservation, spending and priority stay consistent together:
\* the inductive invariant of placing, matching and cancelling.
THEOREM OmsInvariant == Spec => []IndInv
  BY InitInv, NextInv, PTL DEF Spec

\* All amounts are natural numbers: no fill, cancellation or prevented self
\* trade takes more from an account than it has.
THEOREM OmsTypeOK == Spec => []TypeOK
  <1>1. IndInv => TypeOK
    BY DEF IndInv
  <1> QED
    BY <1>1, OmsInvariant, PTL

\* applyTrade never finds a reservation that is too small, for any fee
\* schedules in force at any time.
THEOREM OmsFillsAreConsistent == Spec => []FillsAreConsistent
  <1>1. IndInv => FillsAreConsistent
    BY TermsAreSound, SoundIsConsistent DEF FillsAreConsistent
  <1> QED
    BY <1>1, OmsInvariant, PTL

\* A buy order costs at most what was reserved when it was placed, and its
\* commission over all fills is rounded up once for each rate.
THEOREM OmsSpendingIsWithinLimit == Spec => []SpendingIsWithinLimit
  <1>1. IndInv => SpendingIsWithinLimit
    BY DEF IndInv
  <1> QED
    BY <1>1, OmsInvariant, PTL

\* Between commands no bid reaches an ask.
THEOREM OmsBookIsNotCrossed == Spec => []BookIsNotCrossed
  <1>1. ASSUME IndInv, taker = None,
               NEW x \in OpenOrders(book, "BUY"), NEW y \in OpenOrders(book, "SELL")
        PROVE  book[x].price < book[y].price
    <2>1. x \in Orders /\ y \in Orders /\ book[x] # None /\ book[y] # None
      BY DEF OpenOrders
    <2>2. book[x].price \in Nat /\ book[y].price \in Nat
      BY <2>1, <1>1, EngineAssumption DEF IndInv, TypeOK, EngineOrder
    <2>3. taker \notin {x, y}
      BY <2>1, <1>1, EngineAssumption
    <2>4. ~ (book[x].price >= book[y].price)
      BY <2>3, <1>1 DEF IndInv, OnlyTakerCrosses
    <2> QED
      BY <2>2, <2>4
  <1>2. IndInv => BookIsNotCrossed
    BY <1>1 DEF BookIsNotCrossed
  <1> QED
    BY <1>2, OmsInvariant, PTL

\* Price-time priority holds across all commands.
THEOREM OmsNoOvertaking == Spec => []NoOvertaking
  <1>1. IndInv => NoOvertaking
    BY DEF IndInv
  <1> QED
    BY <1>1, OmsInvariant, PTL

------------------------------------------------------------------------------
\* Accounts.

\* What an order holds on the account of party p for side s.
HoldOf(r, p, s) == IF r # None /\ r.party = p /\ r.side = s THEN r.reserved ELSE 0

Held(R, p, s) == SumFunctionOnSet([o \in Orders |-> HoldOf(R[o], p, s)], Orders)
Spent(A, s) == SumFunctionOnSet([p \in Parties |-> Funds[p][s] - A[p][s]], Parties)
Whole(A, s) == SumFunctionOnSet([p \in Parties |-> A[p][s]], Parties)
Tokens(T) == SumFunctionOnSet([t \in T |-> t.quantity], T)
Money(T) == SumFunctionOnSet([t \in T |-> t.price * t.quantity + t.buyerFee], T)

\* Of one side: the reserves are what the orders hold, and what has left the available
\* balances is reserved or in clearing.
SideIsBalanced(R, A, V, c, s) ==
    /\ \A p \in Parties : V[p][s] = Held(R, p, s)
    /\ Spent(A, s) = c + Whole(V, s)

SidesAreBalanced == \A s \in Sides : SideIsBalanced(row, available, reserved, clearing[s], s)

\* One of the orders of a trade is used up, so no later trade is the same.
TradesUseUp ==
    /\ IsFiniteSet(trades)
    /\ \A t \in trades : \E o \in {t.buy, t.sell} : book[o] # None /\ book[o].open = 0

ClearingIsTraded == clearing["SELL"] = Tokens(trades) /\ clearing["BUY"] = Money(trades)

Balanced == SidesAreBalanced /\ TradesUseUp /\ ClearingIsTraded

\* A sum one of whose terms changes.
LEMMA OneChanges ==
    ASSUME NEW S, IsFiniteSet(S), NEW f, NEW g, NEW a \in S, NEW d \in Int,
           \A x \in S : f[x] \in Int /\ g[x] \in Int,
           \A x \in S : x # a => g[x] = f[x], g[a] = f[a] + d
    PROVE  /\ SumFunctionOnSet(g, S) = SumFunctionOnSet(f, S) + d
           /\ SumFunctionOnSet(f, S) \in Int
  <1>a. IsFiniteSet(S)
    OBVIOUS
  <1>b. \A x \in S : f[x] \in Int /\ g[x] \in Int
    OBVIOUS
  <1>c. \A x \in S : x # a => g[x] = f[x]
    OBVIOUS
  <1>d. a \in S
    OBVIOUS
  <1>1. SumFunctionOnSet(g, S) = SumFunctionOnSet(f, S) + (g[a] - f[a])
    BY ONLY <1>a, <1>b, <1>c, <1>d, SumChange, SMT
  <1>2. SumFunctionOnSet(f, S) \in Int
    BY SumInt
  <1>3. g[a] - f[a] = d
    <2>1. f[a] \in Int /\ g[a] = f[a] + d
      OBVIOUS
    <2> QED
      BY <2>1
  <1> QED
    BY <1>1, <1>2, <1>3

\* One order holds d more.
LEMMA HeldMoves ==
    ASSUME NEW R1, NEW R2, R1 \in [Orders -> {None} \cup Rows], R2 \in [Orders -> {None} \cup Rows],
           NEW q, q \in Parties, NEW s, s \in Sides, NEW o, o \in Orders, NEW d, d \in Int,
           \A x \in Orders : x # o => HoldOf(R2[x], q, s) = HoldOf(R1[x], q, s),
           HoldOf(R2[o], q, s) = HoldOf(R1[o], q, s) + d
    PROVE  Held(R2, q, s) = Held(R1, q, s) + d /\ Held(R1, q, s) \in Int
  <1>1. PICK f, g : /\ f = [x \in Orders |-> HoldOf(R1[x], q, s)]
                    /\ g = [x \in Orders |-> HoldOf(R2[x], q, s)]
    OBVIOUS
  <1>2. \A x \in Orders : f[x] \in Int /\ g[x] \in Int
    <2>1. \A r \in {None} \cup Rows : HoldOf(r, q, s) \in Int
      BY DEF HoldOf, Rows
    <2>2. \A x \in Orders : R1[x] \in {None} \cup Rows /\ R2[x] \in {None} \cup Rows
      OBVIOUS
    <2> QED
      BY <1>1, <2>1, <2>2
  <1>3. (\A x \in Orders : x # o => g[x] = f[x]) /\ g[o] = f[o] + d
    BY <1>1
  <1>4. /\ Held(R2, q, s) = SumFunctionOnSet(g, Orders)
        /\ Held(R1, q, s) = SumFunctionOnSet(f, Orders)
    BY <1>1 DEF Held
  <1>5. IsFiniteSet(Orders)
    BY OmsAssumption
  <1>6. /\ SumFunctionOnSet(g, Orders) = SumFunctionOnSet(f, Orders) + d
        /\ SumFunctionOnSet(f, Orders) \in Int
    BY <1>2, <1>3, <1>5, OneChanges
  <1> QED
    BY <1>4, <1>6

\* The balance of one party changes by d.
LEMMA BalancesMove ==
    ASSUME NEW A1, NEW A2, A1 \in [Parties -> [Sides -> Nat]], A2 \in [Parties -> [Sides -> Nat]],
           NEW s, s \in Sides, NEW p, p \in Parties, NEW d, d \in Int,
           \A q \in Parties : q # p => A2[q][s] = A1[q][s], A2[p][s] = A1[p][s] + d
    PROVE  /\ Whole(A2, s) = Whole(A1, s) + d /\ Whole(A1, s) \in Int
           /\ Spent(A2, s) = Spent(A1, s) - d /\ Spent(A1, s) \in Int
  <1>1. IsFiniteSet(Parties)
    BY OmsAssumption
  <1>2. \A q \in Parties : A1[q][s] \in Nat /\ A2[q][s] \in Nat /\ Funds[q][s] \in Nat
    BY OmsAssumption
  <1>5. p \in Parties
    OBVIOUS
  <1>6. d \in Int
    OBVIOUS
  <1>3. Whole(A2, s) = Whole(A1, s) + d /\ Whole(A1, s) \in Int
    <2>1. PICK f, g : f = [q \in Parties |-> A1[q][s]] /\ g = [q \in Parties |-> A2[q][s]]
      OBVIOUS
    <2>2. \A q \in Parties : f[q] = A1[q][s] /\ g[q] = A2[q][s]
      BY <2>1
    <2>3. \A q \in Parties : f[q] \in Int /\ g[q] \in Int
      BY <1>2, <2>2
    <2>4. \A q \in Parties : q # p => g[q] = f[q]
      BY <2>2
    <2>7. g[p] = f[p] + d
      BY <2>2
    <2>5. Whole(A2, s) = SumFunctionOnSet(g, Parties) /\ Whole(A1, s) = SumFunctionOnSet(f, Parties)
      BY <2>1 DEF Whole
    <2>6. /\ SumFunctionOnSet(g, Parties) = SumFunctionOnSet(f, Parties) + d
          /\ SumFunctionOnSet(f, Parties) \in Int
      BY ONLY <1>1, <2>3, <2>4, <2>7, <1>5, <1>6, OneChanges
    <2> QED
      BY <2>5, <2>6
  <1>4. Spent(A2, s) = Spent(A1, s) - d /\ Spent(A1, s) \in Int
    <2>1. PICK f, g : /\ f = [q \in Parties |-> Funds[q][s] - A1[q][s]]
                      /\ g = [q \in Parties |-> Funds[q][s] - A2[q][s]]
      OBVIOUS
    <2>2. \A q \in Parties : f[q] = Funds[q][s] - A1[q][s] /\ g[q] = Funds[q][s] - A2[q][s]
      BY <2>1
    <2>3. \A q \in Parties : f[q] \in Int /\ g[q] \in Int
      BY <1>2, <2>2
    <2>4. \A q \in Parties : q # p => g[q] = f[q]
      BY <1>2, <2>2
    <2>8. g[p] = f[p] + (0 - d)
      <3>1. A1[p][s] \in Nat /\ A2[p][s] \in Nat /\ Funds[p][s] \in Nat /\ A2[p][s] = A1[p][s] + d
        BY <1>2
      <3>2. f[p] = Funds[p][s] - A1[p][s] /\ g[p] = Funds[p][s] - A2[p][s]
        BY <2>2
      <3> QED
        BY ONLY <3>1, <3>2, <1>6, SMT
    <2>5. Spent(A2, s) = SumFunctionOnSet(g, Parties) /\ Spent(A1, s) = SumFunctionOnSet(f, Parties)
      BY <2>1 DEF Spent
    <2>6. 0 - d \in Int
      OBVIOUS
    <2>7. /\ SumFunctionOnSet(g, Parties) = SumFunctionOnSet(f, Parties) + (0 - d)
          /\ SumFunctionOnSet(f, Parties) \in Int
      BY ONLY <1>1, <2>3, <2>4, <2>6, <2>8, <1>5, OneChanges
    <2> QED
      BY <2>5, <2>7
  <1> QED
    BY <1>3, <1>4

\* Between two states: order o of party p holds d more on side s, or party p has d more.
TypesOf(R, A, V) ==
    /\ R \in [Orders -> {None} \cup Rows]
    /\ A \in [Parties -> [Sides -> Nat]] /\ V \in [Parties -> [Sides -> Nat]]
HoldsMore(R1, R2, o, p, s, d) ==
    /\ \A x \in Orders, q \in Parties : x # o \/ q # p =>
          HoldOf(R2[x], q, s) = HoldOf(R1[x], q, s)
    /\ HoldOf(R2[o], p, s) = HoldOf(R1[o], p, s) + d
HasMore(A1, A2, p, s, d) ==
    (\A q \in Parties : q # p => A2[q][s] = A1[q][s]) /\ A2[p][s] = A1[p][s] + d

\* What one order and one party gain and lose on one side leaves it balanced.
LEMMA SideMoves ==
    ASSUME NEW R1, NEW R2, NEW A1, NEW A2, NEW V1, NEW V2, NEW c1 \in Nat, NEW c2 \in Nat,
           NEW s \in Sides, NEW o \in Orders, NEW p \in Parties, NEW d \in Int, NEW e \in Int,
           d + e + (c2 - c1) = 0, TypesOf(R1, A1, V1), TypesOf(R2, A2, V2),
           HoldsMore(R1, R2, o, p, s, d), HasMore(V1, V2, p, s, d), HasMore(A1, A2, p, s, e),
           SideIsBalanced(R1, A1, V1, c1, s)
    PROVE  SideIsBalanced(R2, A2, V2, c2, s)
  <1>a. A1 \in [Parties -> [Sides -> Nat]]
    BY DEF TypesOf
  <1>b. A2 \in [Parties -> [Sides -> Nat]]
    BY DEF TypesOf
  <1>c. V1 \in [Parties -> [Sides -> Nat]]
    BY DEF TypesOf
  <1>d. V2 \in [Parties -> [Sides -> Nat]]
    BY DEF TypesOf
  <1>e. p \in Parties
    OBVIOUS
  <1>f. s \in Sides
    OBVIOUS
  <1>g. d \in Int
    OBVIOUS
  <1>h. e \in Int
    OBVIOUS
  <1>i. \A q \in Parties : q # p => V2[q][s] = V1[q][s]
    BY DEF HasMore
  <1>j. V2[p][s] = V1[p][s] + d
    BY DEF HasMore
  <1>k. \A q \in Parties : q # p => A2[q][s] = A1[q][s]
    BY DEF HasMore
  <1>l. A2[p][s] = A1[p][s] + e
    BY DEF HasMore
  <1>1. ASSUME NEW q \in Parties PROVE V2[q][s] = Held(R2, q, s)
    <2>1. V1[q][s] = Held(R1, q, s)
      BY DEF SideIsBalanced
    <2>2. CASE q = p
      <3>1. Held(R2, p, s) = Held(R1, p, s) + d
        <4>1. \A x \in Orders : x # o => HoldOf(R2[x], p, s) = HoldOf(R1[x], p, s)
          BY DEF HoldsMore
        <4>2. HoldOf(R2[o], p, s) = HoldOf(R1[o], p, s) + d
          BY DEF HoldsMore
        <4>3. R1 \in [Orders -> {None} \cup Rows]
          BY DEF TypesOf
        <4>4. R2 \in [Orders -> {None} \cup Rows]
          BY DEF TypesOf
        <4>5. o \in Orders
          OBVIOUS
        <4> QED
          BY ONLY <4>1, <4>2, <4>3, <4>4, <4>5, <1>e, <1>f, <1>g, HeldMoves
      <3> QED
        BY <2>1, <2>2, <3>1, <1>j, Zenon
    <2>3. CASE q # p
      <3>1. \A x \in Orders : HoldOf(R2[x], q, s) = HoldOf(R1[x], q, s)
        BY <2>3 DEF HoldsMore
      <3>2. [x \in Orders |-> HoldOf(R2[x], q, s)] = [x \in Orders |-> HoldOf(R1[x], q, s)]
        BY <3>1
      <3>3. Held(R2, q, s) = Held(R1, q, s)
        BY <3>2 DEF Held
      <3>4. V2[q][s] = V1[q][s]
        BY <2>3, <1>i
      <3> QED
        BY <2>1, <3>3, <3>4, Zenon
    <2> QED
      BY <2>2, <2>3
  <1>2. Whole(V2, s) = Whole(V1, s) + d /\ Whole(V1, s) \in Int
    BY ONLY <1>c, <1>d, <1>e, <1>f, <1>g, <1>i, <1>j, BalancesMove
  <1>3. Spent(A2, s) = Spent(A1, s) - e /\ Spent(A1, s) \in Int
    BY ONLY <1>a, <1>b, <1>e, <1>f, <1>h, <1>k, <1>l, BalancesMove
  <1>4. Spent(A1, s) = c1 + Whole(V1, s)
    BY DEF SideIsBalanced
  <1>6. Spent(A2, s) = c2 + Whole(V2, s)
    <2>1. ASSUME NEW w \in Int, NEW v \in Int, w = c1 + v
          PROVE  w - e = c2 + (v + d)
      BY <2>1
    <2> QED
      BY ONLY <1>2, <1>3, <1>4, <2>1
  <1> QED
    BY <1>1, <1>6 DEF SideIsBalanced

\* At first everything is available.
LEMMA InitBalanced == Init => Balanced
  <1> SUFFICES ASSUME Init PROVE Balanced
    OBVIOUS
  <1>1. IsFiniteSet(Orders) /\ IsFiniteSet(Parties)
    BY OmsAssumption
  <1>2. ASSUME NEW s \in Sides PROVE SideIsBalanced(row, available, reserved, clearing[s], s)
    <2>1. ASSUME NEW p \in Parties PROVE reserved[p][s] = Held(row, p, s)
      <3> DEFINE f == [o \in Orders |-> HoldOf(row[o], p, s)]
      <3>1. \A o \in Orders : f[o] = 0
        BY DEF Init, HoldOf
      <3>2. Held(row, p, s) = SumFunctionOnSet(f, Orders) /\ reserved[p][s] = 0
        BY DEF Held, Init
      <3> HIDE DEF f
      <3> QED
        BY <3>1, <3>2, <1>1, SumZero
    <2>2. Whole(reserved, s) = 0
      <3> DEFINE f == [p \in Parties |-> reserved[p][s]]
      <3>1. \A p \in Parties : f[p] = 0
        BY DEF Init
      <3>2. Whole(reserved, s) = SumFunctionOnSet(f, Parties)
        BY DEF Whole
      <3> HIDE DEF f
      <3> QED
        BY <3>1, <3>2, <1>1, SumZero
    <2>3. Spent(available, s) = 0
      <3> DEFINE f == [p \in Parties |-> Funds[p][s] - available[p][s]]
      <3>0. \A p \in Parties : Funds[p][s] \in Nat /\ available[p][s] = Funds[p][s]
        BY OmsAssumption DEF Init
      <3>1. \A p \in Parties : f[p] = 0
        BY <3>0
      <3>2. Spent(available, s) = SumFunctionOnSet(f, Parties)
        BY DEF Spent
      <3> HIDE DEF f
      <3> QED
        BY <3>1, <3>2, <1>1, SumZero
    <2>4. clearing[s] = 0
      BY DEF Init
    <2> QED
      BY <2>1, <2>2, <2>3, <2>4 DEF SideIsBalanced
  <1>3. TradesUseUp
    BY FS_EmptySet DEF Init, TradesUseUp
  <1>4. ClearingIsTraded
    <2>1. trades = {} /\ clearing["SELL"] = 0 /\ clearing["BUY"] = 0
      BY DEF Init, Sides
    <2>2. Tokens({}) = 0 /\ Money({}) = 0
      BY SumEmpty DEF Tokens, Money
    <2> QED
      BY <2>1, <2>2 DEF ClearingIsTraded
  <1> QED
    BY <1>2, <1>3, <1>4 DEF Balanced, SidesAreBalanced

\* A side that nothing happens to stays balanced.
LEMMA SideStays ==
    ASSUME NEW R1, NEW R2, NEW A1, NEW A2, NEW V1, NEW V2, NEW c, NEW s,
           \A x \in Orders, q \in Parties : HoldOf(R2[x], q, s) = HoldOf(R1[x], q, s),
           \A q \in Parties : V2[q][s] = V1[q][s],
           \A q \in Parties : A2[q][s] = A1[q][s],
           SideIsBalanced(R1, A1, V1, c, s)
    PROVE  SideIsBalanced(R2, A2, V2, c, s)
  <1>1. ASSUME NEW q \in Parties PROVE Held(R2, q, s) = Held(R1, q, s)
    <2>1. [x \in Orders |-> HoldOf(R2[x], q, s)] = [x \in Orders |-> HoldOf(R1[x], q, s)]
      OBVIOUS
    <2> QED
      BY <2>1 DEF Held
  <1>2. Whole(V2, s) = Whole(V1, s)
    <2>1. [q \in Parties |-> V2[q][s]] = [q \in Parties |-> V1[q][s]]
      OBVIOUS
    <2> QED
      BY <2>1 DEF Whole
  <1>3. Spent(A2, s) = Spent(A1, s)
    <2>1. [q \in Parties |-> Funds[q][s] - A2[q][s]] = [q \in Parties |-> Funds[q][s] - A1[q][s]]
      OBVIOUS
    <2> QED
      BY <2>1 DEF Spent
  <1> QED
    BY <1>1, <1>2, <1>3 DEF SideIsBalanced

\* Types of what SideMoves speaks about.
LEMMA AccountTypes ==
    ASSUME TypeOK
    PROVE  /\ row \in [Orders -> {None} \cup Rows]
           /\ available \in [Parties -> [Sides -> Nat]]
           /\ reserved \in [Parties -> [Sides -> Nat]]
           /\ \A s \in Sides : clearing[s] \in Nat
  BY DEF TypeOK

\* Reserving for an order and giving back: d more is held by the order and reserved, and
\* d less available.
LEMMA OneOrderMoves ==
    ASSUME TypeOK, TypeOK', SidesAreBalanced, NEW o \in Orders, NEW p \in Parties,
           NEW s \in Sides, NEW d \in Int, UNCHANGED clearing,
           \A x \in Orders : x # o => row'[x] = row[x],
           \A q \in Parties, y \in Sides : q # p \/ y # s =>
              /\ HoldOf(row'[o], q, y) = HoldOf(row[o], q, y)
              /\ available'[q][y] = available[q][y] /\ reserved'[q][y] = reserved[q][y],
           HoldOf(row'[o], p, s) = HoldOf(row[o], p, s) + d,
           reserved'[p][s] = reserved[p][s] + d, available'[p][s] = available[p][s] + (0 - d)
    PROVE  SidesAreBalanced'
  <1>1. ASSUME NEW y \in Sides, y # s
        PROVE  SideIsBalanced(row, available, reserved, clearing[y], y)'
    <2>1. \A x \in Orders, q \in Parties : HoldOf(row'[x], q, y) = HoldOf(row[x], q, y)
      BY <1>1
    <2>2. \A q \in Parties : reserved'[q][y] = reserved[q][y]
      BY <1>1
    <2>3. \A q \in Parties : available'[q][y] = available[q][y]
      BY <1>1
    <2>4. SideIsBalanced(row, available, reserved, clearing[y], y)
      BY DEF SidesAreBalanced
    <2>5. SideIsBalanced(row', available', reserved', clearing[y], y)
      BY ONLY <2>1, <2>2, <2>3, <2>4, SideStays
    <2> QED
      BY <2>5
  <1>2. SideIsBalanced(row, available, reserved, clearing[s], s)'
    <2>1. TypesOf(row, available, reserved)
      BY DEF TypeOK, TypesOf
    <2>2. TypesOf(row', available', reserved')
      BY DEF TypeOK, TypesOf
    <2>3. clearing[s] \in Nat /\ d + (0 - d) + (clearing[s] - clearing[s]) = 0 /\ 0 - d \in Int
      BY AccountTypes
    <2>4. HoldsMore(row, row', o, p, s, d)
      BY DEF HoldsMore
    <2>5. HasMore(reserved, reserved', p, s, d)
      BY DEF HasMore
    <2>6. HasMore(available, available', p, s, 0 - d)
      BY DEF HasMore
    <2>7. SideIsBalanced(row, available, reserved, clearing[s], s)
      BY DEF SidesAreBalanced
    <2>8. SideIsBalanced(row', available', reserved', clearing[s], s)
      BY <2>1, <2>2, <2>3, <2>4, <2>5, <2>6, <2>7, SideMoves
    <2> QED
      BY <2>8
  <1> QED
    BY <1>1, <1>2 DEF SidesAreBalanced

\* A trade more.
LEMMA OneTradeMore ==
    ASSUME NEW T, T \subseteq Trades, IsFiniteSet(T), NEW x \in Trades, x \notin T
    PROVE  /\ Tokens(T \cup {x}) = Tokens(T) + x.quantity
           /\ Money(T \cup {x}) = Money(T) + (x.price * x.quantity + x.buyerFee)
  <1>1. \A t \in Trades : t.quantity \in Int /\ t.price * t.quantity + t.buyerFee \in Int
    <2> TAKE t \in Trades
    <2>1. t.quantity \in Nat /\ t.price \in Nat /\ t.buyerFee \in Nat
      BY EngineAssumption DEF Trades
    <2>2. t.price * t.quantity \in Nat
      BY <2>1, ProductMonotone
    <2> QED
      BY <2>1, <2>2
  <1>2. Tokens(T \cup {x}) = Tokens(T) + x.quantity
    <2>1. PICK f, g : /\ f = [t \in T \cup {x} |-> t.quantity]
                      /\ g = [t \in T |-> t.quantity]
      OBVIOUS
    <2>2. f[x] = x.quantity /\ \A t \in T : f[t] = g[t]
      BY <2>1
    <2>3. \A t \in T \cup {x} : f[t] \in Int
      BY <1>1, <2>1
    <2>4. SumFunctionOnSet(f, T \cup {x}) = f[x] + SumFunctionOnSet(f, T)
      BY <2>3, SumAdd
    <2>5. SumFunctionOnSet(f, T) = SumFunctionOnSet(g, T)
      BY <2>2, SumSame
    <2>6. SumFunctionOnSet(f, T) \in Int
      BY <2>3, SumInt
    <2>7. /\ Tokens(T \cup {x}) = SumFunctionOnSet(f, T \cup {x})
          /\ Tokens(T) = SumFunctionOnSet(g, T)
      BY <2>1 DEF Tokens
    <2>8. x.quantity \in Int
      BY <1>1
    <2> QED
      BY ONLY <2>2, <2>4, <2>5, <2>6, <2>7, <2>8
  <1>3. Money(T \cup {x}) = Money(T) + (x.price * x.quantity + x.buyerFee)
    <2>1. PICK f, g : /\ f = [t \in T \cup {x} |-> t.price * t.quantity + t.buyerFee]
                      /\ g = [t \in T |-> t.price * t.quantity + t.buyerFee]
      OBVIOUS
    <2>2. f[x] = x.price * x.quantity + x.buyerFee /\ \A t \in T : f[t] = g[t]
      BY <2>1
    <2>3. \A t \in T \cup {x} : f[t] \in Int
      BY <1>1, <2>1
    <2>4. SumFunctionOnSet(f, T \cup {x}) = f[x] + SumFunctionOnSet(f, T)
      BY <2>3, SumAdd
    <2>5. SumFunctionOnSet(f, T) = SumFunctionOnSet(g, T)
      BY <2>2, SumSame
    <2>6. SumFunctionOnSet(f, T) \in Int
      BY <2>3, SumInt
    <2>7. /\ Money(T \cup {x}) = SumFunctionOnSet(f, T \cup {x})
          /\ Money(T) = SumFunctionOnSet(g, T)
      BY <2>1 DEF Money
    <2>8. f[x] \in Int
      BY <2>3
    <2>9. SumFunctionOnSet(f, T \cup {x}) = SumFunctionOnSet(g, T) + f[x]
      BY ONLY <2>4, <2>5, <2>6, <2>8
    <2> QED
      BY ONLY <2>2, <2>7, <2>9, Zenon
  <1> QED
    BY <1>2, <1>3

\* Orders that are used up stay so.
LEMMA UsedUpStays ==
    ASSUME TypeOK, TradesUseUp, UNCHANGED trades,
           \A o \in Orders : book[o] # None /\ book[o].open = 0 => book'[o] # None /\ book'[o].open = 0
    PROVE  TradesUseUp'
  <1>1. \A t \in trades : {t.buy, t.sell} \subseteq Orders
    BY DEF TypeOK, Trades
  <1> QED
    BY <1>1 DEF TradesUseUp

\* Steps that move nothing.
LEMMA NothingMoves ==
    ASSUME Balanced, UNCHANGED <<row, book, available, reserved, clearing, trades>>
    PROVE  Balanced'
  BY DEF Balanced, SidesAreBalanced, TradesUseUp, ClearingIsTraded

LEMMA PlaceRejectedBalanced ==
    ASSUME IndInv, Balanced, NEW o \in Orders, NEW p \in Parties, NEW s \in Sides,
           NEW price \in Prices, NEW q \in Quantities, PlaceRejected(o, p, s, price, q)
    PROVE  Balanced'
  <1> DEFINE n == NewRow(p, s, price, q)
  <1>1. /\ row[o] = None
        /\ row' = [row EXCEPT ![o] = [n EXCEPT !.open = 0, !.reserved = 0, !.status = "REJECTED"]]
        /\ UNCHANGED <<book, available, reserved, clearing, trades>>
    BY DEF PlaceRejected, accounts
  <1>2. n \in Rows
    BY NewRowFacts DEF IndInv
  <1> HIDE DEF n
  <1>3. row'[o].reserved = 0 /\ \A x \in Orders \ {o} : row'[x] = row[x]
    BY <1>1, <1>2 DEF IndInv, TypeOK, Rows
  <1>4. \A x \in Orders, y \in Parties, z \in Sides : HoldOf(row'[x], y, z) = HoldOf(row[x], y, z)
    BY <1>1, <1>3 DEF HoldOf
  <1>5. SidesAreBalanced'
    <2> SUFFICES ASSUME NEW z \in Sides
                 PROVE  SideIsBalanced(row', available', reserved', clearing'[z], z)
      BY DEF SidesAreBalanced
    <2>1. \A x \in Orders, y \in Parties : HoldOf(row'[x], y, z) = HoldOf(row[x], y, z)
      BY <1>4
    <2>2. SideIsBalanced(row, available, reserved, clearing[z], z)
      BY DEF Balanced, SidesAreBalanced
    <2>3. SideIsBalanced(row', available, reserved, clearing[z], z)
      BY <2>1, <2>2, SideStays
    <2> QED
      BY <2>3, <1>1
  <1> QED
    BY <1>1, <1>5 DEF Balanced, TradesUseUp, ClearingIsTraded

LEMMA PlaceBalanced ==
    ASSUME IndInv, IndInv', Balanced, NEW o \in Orders, NEW p \in Parties, NEW s \in Sides,
           NEW price \in Prices, NEW q \in Quantities, Place(o, p, s, price, q)
    PROVE  Balanced'
  <1>1. PICK r : r = NewRow(p, s, price, q)
    OBVIOUS
  <1>2. /\ row[o] = None /\ row' = [row EXCEPT ![o] = r]
        /\ available' = [available EXCEPT ![p][s] = available[p][s] - r.reserved]
        /\ reserved' = [reserved EXCEPT ![p][s] = reserved[p][s] + r.reserved]
        /\ UNCHANGED <<clearing, trades>>
    BY <1>1 DEF Place
  <1>3. r \in Rows /\ r.party = p /\ r.side = s
    BY <1>1, NewRowFacts DEF IndInv
  <1>4. row'[o] = r /\ r # None /\ \A x \in Orders : x # o => row'[x] = row[x]
    BY <1>2, <1>3, OmsAssumption DEF IndInv, TypeOK
  <1>5. r.reserved \in Int /\ available[p][s] \in Int
    BY <1>3 DEF Rows, IndInv, TypeOK
  <1>6. HoldOf(row'[o], p, s) = HoldOf(row[o], p, s) + r.reserved
    BY <1>2, <1>3, <1>4, <1>5 DEF HoldOf
  <1>7. reserved'[p][s] = reserved[p][s] + r.reserved
    BY <1>2 DEF IndInv, TypeOK
  <1>8. available'[p][s] = available[p][s] - r.reserved
    BY <1>2 DEF IndInv, TypeOK
  <1>9. available'[p][s] = available[p][s] + (0 - r.reserved)
    BY <1>5, <1>8
  <1>10. \A x \in Parties, y \in Sides : x # p \/ y # s =>
              /\ HoldOf(row'[o], x, y) = HoldOf(row[o], x, y)
              /\ available'[x][y] = available[x][y] /\ reserved'[x][y] = reserved[x][y]
    <2> SUFFICES ASSUME NEW x \in Parties, NEW y \in Sides, x # p \/ y # s
                 PROVE  /\ HoldOf(row'[o], x, y) = HoldOf(row[o], x, y)
                        /\ available'[x][y] = available[x][y] /\ reserved'[x][y] = reserved[x][y]
      OBVIOUS
    <2>1. HoldOf(row'[o], x, y) = HoldOf(row[o], x, y)
      BY <1>2, <1>3, <1>4 DEF HoldOf
    <2>2. available'[x][y] = available[x][y]
      BY <1>2 DEF IndInv, TypeOK
    <2>3. reserved'[x][y] = reserved[x][y]
      BY <1>2 DEF IndInv, TypeOK
    <2> QED
      BY <2>1, <2>2, <2>3
  <1>11. TypeOK /\ TypeOK' /\ SidesAreBalanced
    BY DEF IndInv, Balanced
  <1>12. SidesAreBalanced'
    BY <1>2, <1>4, <1>5, <1>6, <1>7, <1>9, <1>10, <1>11, OneOrderMoves
  <1>13. TradesUseUp'
    <2>1. book[o] = None
      BY <1>2 DEF IndInv, BookAgrees
    <2>2. \A x \in Orders \ {o} : book'[x] = book[x]
      BY DEF Place, Accept, IndInv, TypeOK
    <2> QED
      BY <1>2, <1>11, <2>1, <2>2, UsedUpStays DEF Balanced
  <1> QED
    BY <1>2, <1>12, <1>13 DEF Balanced, ClearingIsTraded

\* Cancelling, and preventing a trade with oneself.
LEMMA CloseBalanced ==
    ASSUME IndInv, IndInv', Balanced, NEW o \in Orders, row[o] # None, CloseOrder(o)
    PROVE  Balanced'
  <1>1. PICK r, p, s : r = row[o] /\ p = row[o].party /\ s = row[o].side
    OBVIOUS
  <1>2. r \in Rows /\ p \in Parties /\ s \in Sides /\ r.party = p /\ r.side = s /\ r.reserved \in Nat
    BY <1>1 DEF IndInv, TypeOK, Rows
  <1>3. /\ available' = [available EXCEPT ![p][s] = available[p][s] + r.reserved]
        /\ reserved' = [reserved EXCEPT ![p][s] = reserved[p][s] - r.reserved]
        /\ row' = [row EXCEPT ![o] = [r EXCEPT !.open = 0, !.reserved = 0, !.status = "CANCELLED"]]
        /\ book' = [book EXCEPT ![o].open = 0]
        /\ UNCHANGED <<clearing, trades>>
    BY <1>1 DEF CloseOrder, Close
  <1>4. /\ row'[o].reserved = 0 /\ row'[o].party = p /\ row'[o].side = s
        /\ \A x \in Orders : x # o => row'[x] = row[x]
    BY <1>2, <1>3 DEF IndInv, TypeOK, Rows
  <1>5. HoldOf(row'[o], p, s) = 0 /\ HoldOf(row[o], p, s) = r.reserved
    BY <1>1, <1>2, <1>4 DEF HoldOf
  <1>6. available[p][s] \in Int /\ reserved[p][s] \in Int /\ 0 - r.reserved \in Int
    BY <1>2 DEF IndInv, TypeOK
  <1>7. HoldOf(row'[o], p, s) = HoldOf(row[o], p, s) + (0 - r.reserved)
    BY <1>2, <1>5
  <1>8. reserved'[p][s] = reserved[p][s] + (0 - r.reserved)
    <2>1. reserved'[p][s] = reserved[p][s] - r.reserved
      BY <1>2, <1>3 DEF IndInv, TypeOK
    <2> QED
      BY <2>1, <1>2, <1>6
  <1>9. available'[p][s] = available[p][s] + (0 - (0 - r.reserved))
    <2>1. available'[p][s] = available[p][s] + r.reserved
      BY <1>2, <1>3 DEF IndInv, TypeOK
    <2> QED
      BY <2>1, <1>2, <1>6
  <1>10. \A x \in Parties, y \in Sides : x # p \/ y # s =>
              /\ HoldOf(row'[o], x, y) = HoldOf(row[o], x, y)
              /\ available'[x][y] = available[x][y] /\ reserved'[x][y] = reserved[x][y]
    <2> SUFFICES ASSUME NEW x \in Parties, NEW y \in Sides, x # p \/ y # s
                 PROVE  /\ HoldOf(row'[o], x, y) = HoldOf(row[o], x, y)
                        /\ available'[x][y] = available[x][y] /\ reserved'[x][y] = reserved[x][y]
      OBVIOUS
    <2>1. HoldOf(row'[o], x, y) = HoldOf(row[o], x, y)
      BY <1>1, <1>4 DEF HoldOf
    <2>2. available'[x][y] = available[x][y]
      BY <1>3 DEF IndInv, TypeOK
    <2>3. reserved'[x][y] = reserved[x][y]
      BY <1>3 DEF IndInv, TypeOK
    <2> QED
      BY <2>1, <2>2, <2>3
  <1>11. TypeOK /\ TypeOK' /\ SidesAreBalanced
    BY DEF IndInv, Balanced
  <1>12. SidesAreBalanced'
    BY <1>2, <1>3, <1>4, <1>6, <1>7, <1>8, <1>9, <1>10, <1>11, OneOrderMoves
  <1>13. TradesUseUp'
    <2>1. \A x \in Orders \ {o} : book'[x] = book[x]
      BY <1>3 DEF IndInv, TypeOK
    <2>2. book[o] # None => book'[o] # None /\ book'[o].open = 0
      <3>1. book[o] # None => book[o] \in EngineOrder
        BY DEF IndInv, TypeOK
      <3>2. book[o] # None => book'[o].open = 0
        BY <1>3, <3>1 DEF IndInv, TypeOK, EngineOrder
      <3>3. book[o] # None => book'[o] \in EngineOrder
        BY <1>3, <3>1 DEF IndInv, TypeOK, EngineOrder
      <3> QED
        BY <3>2, <3>3, EngineAssumption
    <2> QED
      BY <1>3, <1>11, <2>1, <2>2, UsedUpStays DEF Balanced
  <1> QED
    BY <1>3, <1>12, <1>13 DEF Balanced, ClearingIsTraded

\* What a trade moves: the buyer's order pays, and gets back what was reserved for more.
LEMMA FillMoves ==
    ASSUME TypeOK, NEW m \in Orders, Sound(m), Fill(m)
    PROVE  LET t == Terms(m)
               p == row[Buyer(m)].party
               q == row[Seller(m)].party IN
           /\ p \in Parties /\ q \in Parties
           /\ HasMore(reserved, reserved', p, "BUY", 0 - t.reduction)
           /\ HasMore(available, available', p, "BUY", t.most - t.fee)
           /\ HasMore(reserved, reserved', q, "SELL", 0 - t.quantity)
           /\ HasMore(available, available', q, "SELL", 0)
           /\ clearing'["BUY"] = clearing["BUY"] + t.notional + t.fee
           /\ clearing'["SELL"] = clearing["SELL"] + t.quantity
  <1>1. PICK t, p, q : t = Terms(m) /\ p = row[Buyer(m)].party /\ q = row[Seller(m)].party
    OBVIOUS
  <1>2. /\ p \in Parties /\ q \in Parties
        /\ t.quantity \in Nat /\ t.reduction \in Nat /\ t.notional \in Nat
        /\ t.most \in Nat /\ t.fee \in Nat
    <2>1. row[Buyer(m)] \in Rows /\ row[Seller(m)] \in Rows
      BY DEF Sound
    <2>2. p \in Parties /\ q \in Parties
      BY <1>1, <2>1 DEF Rows
    <2> QED
      BY <1>1, <2>2 DEF Sound
  <1>3. /\ reserved' = [reserved EXCEPT ![p]["BUY"] = @ - t.reduction, ![q]["SELL"] = @ - t.quantity]
        /\ available' = [available EXCEPT ![p]["BUY"] = @ + t.most - t.fee]
        /\ clearing' = [clearing EXCEPT !["BUY"] = @ + t.notional + t.fee,
                                        !["SELL"] = @ + t.quantity]
    BY <1>1, ZenonT(60) DEF Fill, ApplyTrade
  <1>4. /\ reserved \in [Parties -> [Sides -> Nat]] /\ available \in [Parties -> [Sides -> Nat]]
        /\ clearing \in [Sides -> Nat] /\ "BUY" \in Sides /\ "SELL" \in Sides
    BY DEF TypeOK, Sides
  <1>5. HasMore(reserved, reserved', p, "BUY", 0 - t.reduction)
    <2>1. reserved'[p]["BUY"] = reserved[p]["BUY"] - t.reduction
      BY <1>2, <1>3, <1>4
    <2>2. reserved[p]["BUY"] \in Nat
      BY <1>2, <1>4
    <2>3. \A x \in Parties : x # p => reserved'[x]["BUY"] = reserved[x]["BUY"]
      BY <1>2, <1>3, <1>4
    <2>4. reserved'[p]["BUY"] = reserved[p]["BUY"] + (0 - t.reduction)
      BY <2>1, <2>2, <1>2
    <2> QED
      BY <2>3, <2>4 DEF HasMore
  <1>6. HasMore(reserved, reserved', q, "SELL", 0 - t.quantity)
    <2>1. reserved'[q]["SELL"] = reserved[q]["SELL"] - t.quantity
      BY <1>2, <1>3, <1>4
    <2>2. reserved[q]["SELL"] \in Nat
      BY <1>2, <1>4
    <2>3. \A x \in Parties : x # q => reserved'[x]["SELL"] = reserved[x]["SELL"]
      BY <1>2, <1>3, <1>4
    <2>4. reserved'[q]["SELL"] = reserved[q]["SELL"] + (0 - t.quantity)
      BY <2>1, <2>2, <1>2
    <2> QED
      BY <2>3, <2>4 DEF HasMore
  <1>7. HasMore(available, available', p, "BUY", t.most - t.fee)
    <2>1. available'[p]["BUY"] = available[p]["BUY"] + t.most - t.fee
      BY <1>2, <1>3, <1>4
    <2>2. available[p]["BUY"] \in Nat
      BY <1>2, <1>4
    <2>3. \A x \in Parties : x # p => available'[x]["BUY"] = available[x]["BUY"]
      BY <1>2, <1>3, <1>4
    <2>4. available'[p]["BUY"] = available[p]["BUY"] + (t.most - t.fee)
      BY <2>1, <2>2, <1>2
    <2> QED
      BY <2>3, <2>4 DEF HasMore
  <1>8. HasMore(available, available', q, "SELL", 0)
    <2>1. \A x \in Parties : available'[x]["SELL"] = available[x]["SELL"]
      BY <1>2, <1>3, <1>4
    <2>2. available[q]["SELL"] \in Nat
      BY <1>2, <1>4
    <2> QED
      BY <1>2, <2>1, <2>2 DEF HasMore
  <1>9. /\ clearing'["BUY"] = clearing["BUY"] + t.notional + t.fee
        /\ clearing'["SELL"] = clearing["SELL"] + t.quantity
    BY <1>3, <1>4
  <1> QED
    BY <1>1, <1>2, <1>5, <1>6, <1>7, <1>8, <1>9

\* ... and what its two orders hold afterwards.
LEMMA FillHolds ==
    ASSUME IndInv, NEW m \in Orders, Sound(m), Fill(m)
    PROVE  LET t == Terms(m)
               b == Buyer(m)
               s == Seller(m) IN
           /\ HoldsMore(row, row', b, row[b].party, "BUY", 0 - t.reduction)
           /\ HoldsMore(row, row', s, row[s].party, "SELL", 0 - t.quantity)
  <1>1. PICK t, b, s : t = Terms(m) /\ b = Buyer(m) /\ s = Seller(m)
    OBVIOUS
  <1>2. /\ row'[b] = BuyerAfter(row[b], t) /\ row'[s] = SellerAfter(row[s], t)
        /\ row'[b] \in Rows /\ row'[s] \in Rows
        /\ \A o \in Orders \ {b, s} : row'[o] = row[o]
    BY <1>1, FillRows
  <1>3. /\ b \in Orders /\ s \in Orders /\ b # s /\ row[b] \in Rows /\ row[s] \in Rows
        /\ row[b].side = "BUY" /\ row[s].side = "SELL"
        /\ t.reduction \in Nat /\ t.quantity \in Nat
    BY <1>1, SMTT(40) DEF Sound
  <1>4. /\ row'[b].party = row[b].party /\ row'[b].side = "BUY"
        /\ row'[b].reserved = row[b].reserved - t.reduction
    <2>1. \A r \in Rows : \A u : /\ BuyerAfter(r, u).party = r.party
                                 /\ BuyerAfter(r, u).side = r.side
                                 /\ BuyerAfter(r, u).reserved = r.reserved - u.reduction
      BY RowsAfter
    <2>2. /\ BuyerAfter(row[b], t).party = row[b].party
          /\ BuyerAfter(row[b], t).side = row[b].side
          /\ BuyerAfter(row[b], t).reserved = row[b].reserved - t.reduction
      BY ONLY <2>1, <1>3, Zenon
    <2> QED
      BY ONLY <2>2, <1>2, <1>3, Zenon
  <1>5. /\ row'[s].party = row[s].party /\ row'[s].side = "SELL"
        /\ row'[s].reserved = row[s].reserved - t.quantity
    <2>1. \A r \in Rows : \A u : /\ SellerAfter(r, u).party = r.party
                                 /\ SellerAfter(r, u).side = r.side
                                 /\ SellerAfter(r, u).reserved = r.reserved - u.quantity
      BY RowsAfter
    <2>2. /\ SellerAfter(row[s], t).party = row[s].party
          /\ SellerAfter(row[s], t).side = row[s].side
          /\ SellerAfter(row[s], t).reserved = row[s].reserved - t.quantity
      BY ONLY <2>1, <1>3, Zenon
    <2> QED
      BY ONLY <2>2, <1>2, <1>3, Zenon
  <1>6. row[b] # None /\ row[s] # None /\ row'[b] # None /\ row'[s] # None
    BY <1>2, <1>3, OmsAssumption
  <1>7. row[b].reserved \in Nat /\ row[s].reserved \in Nat
    BY <1>3 DEF Rows
  <1>8. HoldsMore(row, row', b, row[b].party, "BUY", 0 - t.reduction)
    <2>1. ASSUME NEW x \in Orders, NEW q \in Parties, x # b \/ q # row[b].party
          PROVE  HoldOf(row'[x], q, "BUY") = HoldOf(row[x], q, "BUY")
      <3>1. CASE x = b
        BY <2>1, <3>1, <1>4 DEF HoldOf
      <3>2. CASE x = s
        BY <3>2, <1>3, <1>5 DEF HoldOf
      <3>3. CASE x \notin {b, s}
        BY <3>3, <1>2
      <3> QED
        BY <3>1, <3>2, <3>3
    <2>2. HoldOf(row'[b], row[b].party, "BUY") = row[b].reserved - t.reduction
      BY <1>4, <1>6 DEF HoldOf
    <2>3. HoldOf(row[b], row[b].party, "BUY") = row[b].reserved
      BY <1>3, <1>6 DEF HoldOf
    <2>4. row[b].reserved - t.reduction = row[b].reserved + (0 - t.reduction)
      BY <1>3, <1>7
    <2> QED
      BY <2>1, <2>2, <2>3, <2>4 DEF HoldsMore
  <1>9. HoldsMore(row, row', s, row[s].party, "SELL", 0 - t.quantity)
    <2>1. ASSUME NEW x \in Orders, NEW q \in Parties, x # s \/ q # row[s].party
          PROVE  HoldOf(row'[x], q, "SELL") = HoldOf(row[x], q, "SELL")
      <3>1. CASE x = s
        BY <2>1, <3>1, <1>5 DEF HoldOf
      <3>2. CASE x = b
        BY <3>2, <1>3, <1>4 DEF HoldOf
      <3>3. CASE x \notin {b, s}
        BY <3>3, <1>2
      <3> QED
        BY <3>1, <3>2, <3>3
    <2>2. HoldOf(row'[s], row[s].party, "SELL") = row[s].reserved - t.quantity
      BY <1>5, <1>6 DEF HoldOf
    <2>3. HoldOf(row[s], row[s].party, "SELL") = row[s].reserved
      BY <1>3, <1>6 DEF HoldOf
    <2>4. row[s].reserved - t.quantity = row[s].reserved + (0 - t.quantity)
      BY <1>3, <1>7
    <2> QED
      BY <2>1, <2>2, <2>3, <2>4 DEF HoldsMore
  <1> QED
    BY <1>1, <1>8, <1>9

LEMMA FillBalanced ==
    ASSUME IndInv, IndInv', Balanced, NEW m \in Orders, Fill(m)
    PROVE  Balanced'
  <1>1. Sound(m)
    BY TermsAreSound DEF Fill
  <1>2. PICK t, b, s : t = Terms(m) /\ b = Buyer(m) /\ s = Seller(m)
    OBVIOUS
  <1>3. /\ b \in Orders /\ s \in Orders /\ {b, s} = {taker, m}
        /\ t.reduction \in Nat /\ t.quantity \in Nat /\ t.notional \in Nat
        /\ t.most \in Nat /\ t.most = t.reduction - t.notional /\ t.fee \in Nat
    BY <1>1, <1>2, SMTT(40) DEF Sound
  <1>4. PICK p, q : p = row[b].party /\ q = row[s].party
    OBVIOUS
  <1>5. /\ p \in Parties /\ q \in Parties
        /\ HasMore(reserved, reserved', p, "BUY", 0 - t.reduction)
        /\ HasMore(available, available', p, "BUY", t.most - t.fee)
        /\ HasMore(reserved, reserved', q, "SELL", 0 - t.quantity)
        /\ HasMore(available, available', q, "SELL", 0)
        /\ clearing'["BUY"] = clearing["BUY"] + t.notional + t.fee
        /\ clearing'["SELL"] = clearing["SELL"] + t.quantity
    BY <1>1, <1>2, <1>4, FillMoves DEF IndInv
  <1>6. /\ HoldsMore(row, row', b, p, "BUY", 0 - t.reduction)
        /\ HoldsMore(row, row', s, q, "SELL", 0 - t.quantity)
    BY <1>1, <1>2, <1>4, FillHolds
  <1>7. TypesOf(row, available, reserved) /\ TypesOf(row', available', reserved')
    BY DEF IndInv, TypeOK, TypesOf
  <1>8. /\ clearing["BUY"] \in Nat /\ clearing["SELL"] \in Nat
        /\ clearing'["BUY"] \in Nat /\ clearing'["SELL"] \in Nat
        /\ "BUY" \in Sides /\ "SELL" \in Sides
    BY DEF IndInv, TypeOK, Sides
  <1>9. SideIsBalanced(row', available', reserved', clearing'["BUY"], "BUY")
    <2>1. SideIsBalanced(row, available, reserved, clearing["BUY"], "BUY")
      BY <1>8 DEF Balanced, SidesAreBalanced
    <2>2. /\ (0 - t.reduction) + (t.most - t.fee) + (clearing'["BUY"] - clearing["BUY"]) = 0
          /\ 0 - t.reduction \in Int /\ t.most - t.fee \in Int
      BY <1>3, <1>5, <1>8
    <2>3. PICK d, e : d = 0 - t.reduction /\ e = t.most - t.fee
      OBVIOUS
    <2>4. /\ HoldsMore(row, row', b, p, "BUY", d) /\ HasMore(reserved, reserved', p, "BUY", d)
          /\ HasMore(available, available', p, "BUY", e)
      BY <2>3, <1>5, <1>6
    <2>5. d \in Int /\ e \in Int /\ d + e + (clearing'["BUY"] - clearing["BUY"]) = 0
      BY <2>2, <2>3
    <2> QED
      BY ONLY <2>1, <2>4, <2>5, <1>3, <1>5, <1>7, <1>8, SideMoves
  <1>10. SideIsBalanced(row', available', reserved', clearing'["SELL"], "SELL")
    <2>1. SideIsBalanced(row, available, reserved, clearing["SELL"], "SELL")
      BY <1>8 DEF Balanced, SidesAreBalanced
    <2>2. /\ (0 - t.quantity) + 0 + (clearing'["SELL"] - clearing["SELL"]) = 0
          /\ 0 - t.quantity \in Int /\ 0 \in Int
      BY <1>3, <1>5, <1>8
    <2> QED
      BY <2>1, <2>2, <1>3, <1>5, <1>6, <1>7, <1>8, SideMoves
  <1>11. SidesAreBalanced'
    BY <1>9, <1>10 DEF SidesAreBalanced, Sides
  <1>12. PICK new \in Trades : /\ trades' = trades \cup {new}
                               /\ {new.buy, new.sell} = {taker, m}
                               /\ new.quantity = t.quantity /\ new.buyerFee = t.fee
                               /\ new.price * new.quantity = t.notional
    BY <1>1, <1>2, FillTrades
  <1>13. /\ taker \in Orders
         /\ book[taker] \in EngineOrder /\ book[m] \in EngineOrder
         /\ book[taker].open > 0 /\ book[m].open > 0
    BY MakerIsOpposite DEF IndInv, OnlyTakerCrosses, Fill
  <1>14. new \notin trades
    BY <1>12, <1>13 DEF Balanced, TradesUseUp
  <1>15. TradesUseUp'
    <2>1. /\ \A o \in {taker, m} : book'[o] = [book[o] EXCEPT !.open = book[o].open - t.quantity]
          /\ \A o \in Orders \ {taker, m} : book'[o] = book[o]
      BY <1>1, <1>2, FillBook
    <2>2. t.quantity = ExecutionQuantity(book, taker, m)
      BY <1>1, <1>2 DEF Sound
    <2>3. \E o \in {taker, m} : t.quantity = book[o].open
      BY <2>2 DEF ExecutionQuantity
    <2>4. PICK o \in {taker, m} : t.quantity = book[o].open
      BY <2>3
    <2>5. book[o] \in EngineOrder /\ book[o].open \in Nat
      BY <2>4, <1>13 DEF EngineOrder
    <2>6. book'[o] \in EngineOrder /\ book'[o].open = 0
      BY <2>1, <2>4, <2>5 DEF EngineOrder
    <2>7. o \in {new.buy, new.sell} /\ book'[o] # None
      BY <2>4, <2>6, <1>12, EngineAssumption
    <2>8. ASSUME NEW u \in trades PROVE \E x \in {u.buy, u.sell} : book'[x] # None /\ book'[x].open = 0
      <3>1. PICK x \in {u.buy, u.sell} : book[x] # None /\ book[x].open = 0
        BY DEF Balanced, TradesUseUp
      <3>2. x \in Orders
        BY DEF IndInv, TypeOK, Trades
      <3>3. x \notin {taker, m}
        BY <3>1, <1>13
      <3> QED
        BY <3>1, <3>2, <3>3, <2>1
    <2>9. IsFiniteSet(trades')
      BY <1>12, FS_AddElement DEF Balanced, TradesUseUp
    <2>10. \A u \in trades' : u \in trades \/ u = new
      BY <1>12
    <2> QED
      BY <2>6, <2>7, <2>8, <2>9, <2>10 DEF TradesUseUp
  <1>16. ClearingIsTraded'
    <2>1. trades \subseteq Trades /\ IsFiniteSet(trades)
      BY DEF IndInv, TypeOK, Balanced, TradesUseUp
    <2>2. /\ Tokens(trades \cup {new}) = Tokens(trades) + new.quantity
          /\ Money(trades \cup {new}) = Money(trades) + (new.price * new.quantity + new.buyerFee)
      BY <2>1, <1>14, OneTradeMore
    <2>3. /\ Tokens(trades') = Tokens(trades) + t.quantity
          /\ Money(trades') = Money(trades) + (t.notional + t.fee)
      BY <2>2, <1>12
    <2>4. clearing["SELL"] = Tokens(trades) /\ clearing["BUY"] = Money(trades)
      BY DEF Balanced, ClearingIsTraded
    <2>5. clearing'["SELL"] = Tokens(trades')
      BY <2>3, <2>4, <1>5
    <2>6. clearing["BUY"] + t.notional + t.fee = clearing["BUY"] + (t.notional + t.fee)
      BY <1>3, <1>8
    <2>7. clearing'["BUY"] = Money(trades')
      BY <2>3, <2>4, <2>6, <1>5
    <2> QED
      BY <2>5, <2>7 DEF ClearingIsTraded
  <1> QED
    BY <1>11, <1>15, <1>16 DEF Balanced

------------------------------------------------------------------------------
\* Balances, reservations, trades and clearing stay in step.
LEMMA BalancedStep ==
    ASSUME IndInv, IndInv', Balanced, [Next]_vars
    PROVE  Balanced'
  <1>1. CASE UNCHANGED vars
    BY <1>1, NothingMoves DEF vars, accounts
  <1>2. ASSUME NEW o \in Orders, NEW p \in Parties, NEW s \in Sides, NEW price \in Prices,
               NEW q \in Quantities, Place(o, p, s, price, q) \/ PlaceRejected(o, p, s, price, q)
        PROVE  Balanced'
    BY <1>2, PlaceBalanced, PlaceRejectedBalanced
  <1>3. ASSUME NEW o \in Orders, Cancel(o) PROVE Balanced'
    BY <1>3, CloseBalanced DEF Cancel, Live
  <1>4. ASSUME NEW m \in Orders, PreventSelfTrade(m) PROVE Balanced'
    <2>1. taker \in Orders /\ book[taker] # None /\ CloseOrder(taker)
      BY <1>4 DEF PreventSelfTrade, IndInv, TypeOK, OnlyTakerCrosses
    <2>2. row[taker] # None
      BY <2>1 DEF IndInv, BookAgrees
    <2> QED
      BY <2>1, <2>2, CloseBalanced
  <1>5. ASSUME NEW m \in Orders, Fill(m) PROVE Balanced'
    BY <1>5, FillBalanced
  <1>6. CASE Finish \/ ChangeFees
    BY <1>6, NothingMoves DEF Finish, ChangeFees, accounts
  <1> QED
    BY <1>1, <1>2, <1>3, <1>4, <1>5, <1>6 DEF Next

\* The money and the tokens of all parties are where the orders and trades say: no
\* unit is lost or made by rounding, better prices, cancellations or changes of fees.
THEOREM OmsAccountsFollowOrders == Spec => []AccountsFollowOrders
  <1>1. Init => IndInv /\ Balanced
    BY InitInv, InitBalanced
  <1>2. (IndInv /\ Balanced) /\ [Next]_vars => (IndInv /\ Balanced)'
    BY NextInv, BalancedStep
  <1>3. Balanced => AccountsFollowOrders
    BY DEF Balanced, SidesAreBalanced, SideIsBalanced, ClearingIsTraded, Held, HoldOf, Spent, Whole,
       Tokens, Money, AccountsFollowOrders, Sides
  <1> QED
    BY <1>1, <1>2, <1>3, PTL DEF Spec

=============================================================================
