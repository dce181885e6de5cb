------------------------------- MODULE Redemption -------------------------------
(***************************************************************************)
(* Goods, collateral, supply and tokens of one instrument at one elevator:  *)
(* redemption.service.ts, collateral-ledger.service.ts, mint.service.ts,    *)
(* the timeout job, and the commands of the elevator portal.                *)
(*                                                                         *)
(* Every action is one database transaction.  Mint, changes of collateral   *)
(* and completion hold the row of the instrument, so they do not overlap;   *)
(* the others work on one redemption or one receipt.  Between transactions  *)
(* anything may happen: an oracle event is judged late, its delivery is     *)
(* repeated, a delivery call dies between preparing and releasing.          *)
(* OracleStream has the way of an event from registry to gateway; here an   *)
(* event is only sent, then applied or refused.                             *)
(***************************************************************************)
EXTENDS Integers, FiniteSets, Functions

CONSTANTS
    Receipts,      \* warehouse receipts, numbered in order of creation
    Quantity,      \* of goods on each receipt
    Unit,          \* instrument.unit_per_token
    Cap,           \* instrument.supply_cap
    Lot,           \* minimumDeliveryQuantity of the passport
    Holders,
    Redemptions,   \* redemption requests, named by their idempotency keys
    Keys,          \* idempotency keys of mint requests
    Workers,       \* concurrent delivery calls, of the portal or the consumer
    Amounts,       \* of tokens or goods that requests and events name
    MaxReports,    \* bound on events of oracle sources other than the registry
    None

Live == {"TOKENS_LOCKED", "IN_DELIVERY", "EXCEPTION", "QUARANTINED"}
Statuses == Live \cup {"COMPLETED", "CANCELLED"}
Rows == [holder : Holders, quantity : Amounts, status : Statuses,
         receipt : Receipts \cup {None}]
Calls == [receipt : Receipts, redemption : Redemptions]

ASSUME RedemptionAssumption ==
    /\ Receipts \subseteq Nat
    /\ Amounts \subseteq Nat \ {0}
    /\ Quantity \in [Receipts -> Amounts]
    /\ Unit \in Nat \ {0} /\ Cap \in Nat \ {0} /\ Lot \in Nat \ {0}
    /\ MaxReports \in Nat
    /\ IsFiniteSet(Receipts) /\ IsFiniteSet(Redemptions) /\ IsFiniteSet(Keys)
    /\ None \notin Receipts /\ None \notin Redemptions /\ None \notin Amounts
    /\ None \notin Rows /\ None \notin Calls

VARIABLES
    receipt,        \* mock_ezr_receipts: status, and the redemption it left for
    answer,         \* of the oracle gateway to each event
    moved,          \* events with a row in collateral_position_movements
    position,       \* collateral_position.reserved of each receipt
    status,         \* of the instrument
    supply,         \* instrument.circulating_supply
    distribution,   \* balance of the distribution account
    minted,         \* mint_commands: the quantity minted under a key, 0 if refused
    available,      \* AVAILABLE token balance of each holder
    reserved,       \* RESERVED token balance, shared by orders and redemptions
    orders,         \* part of the RESERVED balance that OMS holds for orders
    redemption,     \* redemption_orders
    call            \* receipt and redemption a delivery call is about to release

goods == <<receipt, answer>>
collateral == <<moved, position>>
issue == <<status, supply, distribution, minted>>
tokens == <<available, reserved, orders>>
vars == <<goods, collateral, issue, tokens, redemption, call>>

-----------------------------------------------------------------------------
(* Oracle events *)

Sources == {"EZR", "OTHER"}
Types == {"RECEIPT_LOCKED", "GOODS_RELEASED"}
Events == [source : Sources, type : Types, receipt : Receipts,
           redemption : Redemptions \cup {None}, quantity : Amounts]
Event(s, t, a, d, q) ==
    [source |-> s, type |-> t, receipt |-> a, redemption |-> d, quantity |-> q]

\* What the registry publishes when a receipt changes.
LockedEvent(a) == Event("EZR", "RECEIPT_LOCKED", a, None, Quantity[a])
ReleasedEvent(a, d) == Event("EZR", "GOODS_RELEASED", a, d, Quantity[a])

Applied(e) == answer[e] = "APPLIED"
Send(e) == answer' = [answer EXCEPT ![e] = "SENT"]

Verified == SumFunctionOnSet(position, Receipts)

Asked == {d \in Redemptions : redemption[d] # None}
With(s) == {d \in Asked : redemption[d].status \in s}

Init ==
    /\ receipt = [a \in Receipts |-> [status |-> "AVAILABLE", redemption |-> None]]
    /\ answer = [e \in Events |-> "NONE"]
    /\ moved = {}
    /\ position = [a \in Receipts |-> 0]
    /\ status = "APPROVED"
    /\ supply = 0 /\ distribution = 0
    /\ minted = [k \in Keys |-> None]
    /\ available = [h \in Holders |-> 0]
    /\ reserved = [h \in Holders |-> 0]
    /\ orders = [h \in Holders |-> 0]
    /\ redemption = [d \in Redemptions |-> None]
    /\ call = [w \in Workers |-> None]

-----------------------------------------------------------------------------
(* The registry and the oracle sources *)

\* Elevator staff accept a receipt as collateral.
LockReceipt(a) ==
    /\ receipt[a].status = "AVAILABLE"
    /\ receipt' = [receipt EXCEPT ![a].status = "LOCKED"]
    /\ Send(LockedEvent(a))
    /\ UNCHANGED <<collateral, issue, tokens, redemption, call>>

\* Another trusted source says that goods of a receipt left, with or without a
\* redemption; what it says may be wrong about both.
Reports == {e \in Events : e.source = "OTHER" /\ answer[e] # "NONE"}
Report(e) ==
    /\ e.source = "OTHER" /\ e.type = "GOODS_RELEASED" /\ answer[e] = "NONE"
    /\ Cardinality(Reports) < MaxReports
    /\ Send(e)
    /\ UNCHANGED <<receipt, collateral, issue, tokens, redemption, call>>

\* The gateway decides; a refused event stays refused.
Judge(e) ==
    /\ answer[e] = "SENT"
    /\ \E v \in {"APPLIED", "REFUSED"} : answer' = [answer EXCEPT ![e] = v]
    /\ UNCHANGED <<receipt, collateral, issue, tokens, redemption, call>>

-----------------------------------------------------------------------------
(* Collateral: changeWithinTransaction *)

\* The least collateral the supply s needs.
Required(s) == s * Unit

RESERVE(e) ==
    /\ position[e.receipt] + e.quantity <= Quantity[e.receipt]
    /\ position' = [position EXCEPT ![e.receipt] = @ + e.quantity]

\* Seeded fault: collateral is checked before the supply is reduced.
MayReleaseBefore(e, s) ==
    /\ position[e.receipt] >= e.quantity
    /\ Verified - e.quantity >= Required(supply)

MayRelease(e, s) ==
    /\ position[e.receipt] >= e.quantity
    /\ Verified - e.quantity >= Required(s)

\* Seeded fault: any release empties the position.
ReleaseAll(e) == position' = [position EXCEPT ![e.receipt] = 0]

RELEASE(e) == position' = [position EXCEPT ![e.receipt] = @ - e.quantity]

Record(e) == moved' = moved \cup {e}

\* AppliedOracleEventConsumer.  A repeated delivery finds the movement and
\* changes nothing; a release for a redemption is left to redemption.
ApplyLocked(e) ==
    /\ Applied(e) /\ e \notin moved /\ e.type = "RECEIPT_LOCKED"
    /\ RESERVE(e) /\ Record(e)
    /\ UNCHANGED <<goods, issue, tokens, redemption, call>>

ApplyWithdrawal(e) ==
    /\ Applied(e) /\ e \notin moved /\ e.type = "GOODS_RELEASED" /\ e.redemption = None
    /\ MayRelease(e, supply)
    /\ RELEASE(e) /\ Record(e)
    /\ UNCHANGED <<goods, issue, tokens, redemption, call>>

-----------------------------------------------------------------------------
(* The instrument: coverage, life cycle, mint *)

\* applyCollateralReserved, after a reservation, by the portal or the relay.
Cover ==
    /\ \E e \in moved : e.type = "RECEIPT_LOCKED"
    /\ status = "APPROVED" /\ Verified >= Required(Cap)
    /\ status' = "COLLATERALIZED"
    /\ UNCHANGED <<goods, collateral, supply, distribution, minted, tokens, redemption, call>>

\* An operator takes the instrument to its next stage.  Suspension only bars
\* mint and new redemptions for a while.
Forward == {<<"COLLATERALIZED", "PRIMARY">>, <<"PRIMARY", "ACTIVE">>, <<"ACTIVE", "REDEMPTION">>}
Transition(s) ==
    /\ <<status, s>> \in Forward
    /\ status' = s
    /\ UNCHANGED <<goods, collateral, supply, distribution, minted, tokens, redemption, call>>

\* Seeded fault: collateral is checked against the supply before the mint.
MayMintUnbacked(q) ==
    /\ status \in {"COLLATERALIZED", "ACTIVE"}
    /\ \E a \in Receipts : position[a] > 0
    /\ supply + q <= Cap
    /\ Required(supply) <= Verified

\* The proof names a position; its evidence is stored with it.
MayMint(q) ==
    /\ status \in {"COLLATERALIZED", "ACTIVE"}
    /\ \E a \in Receipts : position[a] > 0
    /\ supply + q <= Cap
    /\ Required(supply + q) <= Verified

\* Seeded fault: a repeated request mints again.
MintAgain(k, q) ==
    /\ MayMint(q)
    /\ distribution' = distribution + q
    /\ supply' = supply + q
    /\ minted' = [minted EXCEPT ![k] = q]
    /\ UNCHANGED <<goods, collateral, status, tokens, redemption, call>>

Mint(k, q) ==
    /\ minted[k] = None /\ MayMint(q)
    /\ distribution' = distribution + q
    /\ supply' = supply + q
    /\ minted' = [minted EXCEPT ![k] = q]
    /\ UNCHANGED <<goods, collateral, status, tokens, redemption, call>>

\* A refusal, which a wrong proof can bring about at any time, is stored under
\* the key too and replayed for ever.
RefuseMint(k) ==
    /\ minted[k] = None
    /\ minted' = [minted EXCEPT ![k] = 0]
    /\ UNCHANGED <<goods, collateral, status, supply, distribution, tokens, redemption, call>>

-----------------------------------------------------------------------------
(* Holders: the issuer's placement and the orders of OMS *)

InHands == SumFunctionOnSet([h \in Holders |-> available[h] + reserved[h]], Holders)

\* The issuer hands out tokens that were minted.
Allocate(h, q) ==
    /\ InHands + q <= distribution
    /\ available' = [available EXCEPT ![h] = @ + q]
    /\ UNCHANGED <<goods, collateral, issue, reserved, orders, redemption, call>>

\* ledger.reserve and ledger.release of a holder's tokens.
Freeze(h, q) ==
    /\ available[h] >= q
    /\ available' = [available EXCEPT ![h] = @ - q]
    /\ reserved' = [reserved EXCEPT ![h] = @ + q]
Unfreeze(h, q) ==
    /\ reserved[h] >= q
    /\ available' = [available EXCEPT ![h] = @ + q]
    /\ reserved' = [reserved EXCEPT ![h] = @ - q]

PlaceOrder(h, q) ==
    /\ Freeze(h, q)
    /\ orders' = [orders EXCEPT ![h] = @ + q]
    /\ UNCHANGED <<goods, collateral, issue, redemption, call>>

EndOrder(h, q) ==
    /\ orders[h] >= q
    /\ Unfreeze(h, q)
    /\ orders' = [orders EXCEPT ![h] = @ - q]
    /\ UNCHANGED <<goods, collateral, issue, redemption, call>>

-----------------------------------------------------------------------------
(* Redemption *)

Become(d, s) == redemption' = [redemption EXCEPT ![d].status = s]

\* CREATED exists only inside the transaction.
Create(d, h, q) ==
    /\ redemption[d] = None
    /\ status \in {"ACTIVE", "REDEMPTION"}
    /\ q % Lot = 0
    /\ Freeze(h, q)
    /\ redemption' = [redemption EXCEPT ![d] =
           [holder |-> h, quantity |-> q, status |-> "TOKENS_LOCKED", receipt |-> None]]
    /\ UNCHANGED <<goods, collateral, issue, orders, call>>

\* Seeded fault: a delivery that has been prepared can still be cancelled.
CancelLate(d) ==
    /\ d \in With({"TOKENS_LOCKED", "IN_DELIVERY"})
    /\ Unfreeze(redemption[d].holder, redemption[d].quantity)
    /\ Become(d, "CANCELLED")
    /\ UNCHANGED <<goods, collateral, issue, orders, call>>

Cancel(d) ==
    /\ d \in With({"TOKENS_LOCKED"})
    /\ Unfreeze(redemption[d].holder, redemption[d].quantity)
    /\ Become(d, "CANCELLED")
    /\ UNCHANGED <<goods, collateral, issue, orders, call>>

\* Seeded fault: the timeout gives the tokens back.
ExpireUnfreezing(d) ==
    /\ d \in With({"TOKENS_LOCKED", "IN_DELIVERY"})
    /\ Unfreeze(redemption[d].holder, redemption[d].quantity)
    /\ Become(d, "EXCEPTION")
    /\ UNCHANGED <<goods, collateral, issue, orders, call>>

\* expireOverdue and the timeout job; tokens remain reserved.
Expire(d) ==
    /\ d \in With({"TOKENS_LOCKED", "IN_DELIVERY"})
    /\ Become(d, "EXCEPTION")
    /\ UNCHANGED <<goods, collateral, issue, tokens, call>>

Underlying(d) == Required(redemption[d].quantity)
Exact(d) ==
    {a \in Receipts : /\ receipt[a].status = "LOCKED"
                      /\ Quantity[a] = Underlying(d)
                      /\ position[a] >= Underlying(d)}

\* prepareDelivery: the oldest exact receipt is named in the redemption, but not
\* marked itself.
Prepare(w, d) ==
    /\ call[w] = None /\ d \in With({"TOKENS_LOCKED"})
    /\ \E a \in Exact(d) :
          /\ \A b \in Exact(d) : a <= b
          /\ redemption' = [redemption EXCEPT ![d].status = "IN_DELIVERY", ![d].receipt = a]
          /\ call' = [call EXCEPT ![w] = [receipt |-> a, redemption |-> d]]
    /\ UNCHANGED <<goods, collateral, issue, tokens>>

\* Seeded fault: a repeated call looks for a receipt anew.
PrepareAnew(w, d) ==
    /\ call[w] = None /\ d \in With({"IN_DELIVERY"})
    /\ \E a \in Exact(d) :
          call' = [call EXCEPT ![w] = [receipt |-> a, redemption |-> d]]
    /\ UNCHANGED <<goods, collateral, issue, tokens, redemption>>

\* The same for a redemption that is already in delivery.
PrepareAgain(w, d) ==
    /\ call[w] = None /\ d \in With({"IN_DELIVERY"})
    /\ call' = [call EXCEPT ![w] = [receipt |-> redemption[d].receipt, redemption |-> d]]
    /\ UNCHANGED <<goods, collateral, issue, tokens, redemption>>

\* Whatever happened since, the call asks the registry to let the goods go.
ReleaseReceipt(w) ==
    /\ call[w] # None
    /\ receipt[call[w].receipt].status = "LOCKED"
    /\ receipt' = [receipt EXCEPT ![call[w].receipt] =
           [status |-> "RELEASED", redemption |-> call[w].redemption]]
    /\ Send(ReleasedEvent(call[w].receipt, call[w].redemption))
    /\ call' = [call EXCEPT ![w] = None]
    /\ UNCHANGED <<collateral, issue, tokens, redemption>>

\* The registry refuses or repeats its answer, or the process dies.
EndCall(w) ==
    /\ call[w] # None
    /\ call' = [call EXCEPT ![w] = None]
    /\ UNCHANGED <<goods, collateral, issue, tokens, redemption>>

\* applyGoodsReleased, called by the portal after ReleaseReceipt or by the
\* relay: it demands the redemption in delivery and an applied event about it.
Evidence(e) ==
    /\ Applied(e) /\ e.type = "GOODS_RELEASED"
    /\ e.redemption \in With({"IN_DELIVERY"})
    /\ redemption[e.redemption].receipt = e.receipt

Burn(d) ==
    LET h == redemption[d].holder
        q == redemption[d].quantity IN
    /\ reserved[h] >= q /\ distribution >= q /\ supply >= q
    /\ reserved' = [reserved EXCEPT ![h] = @ - q]
    /\ distribution' = distribution - q
    /\ supply' = supply - q
    /\ UNCHANGED <<status, minted, available, orders>>

Complete(e) ==
    /\ Evidence(e) /\ e.quantity = Underlying(e.redemption)
    /\ Burn(e.redemption)
    /\ MayRelease(e, supply') /\ RELEASE(e) /\ Record(e)
    /\ Become(e.redemption, "COMPLETED")
    /\ UNCHANGED <<goods, call>>

Quarantine(e) ==
    /\ Evidence(e) /\ e.quantity # Underlying(e.redemption)
    /\ Become(e.redemption, "QUARANTINED")
    /\ UNCHANGED <<goods, collateral, issue, tokens, call>>

-----------------------------------------------------------------------------
Relay(e) == ApplyLocked(e) \/ ApplyWithdrawal(e) \/ Complete(e) \/ Quarantine(e)

Next ==
    \/ \E a \in Receipts : LockReceipt(a)
    \/ \E e \in Events : Report(e) \/ Judge(e) \/ Relay(e)
    \/ Cover
    \/ \E s \in {"PRIMARY", "ACTIVE", "REDEMPTION"} : Transition(s)
    \/ \E k \in Keys : RefuseMint(k) \/ \E q \in Amounts : Mint(k, q)
    \/ \E h \in Holders, q \in Amounts : Allocate(h, q) \/ PlaceOrder(h, q) \/ EndOrder(h, q)
    \/ \E d \in Redemptions, h \in Holders, q \in Amounts : Create(d, h, q)
    \/ \E d \in Redemptions : Cancel(d) \/ Expire(d)
    \/ \E w \in Workers, d \in Redemptions : Prepare(w, d) \/ PrepareAgain(w, d)
    \/ \E w \in Workers : ReleaseReceipt(w) \/ EndCall(w)

Spec == Init /\ [][Next]_vars

\* The relay goes on delivering what the registry says of goods that left.
FairSpec ==
    Spec /\ \A a \in Receipts, d \in Redemptions : WF_vars(Relay(ReleasedEvent(a, d)))

-----------------------------------------------------------------------------
(* Properties *)

\* The types; in particular no balance and no position is ever negative.
TypeOK ==
    /\ receipt \in [Receipts -> [status : {"AVAILABLE", "LOCKED", "RELEASED"},
                                 redemption : Redemptions \cup {None}]]
    /\ answer \in [Events -> {"NONE", "SENT", "APPLIED", "REFUSED"}]
    /\ moved \subseteq Events
    /\ position \in [Receipts -> Nat]
    /\ status \in {"APPROVED", "COLLATERALIZED", "PRIMARY", "ACTIVE", "REDEMPTION"}
    /\ supply \in Nat /\ distribution \in Nat
    /\ minted \in [Keys -> Nat \cup {None}]
    /\ available \in [Holders -> Nat] /\ reserved \in [Holders -> Nat]
    /\ orders \in [Holders -> Nat]
    /\ redemption \in [Redemptions -> {None} \cup Rows]
    /\ call \in [Workers -> {None} \cup Calls]

Owed(D) == SumFunctionOnSet([d \in Redemptions |->
              IF d \in D THEN redemption[d].quantity ELSE 0], Redemptions)

\* The supply is what the ledger has on the distribution account.
SupplyIsInLedger == distribution = supply

\* What ops/reconcile-supply.ts looks for every night holds all the time: the
\* ledger has the supply, and verified collateral covers it, although mint,
\* burn and changes of collateral check each other in separate transactions.
SupplyReconciles ==
    /\ SupplyIsInLedger
    /\ Required(supply) <= Verified

\* Tokens exist that were minted and not burned for a completed redemption,
\* once each: repeated events and mixed sources of evidence burn nothing twice.
SupplyIsMintedLessBurned ==
    supply + Owed(With({"COMPLETED"})) =
        SumFunctionOnSet([k \in Keys |-> IF minted[k] = None THEN 0 ELSE minted[k]], Keys)

\* A holder's RESERVED account, which orders and redemptions share, has exactly
\* what both hold there: neither can take what the other reserved.
ReservedIsAccounted ==
    \A h \in Holders :
        reserved[h] = orders[h] + Owed({d \in With(Live) : redemption[d].holder = h})

\* The receipts' positions are what the applied evidence says.
PositionsFollowEvidence ==
    \A a \in Receipts :
        LET Sum(t) == SumFunctionOnSet([e \in moved |->
                IF e.receipt = a /\ e.type = t THEN e.quantity ELSE 0], moved) IN
        position[a] = Sum("RECEIPT_LOCKED") - Sum("GOODS_RELEASED")

\* Redemptions whose goods have left the elevator although they still have tokens.
GoneUnburned == {d \in With(Live) : \E a \in Receipts : receipt[a].redemption = d}

\* The goods still under lock cover the tokens whose goods have not left: while
\* an event is on its way, and after a redemption ended without burning, the
\* goods that are gone support no token but those frozen for them.
BackedByGoods ==
    LET Locked == {a \in Receipts : receipt[a].status = "LOCKED"} IN
    SumFunctionOnSet(position, Locked) >= Required(supply - Owed(GoneUnburned))

\* Goods leave only for a redemption that is past cancelling and names their
\* receipt, whatever happened between preparing and releasing.
GoodsLeaveForFrozenTokens ==
    \A a \in Receipts : LET d == receipt[a].redemption IN
        receipt[a].status = "RELEASED" =>
            /\ d \in With({"IN_DELIVERY", "COMPLETED", "EXCEPTION", "QUARANTINED"})
            /\ redemption[d].receipt = a

tokensOf(d) ==
    CASE d \notin Asked -> "none"
      [] d \in With({"CANCELLED"}) -> "returned"
      [] d \in With({"COMPLETED"}) -> "burned"
      [] OTHER -> "frozen"
EndedUnburned(d) == d \in With({"EXCEPTION", "QUARANTINED"})

\* Goods that left are paid with the tokens: once the registry's event is
\* applied, the redemption is completed, unless it was ended before.
GoodsGoneAreBurned ==
    \A a \in Receipts, d \in Redemptions :
        Applied(ReleasedEvent(a, d)) ~> tokensOf(d) = "burned" \/ EndedUnburned(d)

\* README.md of redemption: the allocator uses one locked receipt whose quantity
\* is exactly that of the redemption, so two of them cannot share one.
ReceiptsAreNotShared ==
    \A c, d \in With({"IN_DELIVERY"}) :
        c # d => redemption[c].receipt # redemption[d].receipt

\* Refinement: the tokens of a redemption, and the goods that left for it.
Promise == INSTANCE GoodsForTokens WITH
    tokens <- [d \in Redemptions |-> tokensOf(d)],
    goods <- [a \in Receipts |-> receipt[a].redemption]
ImplementsGoodsForTokens == Promise!Spec
=============================================================================
