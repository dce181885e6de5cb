--------------------------- MODULE RedemptionProofs ---------------------------
(***************************************************************************)
(* Proofs about Redemption, for every set of receipts, quantities, holders, *)
(* requests and callers, and every number of reports.                       *)
(***************************************************************************)
EXTENDS Redemption, SumTheorems

Prepared == {"IN_DELIVERY", "COMPLETED", "EXCEPTION", "QUARANTINED"}

\* Past cancelling, and with receipt a.
PreparedWith(d, a) == d \in With(Prepared) /\ redemption[d].receipt = a

\* A delivery call carries what the redemption stored, however old it is.
CallsAreSound ==
    \A w \in Workers :
        call[w] # None => PreparedWith(call[w].redemption, call[w].receipt)

DeliveriesNameReceipts ==
    \A d \in With({"IN_DELIVERY"}) : redemption[d].receipt \in Receipts

\* Goods that are in the elevator are there for nobody.
StoredGoodsAreFree ==
    \A a \in Receipts : receipt[a].status # "RELEASED" => receipt[a].redemption = None

IndInv ==
    /\ TypeOK
    /\ SupplyIsInLedger
    /\ DeliveriesNameReceipts
    /\ CallsAreSound
    /\ StoredGoodsAreFree
    /\ GoodsLeaveForFrozenTokens

------------------------------------------------------------------------------
\* What the steps have in common.

\* Steps that leave redemptions, receipts and calls alone need only keep types
\* and supply.
LEMMA QuietStep ==
    ASSUME IndInv, TypeOK', SupplyIsInLedger', UNCHANGED <<redemption, receipt, call>>
    PROVE  IndInv'
  BY DEF IndInv, DeliveriesNameReceipts, CallsAreSound, PreparedWith, StoredGoodsAreFree,
         GoodsLeaveForFrozenTokens, With, Asked

\* A change of status that is none of receipt, and does not leave Prepared.
LEMMA StatusStep ==
    ASSUME IndInv, TypeOK', SupplyIsInLedger', UNCHANGED <<receipt, call>>,
           NEW d \in Asked, NEW s \in Statuses, Become(d, s),
           redemption[d].status \in Prepared => s \in Prepared,
           s = "IN_DELIVERY" => redemption[d].status = "IN_DELIVERY"
    PROVE  IndInv'
  <1>1. /\ d \in Redemptions /\ redemption[d] \in Rows
        /\ redemption' = [redemption EXCEPT ![d].status = s]
    BY DEF IndInv, TypeOK, Asked, Become
  <1>2. \A c \in Redemptions :
           /\ redemption[c] # None => redemption'[c] # None
           /\ redemption'[c] # None => redemption[c] # None
           /\ redemption[c] # None => redemption'[c].receipt = redemption[c].receipt
           /\ redemption[c] # None =>
                 redemption'[c].status = IF c = d THEN s ELSE redemption[c].status
    BY <1>1, RedemptionAssumption DEF IndInv, TypeOK, Rows, Asked
  <1>3. \A c, a : PreparedWith(c, a) => PreparedWith(c, a)'
    BY <1>2 DEF PreparedWith, With, Asked
  <1>4. DeliveriesNameReceipts'
    BY <1>2 DEF IndInv, DeliveriesNameReceipts, With, Asked
  <1>5. CallsAreSound'
    BY <1>3 DEF IndInv, CallsAreSound
  <1>6. GoodsLeaveForFrozenTokens'
    BY <1>3 DEF IndInv, GoodsLeaveForFrozenTokens, PreparedWith, Prepared
  <1> QED
    BY <1>4, <1>5, <1>6 DEF IndInv, StoredGoodsAreFree

\* Moving a holder's tokens keeps balances in Nat.
LEMMA FreezeTypes ==
    ASSUME TypeOK, NEW h \in Holders, NEW q \in Amounts, Freeze(h, q) \/ Unfreeze(h, q)
    PROVE  /\ available' \in [Holders -> Nat]
           /\ reserved' \in [Holders -> Nat]
  BY RedemptionAssumption DEF TypeOK, Freeze, Unfreeze

\* The registry's events are events.
LEMMA EventTypes ==
    ASSUME NEW a \in Receipts
    PROVE  /\ LockedEvent(a) \in Events
           /\ \A d \in Redemptions : ReleasedEvent(a, d) \in Events
  BY RedemptionAssumption
     DEF LockedEvent, ReleasedEvent, Event, Events, Sources, Types

\* Movements keep positions in Nat.
LEMMA MovementTypes ==
    ASSUME TypeOK, NEW e \in Events,
           \/ RESERVE(e)
           \/ position[e.receipt] >= e.quantity /\ RELEASE(e)
    PROVE  position' \in [Receipts -> Nat]
  <1>1. e.receipt \in Receipts /\ e.quantity \in Nat
    BY RedemptionAssumption DEF Events
  <1>2. position[e.receipt] \in Nat
    BY <1>1 DEF TypeOK
  <1>3. position[e.receipt] + e.quantity \in Nat
    BY <1>1, <1>2
  <1>4. position[e.receipt] >= e.quantity => position[e.receipt] - e.quantity \in Nat
    BY <1>1, <1>2
  <1> QED
    BY <1>3, <1>4 DEF TypeOK, RESERVE, RELEASE

------------------------------------------------------------------------------
\* One lemma for each group of actions.

LEMMA InitInv == Init => IndInv
  BY DEF Init, IndInv, TypeOK, SupplyIsInLedger, DeliveriesNameReceipts, CallsAreSound,
         StoredGoodsAreFree, GoodsLeaveForFrozenTokens, With, Asked

\* The gateway, collateral, and what concerns the instrument as a whole.
LEMMA MarketInv ==
    ASSUME IndInv,
           \/ \E e \in Events : Report(e) \/ Judge(e) \/ ApplyLocked(e) \/ ApplyWithdrawal(e)
           \/ Cover
           \/ \E s \in {"PRIMARY", "ACTIVE", "REDEMPTION"} : Transition(s)
           \/ \E k \in Keys : RefuseMint(k) \/ \E q \in Amounts : Mint(k, q)
    PROVE  IndInv'
  <1> USE DEF IndInv
  <1>1. ASSUME NEW e \in Events, Report(e) \/ Judge(e) PROVE IndInv'
    <2>1. TypeOK' /\ SupplyIsInLedger'
      BY <1>1 DEF Report, Judge, Send, TypeOK, SupplyIsInLedger, collateral, issue, tokens
    <2> QED
      BY <1>1, <2>1, QuietStep DEF Report, Judge
  <1>2. ASSUME NEW e \in Events, ApplyLocked(e) \/ ApplyWithdrawal(e) PROVE IndInv'
    <2>1. position' \in [Receipts -> Nat]
      BY <1>2, MovementTypes DEF ApplyLocked, ApplyWithdrawal, MayRelease
    <2>2. moved' \subseteq Events
      BY <1>2 DEF ApplyLocked, ApplyWithdrawal, Record, TypeOK
    <2>3. UNCHANGED <<goods, issue, tokens, redemption, call>>
      BY <1>2 DEF ApplyLocked, ApplyWithdrawal
    <2>4. TypeOK' /\ SupplyIsInLedger'
      BY <2>1, <2>2, <2>3 DEF TypeOK, SupplyIsInLedger, goods, issue, tokens
    <2> QED
      BY <2>3, <2>4, QuietStep DEF goods
  <1>4. ASSUME Cover \/ \E s \in {"PRIMARY", "ACTIVE", "REDEMPTION"} : Transition(s)
        PROVE  IndInv'
    <2>1. TypeOK' /\ SupplyIsInLedger'
      BY <1>4 DEF Cover, Transition, TypeOK, SupplyIsInLedger, goods, collateral, tokens
    <2> QED
      BY <1>4, <2>1, QuietStep DEF Cover, Transition, goods
  <1>5. ASSUME NEW k \in Keys, RefuseMint(k) \/ \E q \in Amounts : Mint(k, q)
        PROVE  IndInv'
    <2>1. TypeOK' /\ SupplyIsInLedger'
      BY <1>5, RedemptionAssumption
         DEF RefuseMint, Mint, TypeOK, SupplyIsInLedger, goods, collateral, tokens
    <2> QED
      BY <1>5, <2>1, QuietStep DEF RefuseMint, Mint, goods
  <1> QED
    BY <1>1, <1>2, <1>4, <1>5

\* Placement and orders.
LEMMA HolderInv ==
    ASSUME IndInv, NEW h \in Holders, NEW q \in Amounts,
           Allocate(h, q) \/ PlaceOrder(h, q) \/ EndOrder(h, q)
    PROVE  IndInv'
  <1>1. available' \in [Holders -> Nat] /\ reserved' \in [Holders -> Nat]
    BY FreezeTypes, RedemptionAssumption DEF IndInv, TypeOK, Allocate, PlaceOrder, EndOrder
  <1>2. orders' \in [Holders -> Nat]
    BY RedemptionAssumption DEF IndInv, TypeOK, Allocate, PlaceOrder, EndOrder
  <1>3. UNCHANGED <<goods, collateral, issue, redemption, call>>
    BY DEF Allocate, PlaceOrder, EndOrder
  <1>4. TypeOK' /\ SupplyIsInLedger'
    BY <1>1, <1>2, <1>3 DEF IndInv, TypeOK, SupplyIsInLedger, goods, collateral, issue
  <1> QED
    BY <1>3, <1>4, QuietStep DEF goods

LEMMA LockReceiptInv ==
    ASSUME IndInv, NEW a \in Receipts, LockReceipt(a)
    PROVE  IndInv'
  <1> USE DEF IndInv
  <1>1. TypeOK' /\ SupplyIsInLedger'
    BY EventTypes DEF LockReceipt, Send, TypeOK, SupplyIsInLedger, collateral, issue, tokens
  <1>2. /\ \A b \in Receipts : receipt'[b].redemption = receipt[b].redemption
        /\ \A b \in Receipts : receipt'[b].status = "RELEASED" <=> receipt[b].status = "RELEASED"
        /\ UNCHANGED <<redemption, call>>
    BY DEF LockReceipt, TypeOK
  <1> QED
    BY <1>1, <1>2
       DEF DeliveriesNameReceipts, CallsAreSound, PreparedWith, StoredGoodsAreFree,
           GoodsLeaveForFrozenTokens, With, Asked

LEMMA CreateInv ==
    ASSUME IndInv, NEW d \in Redemptions, NEW h \in Holders, NEW q \in Amounts, Create(d, h, q)
    PROVE  IndInv'
  <1> USE DEF IndInv
  <1> DEFINE row == [holder |-> h, quantity |-> q, status |-> "TOKENS_LOCKED", receipt |-> None]
  <1>1. /\ redemption[d] = None
        /\ redemption' = [redemption EXCEPT ![d] = row]
        /\ UNCHANGED <<goods, collateral, issue, orders, call>>
    BY DEF Create
  <1>2. row \in Rows /\ row.status = "TOKENS_LOCKED"
    BY DEF Rows, Statuses, Live
  <1> HIDE DEF row
  <1>3. TypeOK' /\ SupplyIsInLedger'
    <2>1. available' \in [Holders -> Nat] /\ reserved' \in [Holders -> Nat]
      BY FreezeTypes DEF Create
    <2> QED
      BY <1>1, <1>2, <2>1 DEF TypeOK, SupplyIsInLedger, goods, collateral, issue
  <1>4. \A c, a : PreparedWith(c, a) => PreparedWith(c, a)'
    BY <1>1 DEF PreparedWith, With, Asked, TypeOK
  <1>5. DeliveriesNameReceipts'
    BY <1>1, <1>2 DEF DeliveriesNameReceipts, With, Asked, TypeOK
  <1>6. CallsAreSound'
    BY <1>1, <1>4 DEF CallsAreSound
  <1>7. GoodsLeaveForFrozenTokens'
    BY <1>1, <1>4 DEF GoodsLeaveForFrozenTokens, PreparedWith, Prepared, goods
  <1> QED
    BY <1>1, <1>3, <1>5, <1>6, <1>7 DEF StoredGoodsAreFree, goods

\* Cancelling and running out of time.
LEMMA EndInv ==
    ASSUME IndInv, NEW d \in Redemptions, Cancel(d) \/ Expire(d)
    PROVE  IndInv'
  <1> USE DEF IndInv
  <1>1. d \in Asked /\ redemption[d] \in Rows
    BY DEF Cancel, Expire, With, Asked, TypeOK
  <1>2. redemption[d].holder \in Holders /\ redemption[d].quantity \in Amounts
    BY <1>1 DEF Rows
  <1>3. available' \in [Holders -> Nat] /\ reserved' \in [Holders -> Nat]
    BY <1>2, FreezeTypes DEF Cancel, Expire, TypeOK, tokens
  <1>4. \E s \in {"CANCELLED", "EXCEPTION"} :
           Become(d, s) /\ (redemption[d].status \in Prepared => s \in Prepared)
    BY DEF Cancel, Expire, With, Prepared
  <1>5. redemption' \in [Redemptions -> {None} \cup Rows]
    BY <1>1, <1>4, SMTT(40) DEF Become, TypeOK, Rows, Statuses, Live
  <1>6. UNCHANGED <<goods, collateral, issue, orders, call>>
    BY DEF Cancel, Expire, tokens
  <1>7. TypeOK' /\ SupplyIsInLedger'
    BY <1>3, <1>5, <1>6 DEF TypeOK, SupplyIsInLedger, goods, collateral, issue
  <1> QED
    BY <1>1, <1>4, <1>6, <1>7, StatusStep DEF goods, Statuses, Live

\* A redemption is completed or set aside.
LEMMA EvidenceInv ==
    ASSUME IndInv, NEW e \in Events, Complete(e) \/ Quarantine(e)
    PROVE  IndInv'
  <1> USE DEF IndInv
  <1> DEFINE d == e.redemption
             q == redemption[d].quantity
             h == redemption[d].holder
  <1>1. d \in Asked /\ d \in Redemptions /\ redemption[d] \in Rows
    BY DEF Complete, Quarantine, Evidence, With, Asked, TypeOK
  <1>2. h \in Holders /\ q \in Nat
    BY <1>1, RedemptionAssumption DEF Rows
  <1>3. \E s \in {"COMPLETED", "QUARANTINED"} : Become(d, s)
    BY DEF Complete, Quarantine
  <1>4. redemption' \in [Redemptions -> {None} \cup Rows]
    BY <1>1, <1>3 DEF Become, TypeOK, Rows, Statuses, Live
  <1>5. UNCHANGED <<goods, orders, status, minted, available, call>>
    BY DEF Complete, Quarantine, Burn, tokens, issue
  <1>6. TypeOK' /\ SupplyIsInLedger'
    <2>1. CASE Complete(e)
      <3>1. reserved' \in [Holders -> Nat] /\ supply' \in Nat /\ distribution' = supply'
        BY <1>2, <2>1 DEF Complete, Burn, TypeOK, SupplyIsInLedger
      <3>2. position' \in [Receipts -> Nat]
        BY <2>1, MovementTypes DEF Complete, MayRelease
      <3>3. moved' \subseteq Events
        BY <2>1 DEF Complete, Record, TypeOK
      <3> QED
        BY <1>4, <1>5, <3>1, <3>2, <3>3 DEF TypeOK, SupplyIsInLedger, goods
    <2>2. CASE Quarantine(e)
      BY <1>4, <2>2 DEF Quarantine, TypeOK, SupplyIsInLedger, goods, collateral, issue, tokens
    <2> QED
      BY <2>1, <2>2
  <1> HIDE DEF d
  <1> QED
    BY <1>1, <1>3, <1>5, <1>6, StatusStep DEF goods, Statuses, Live, Prepared

LEMMA PrepareInv ==
    ASSUME IndInv, NEW w \in Workers, NEW d \in Redemptions, Prepare(w, d)
    PROVE  IndInv'
  <1> USE DEF IndInv
  <1>1. PICK a \in Exact(d) :
           /\ redemption' = [redemption EXCEPT ![d].status = "IN_DELIVERY", ![d].receipt = a]
           /\ call' = [call EXCEPT ![w] = [receipt |-> a, redemption |-> d]]
    BY DEF Prepare
  <1>2. /\ a \in Receipts /\ redemption[d] \in Rows /\ redemption[d] # None
        /\ redemption[d].status = "TOKENS_LOCKED"
        /\ UNCHANGED <<goods, collateral, issue, tokens>>
    BY DEF Prepare, Exact, With, Asked, TypeOK
  <1>3. redemption' \in [Redemptions -> {None} \cup Rows]
    BY <1>1, <1>2 DEF TypeOK, Rows, Statuses, Live
  <1>4. call' \in [Workers -> {None} \cup Calls]
    BY <1>1, <1>2 DEF TypeOK, Calls
  <1>5. TypeOK' /\ SupplyIsInLedger'
    BY <1>2, <1>3, <1>4 DEF TypeOK, SupplyIsInLedger, goods, collateral, issue, tokens
  <1>6. \A c \in Redemptions : c # d => redemption'[c] = redemption[c]
    BY <1>1 DEF TypeOK
  <1>7. redemption'[d].receipt = a /\ redemption'[d].status = "IN_DELIVERY" /\ redemption'[d] # None
    <2>1. redemption'[d] = [redemption[d] EXCEPT !.status = "IN_DELIVERY", !.receipt = a]
      BY <1>1 DEF TypeOK
    <2>2. /\ redemption'[d] \in Rows
          /\ redemption'[d].receipt = a /\ redemption'[d].status = "IN_DELIVERY"
      BY <1>2, <2>1 DEF Rows, Statuses, Live
    <2> QED
      BY <2>2, RedemptionAssumption
  <1>8. \A c, b : PreparedWith(c, b) => PreparedWith(c, b)'
    BY <1>2, <1>6 DEF PreparedWith, Prepared, With, Asked
  <1>9. PreparedWith(d, a)'
    BY <1>7 DEF PreparedWith, Prepared, With, Asked
  <1>10. DeliveriesNameReceipts'
    BY <1>2, <1>6, <1>7 DEF DeliveriesNameReceipts, With, Asked
  <1>11. CallsAreSound'
    BY <1>1, <1>8, <1>9 DEF CallsAreSound, TypeOK
  <1>12. GoodsLeaveForFrozenTokens'
    BY <1>2, <1>8 DEF GoodsLeaveForFrozenTokens, PreparedWith, Prepared, goods
  <1> QED
    BY <1>2, <1>5, <1>10, <1>11, <1>12 DEF StoredGoodsAreFree, goods

LEMMA CallInv ==
    ASSUME IndInv, NEW w \in Workers,
           EndCall(w) \/ \E d \in Redemptions : PrepareAgain(w, d)
    PROVE  IndInv'
  <1> USE DEF IndInv
  <1>1. UNCHANGED <<goods, collateral, issue, tokens, redemption>>
    BY DEF EndCall, PrepareAgain
  <1>2. \E c \in Calls \cup {None} :
           /\ c # None => PreparedWith(c.redemption, c.receipt)
           /\ call' = [call EXCEPT ![w] = c]
    <2>1. CASE EndCall(w)
      BY <2>1 DEF EndCall
    <2>2. ASSUME NEW d \in Redemptions, PrepareAgain(w, d)
          PROVE  LET c == [receipt |-> redemption[d].receipt, redemption |-> d] IN
                 /\ c \in Calls
                 /\ PreparedWith(c.redemption, c.receipt)
                 /\ call' = [call EXCEPT ![w] = c]
      BY <2>2 DEF PrepareAgain, PreparedWith, Prepared, With, DeliveriesNameReceipts, Calls
    <2> QED
      BY <2>1, <2>2
  <1>3. TypeOK' /\ SupplyIsInLedger'
    BY <1>1, <1>2 DEF TypeOK, SupplyIsInLedger, goods, collateral, issue, tokens
  <1>4. \A d, a : PreparedWith(d, a)' <=> PreparedWith(d, a)
    BY <1>1 DEF PreparedWith, With, Asked
  <1>5. CallsAreSound'
    BY <1>2, <1>4 DEF CallsAreSound, TypeOK
  <1> QED
    BY <1>1, <1>3, <1>5
       DEF DeliveriesNameReceipts, StoredGoodsAreFree, GoodsLeaveForFrozenTokens, With, Asked, goods

LEMMA ReleaseReceiptInv ==
    ASSUME IndInv, NEW w \in Workers, ReleaseReceipt(w)
    PROVE  IndInv'
  <1> USE DEF IndInv
  <1> DEFINE a == call[w].receipt
             d == call[w].redemption
  <1>1. /\ call[w] \in Calls /\ a \in Receipts /\ d \in Redemptions
        /\ PreparedWith(d, a)
    BY DEF ReleaseReceipt, TypeOK, Calls, CallsAreSound
  <1>2. /\ receipt' = [receipt EXCEPT ![a] = [status |-> "RELEASED", redemption |-> d]]
        /\ Send(ReleasedEvent(a, d))
        /\ call' = [call EXCEPT ![w] = None]
        /\ UNCHANGED <<collateral, issue, tokens, redemption>>
    BY DEF ReleaseReceipt
  <1> HIDE DEF a, d
  <1>3. TypeOK' /\ SupplyIsInLedger'
    BY <1>1, <1>2, EventTypes DEF TypeOK, SupplyIsInLedger, Send, collateral, issue, tokens
  <1>4. \A c, b : PreparedWith(c, b)' <=> PreparedWith(c, b)
    BY <1>2 DEF PreparedWith, With, Asked
  <1>5. CallsAreSound'
    BY <1>2, <1>4 DEF CallsAreSound, TypeOK
  <1>6. \A b \in Receipts :
           receipt'[b] = IF b = a THEN [status |-> "RELEASED", redemption |-> d] ELSE receipt[b]
    BY <1>1, <1>2 DEF TypeOK
  <1>7. StoredGoodsAreFree'
    BY <1>6 DEF StoredGoodsAreFree
  <1>8. \A b \in Receipts :
           receipt'[b].status = "RELEASED" => PreparedWith(receipt'[b].redemption, b)
    BY <1>1, <1>6 DEF GoodsLeaveForFrozenTokens, PreparedWith, Prepared
  <1>9. GoodsLeaveForFrozenTokens'
    BY <1>4, <1>8 DEF GoodsLeaveForFrozenTokens, PreparedWith, Prepared
  <1> QED
    BY <1>2, <1>3, <1>5, <1>7, <1>9 DEF DeliveriesNameReceipts, With, Asked

------------------------------------------------------------------------------
\* The inductive invariant holds in every behaviour.
THEOREM RedemptionInvariant == Spec => []IndInv
  <1>1. IndInv /\ [Next]_vars => IndInv'
    <2> SUFFICES ASSUME IndInv, [Next]_vars PROVE IndInv'
      OBVIOUS
    <2>1. CASE UNCHANGED vars
      <3>1. TypeOK' /\ SupplyIsInLedger'
        BY <2>1 DEF IndInv, TypeOK, SupplyIsInLedger, vars, goods, collateral, issue, tokens
      <3> QED
        BY <2>1, <3>1, QuietStep DEF vars, goods
    <2>2. CASE Next
      BY <2>2, LockReceiptInv, MarketInv, HolderInv, CreateInv, EndInv, EvidenceInv, PrepareInv,
         CallInv, ReleaseReceiptInv
         DEF Next, Relay
    <2> QED
      BY <2>1, <2>2
  <1> QED
    BY <1>1, InitInv, PTL DEF Spec

\* The types of redemption; no balance, position or supply is negative.
THEOREM RedemptionTypeOK == Spec => []TypeOK
  BY RedemptionInvariant, PTL DEF IndInv

\* The supply of the instrument is always what the ledger has.
THEOREM RedemptionSupplyIsInLedger == Spec => []SupplyIsInLedger
  BY RedemptionInvariant, PTL DEF IndInv

\* Goods leave the elevator only for a redemption that is past cancelling and
\* names their receipt, for any number of delivery calls of any age.
THEOREM RedemptionGoodsLeaveForFrozenTokens == Spec => []GoodsLeaveForFrozenTokens
  BY RedemptionInvariant, PTL DEF IndInv

------------------------------------------------------------------------------
\* Refinement: one lemma for the steps that GoodsForTokens sees.

\* A change of one redemption's status is a change of its tokens only.
LEMMA TokensStep ==
    ASSUME IndInv, NEW d \in Redemptions, NEW row \in Rows,
           redemption' = [redemption EXCEPT ![d] = row]
    PROVE  /\ tokensOf(d)' = CASE row.status = "CANCELLED" -> "returned"
                               [] row.status = "COMPLETED" -> "burned"
                               [] OTHER -> "frozen"
           /\ \A c \in Redemptions : c # d => tokensOf(c)' = tokensOf(c)
  <1>1. row # None
    BY RedemptionAssumption
  <1>2. redemption'[d] = row /\ \A c \in Redemptions : c # d => redemption'[c] = redemption[c]
    BY DEF IndInv, TypeOK
  <1> QED
    BY <1>1, <1>2 DEF tokensOf, With, Asked

\* Steps that change no redemption and no receipt stutter.
LEMMA StutterStep ==
    ASSUME UNCHANGED <<redemption, receipt>>
    PROVE  UNCHANGED Promise!vars
  BY DEF Promise!vars, tokensOf, With, Asked

\* A change of status, seen as Move of GoodsForTokens.
LEMMA MoveStep ==
    ASSUME IndInv, NEW d \in Redemptions, NEW s, redemption' = [redemption EXCEPT ![d] = s],
           s \in Rows, UNCHANGED receipt
    PROVE  /\ tokensOf(d) = "none" /\ s.status \in Live => Promise!Freeze(d)
           /\ tokensOf(d) = "frozen" /\ s.status = "COMPLETED" => Promise!Burn(d)
           /\ tokensOf(d) = "frozen" /\ s.status = "CANCELLED" =>
                 Promise!Move(d, "frozen", "returned")
           /\ tokensOf(d) = "frozen" /\ s.status \in Live => UNCHANGED Promise!vars
  <1> DEFINE T == [c \in Redemptions |-> tokensOf(c)]
  <1>1. T' = [T EXCEPT ![d] = tokensOf(d)']
    BY TokensStep
  <1>2. T[d] = tokensOf(d)
    OBVIOUS
  <1>3. T' = T <=> tokensOf(d)' = tokensOf(d)
    BY <1>1
  <1>4. tokensOf(d)' = CASE s.status = "CANCELLED" -> "returned"
                          [] s.status = "COMPLETED" -> "burned"
                          [] OTHER -> "frozen"
    BY TokensStep
  <1> HIDE DEF T
  <1> QED
    BY <1>1, <1>2, <1>3, <1>4
       DEF T, Promise!Freeze, Promise!Burn, Promise!Move, Promise!vars, Live

\* A redemption that is frozen becomes one row or another.
LEMMA RowStep ==
    ASSUME IndInv, NEW d \in Redemptions, redemption[d] # None,
           redemption[d].status \in Live, NEW s \in Statuses, Become(d, s)
    PROVE  /\ tokensOf(d) = "frozen"
           /\ \E row \in Rows :
                 row.status = s /\ redemption' = [redemption EXCEPT ![d] = row]
  <1>1. redemption[d] \in Rows
    BY DEF IndInv, TypeOK
  <1>2. tokensOf(d) = "frozen"
    BY DEF tokensOf, With, Asked, Live
  <1>3. [redemption[d] EXCEPT !.status = s] \in Rows
    BY <1>1 DEF Rows
  <1>4. [redemption[d] EXCEPT !.status = s].status = s
    BY <1>1 DEF Rows
  <1>5. redemption' = [redemption EXCEPT ![d] = [redemption[d] EXCEPT !.status = s]]
    BY DEF Become
  <1> QED
    BY <1>2, <1>3, <1>4, <1>5

\* Goods that leave.
LEMMA ShipStep ==
    ASSUME IndInv, NEW w \in Workers, ReleaseReceipt(w)
    PROVE  \E a \in Receipts, d \in Redemptions : Promise!Ship(a, d)
  <1> USE DEF IndInv
  <1> DEFINE a == call[w].receipt
             d == call[w].redemption
             G == [b \in Receipts |-> receipt[b].redemption]
  <1>1. /\ call[w] \in Calls /\ a \in Receipts /\ d \in Redemptions
        /\ PreparedWith(d, a)
    BY DEF ReleaseReceipt, TypeOK, Calls, CallsAreSound
  <1>2. /\ receipt[a].status = "LOCKED"
        /\ receipt' = [receipt EXCEPT ![a] = [status |-> "RELEASED", redemption |-> d]]
        /\ UNCHANGED redemption
    BY DEF ReleaseReceipt
  <1> HIDE DEF a, d
  <1>3. G' = [G EXCEPT ![a] = d]
    BY <1>1, <1>2 DEF TypeOK
  <1>4. receipt[a].redemption = None
    BY <1>1, <1>2 DEF StoredGoodsAreFree
  <1>5. ASSUME NEW b \in Receipts PROVE receipt[b].redemption # d
    <2>1. CASE receipt[b].status # "RELEASED"
      BY <1>1, <2>1, RedemptionAssumption DEF StoredGoodsAreFree
    <2>2. CASE receipt[b].status = "RELEASED"
      BY <1>1, <1>2, <2>2 DEF GoodsLeaveForFrozenTokens, PreparedWith
    <2> QED
      BY <2>1, <2>2
  <1>6. tokensOf(d) \in {"frozen", "burned"}
    BY <1>1 DEF PreparedWith, tokensOf, With, Prepared
  <1>7. UNCHANGED [c \in Redemptions |-> tokensOf(c)]
    BY <1>2 DEF tokensOf, With, Asked
  <1> QED
    BY <1>1, <1>3, <1>4, <1>5, <1>6, <1>7 DEF Promise!Ship

LEMMA StepRefines == IndInv /\ [Next]_vars => [Promise!Next]_(Promise!vars)
  <1> SUFFICES ASSUME IndInv, [Next]_vars PROVE [Promise!Next]_(Promise!vars)
    OBVIOUS
  <1>1. ASSUME NEW w \in Workers, ReleaseReceipt(w) PROVE Promise!Next
    BY <1>1, ShipStep DEF Promise!Next
  <1>2. ASSUME NEW a \in Receipts, LockReceipt(a) PROVE UNCHANGED Promise!vars
    <2>1. UNCHANGED [b \in Receipts |-> receipt[b].redemption]
      BY <1>2 DEF LockReceipt, IndInv, TypeOK
    <2>2. UNCHANGED [c \in Redemptions |-> tokensOf(c)]
      BY <1>2 DEF LockReceipt, tokensOf, With, Asked
    <2> QED
      BY <2>1, <2>2 DEF Promise!vars
  <1>3. ASSUME NEW d \in Redemptions, NEW h \in Holders, NEW q \in Amounts, Create(d, h, q)
        PROVE  Promise!Next
    <2> DEFINE row == [holder |-> h, quantity |-> q, status |-> "TOKENS_LOCKED", receipt |-> None]
    <2>1. row \in Rows /\ row.status \in Live
      BY DEF Rows, Statuses, Live
    <2>2. tokensOf(d) = "none" /\ redemption' = [redemption EXCEPT ![d] = row] /\ UNCHANGED receipt
      BY <1>3 DEF Create, tokensOf, With, Asked, goods
    <2> HIDE DEF row
    <2> QED
      BY <2>1, <2>2, MoveStep DEF Promise!Next
  <1>4. ASSUME NEW d \in Redemptions, Cancel(d) PROVE Promise!Next
    <2>1. /\ redemption[d] # None /\ redemption[d].status = "TOKENS_LOCKED"
          /\ Become(d, "CANCELLED") /\ UNCHANGED receipt
      BY <1>4 DEF Cancel, With, Asked, goods
    <2>2. Promise!Move(d, "frozen", "returned")
      BY <2>1, RowStep, MoveStep DEF Live, Statuses
    <2>3. ASSUME NEW a \in Receipts PROVE receipt[a].redemption # d
      BY <2>1, RedemptionAssumption
         DEF IndInv, StoredGoodsAreFree, GoodsLeaveForFrozenTokens, With
    <2> QED
      BY <2>2, <2>3 DEF Promise!Next, Promise!Return
  <1>5. ASSUME NEW e \in Events, Complete(e) PROVE Promise!Next
    <2>1. /\ e.redemption \in Redemptions /\ redemption[e.redemption] # None
          /\ redemption[e.redemption].status = "IN_DELIVERY"
          /\ Become(e.redemption, "COMPLETED") /\ UNCHANGED receipt
      BY <1>5 DEF Complete, Evidence, With, Asked, goods
    <2>2. Promise!Burn(e.redemption)
      BY <2>1, RowStep, MoveStep DEF Live, Statuses
    <2> QED
      BY <2>1, <2>2 DEF Promise!Next
  <1>6. ASSUME NEW d \in Redemptions, NEW s \in {"EXCEPTION", "QUARANTINED"}, Become(d, s),
               redemption[d] # None, redemption[d].status \in Live, UNCHANGED receipt
        PROVE  UNCHANGED Promise!vars
    BY <1>6, RowStep, MoveStep DEF Live, Statuses
  <1>7. ASSUME NEW d \in Redemptions, Expire(d) PROVE UNCHANGED Promise!vars
    BY <1>6, <1>7 DEF Expire, With, Asked, goods, Live
  <1>8. ASSUME NEW e \in Events, Quarantine(e) PROVE UNCHANGED Promise!vars
    BY <1>6, <1>8 DEF Quarantine, Evidence, With, Asked, goods, Live
  <1>9. ASSUME NEW w \in Workers, NEW d \in Redemptions, Prepare(w, d)
        PROVE  UNCHANGED Promise!vars
    <2>1. PICK a \in Receipts :
             redemption' = [redemption EXCEPT ![d] =
                               [redemption[d] EXCEPT !.status = "IN_DELIVERY", !.receipt = a]]
      BY <1>9 DEF Prepare, Exact
    <2>2. redemption[d] \in Rows /\ redemption[d] # None /\ redemption[d].status = "TOKENS_LOCKED"
      BY <1>9 DEF Prepare, With, Asked, IndInv, TypeOK
    <2>3. [redemption[d] EXCEPT !.status = "IN_DELIVERY", !.receipt = a] \in Rows
      BY <2>2 DEF Rows, Statuses, Live
    <2>4. [redemption[d] EXCEPT !.status = "IN_DELIVERY", !.receipt = a].status \in Live
      BY <2>2 DEF Rows, Live
    <2>5. tokensOf(d) = "frozen"
      BY <2>2 DEF tokensOf, With, Asked
    <2> QED
      BY <1>9, <2>1, <2>3, <2>4, <2>5, MoveStep DEF Prepare, goods
  <1>10. CASE UNCHANGED <<redemption, receipt>>
    BY <1>10, StutterStep
  <1>11. \/ \E w \in Workers : ReleaseReceipt(w)
         \/ \E a \in Receipts : LockReceipt(a)
         \/ \E d \in Redemptions, h \in Holders, q \in Amounts : Create(d, h, q)
         \/ \E d \in Redemptions : Cancel(d) \/ Expire(d)
         \/ \E e \in Events : Complete(e) \/ Quarantine(e)
         \/ \E w \in Workers, d \in Redemptions : Prepare(w, d)
         \/ UNCHANGED <<redemption, receipt>>
    BY DEF Next, Relay, Report, Judge, ApplyLocked, ApplyWithdrawal, Cover, Transition, Mint,
           RefuseMint, Allocate, PlaceOrder, EndOrder, PrepareAgain, EndCall, vars, goods
  <1> QED
    BY <1>1, <1>2, <1>3, <1>4, <1>5, <1>7, <1>8, <1>9, <1>10, <1>11

\* Redemption implements its promise to holders and elevators: no tokens are
\* returned for goods that left or may leave, and goods leave once.
THEOREM RedemptionImplementsGoodsForTokens == Spec => ImplementsGoodsForTokens
  <1>1. Init => Promise!Init
    BY DEF Init, Promise!Init, tokensOf, With, Asked
  <1> QED
    BY <1>1, StepRefines, RedemptionInvariant, PTL
       DEF Spec, ImplementsGoodsForTokens, Promise!Spec
------------------------------------------------------------------------------
\* The way of one redemption.  A step changes no more than one, and it keeps
\* whose tokens it has and how many.

\* What Become writes.
LEMMA BecomeRow ==
    ASSUME IndInv, NEW d \in Asked, NEW s \in Statuses, Become(d, s)
    PROVE  /\ redemption[d] \in Rows /\ redemption'[d] \in Rows
           /\ redemption'[d].holder = redemption[d].holder
           /\ redemption'[d].quantity = redemption[d].quantity
           /\ redemption'[d].receipt = redemption[d].receipt
           /\ redemption'[d].status = s
           /\ \A c \in Redemptions : c # d => redemption'[c] = redemption[c]
  <1>1. d \in Redemptions /\ redemption[d] \in Rows
    BY DEF IndInv, TypeOK, Asked
  <1>2. /\ redemption'[d] = [redemption[d] EXCEPT !.status = s]
        /\ \A c \in Redemptions : c # d => redemption'[c] = redemption[c]
    BY <1>1 DEF Become, IndInv, TypeOK
  <1> QED
    BY <1>1, <1>2 DEF Rows

\* What Prepare writes.
LEMMA PrepareRow ==
    ASSUME IndInv, NEW w \in Workers, NEW d \in Redemptions, Prepare(w, d)
    PROVE  /\ redemption[d] \in Rows /\ redemption'[d] \in Rows
           /\ redemption[d].status = "TOKENS_LOCKED"
           /\ redemption'[d].holder = redemption[d].holder
           /\ redemption'[d].quantity = redemption[d].quantity
           /\ redemption'[d].receipt \in Exact(d)
           /\ redemption'[d].status = "IN_DELIVERY"
           /\ \A c \in Redemptions : c # d => redemption'[c] = redemption[c]
  <1>1. PICK a \in Exact(d) :
           redemption' = [redemption EXCEPT ![d].status = "IN_DELIVERY", ![d].receipt = a]
    BY DEF Prepare
  <1>2. redemption[d] \in Rows /\ redemption[d].status = "TOKENS_LOCKED" /\ a \in Receipts
    BY DEF Prepare, With, Asked, IndInv, TypeOK, Exact
  <1>3. /\ redemption'[d] = [redemption[d] EXCEPT !.status = "IN_DELIVERY", !.receipt = a]
        /\ \A c \in Redemptions : c # d => redemption'[c] = redemption[c]
    BY <1>1 DEF IndInv, TypeOK
  <1>4. /\ redemption'[d] \in Rows
        /\ redemption'[d].holder = redemption[d].holder
        /\ redemption'[d].quantity = redemption[d].quantity
        /\ redemption'[d].receipt = a
        /\ redemption'[d].status = "IN_DELIVERY"
    BY <1>2, <1>3 DEF Rows, Statuses, Live
  <1> QED
    BY <1>2, <1>3, <1>4

\* What Create writes.
LEMMA CreateRow ==
    ASSUME IndInv, NEW d \in Redemptions, NEW h \in Holders, NEW q \in Amounts, Create(d, h, q)
    PROVE  /\ redemption[d] = None /\ redemption'[d] \in Rows
           /\ redemption'[d].holder = h
           /\ redemption'[d].quantity = q
           /\ redemption'[d].status = "TOKENS_LOCKED"
           /\ redemption'[d].receipt = None
           /\ \A c \in Redemptions : c # d => redemption'[c] = redemption[c]
  BY DEF Create, IndInv, TypeOK, Rows, Statuses, Live

\* Tokens leave the frozen ones only from these.
Open == {"TOKENS_LOCKED", "IN_DELIVERY"}

\* The step that a redemption takes, if any.
LEMMA RowStepKinds ==
    ASSUME IndInv, [Next]_vars
    PROVE  \/ UNCHANGED redemption
           \/ \E d \in Redemptions :
                 /\ \A c \in Redemptions : c # d => redemption'[c] = redemption[c]
                 /\ redemption'[d] \in Rows
                 /\ \/ /\ redemption[d] = None
                       /\ redemption'[d].status = "TOKENS_LOCKED" /\ redemption'[d].receipt = None
                    \/ /\ redemption[d] \in Rows /\ redemption[d].status \in Open
                       /\ redemption'[d].holder = redemption[d].holder
                       /\ redemption'[d].quantity = redemption[d].quantity
                       /\ redemption'[d].receipt \in {redemption[d].receipt} \cup Exact(d)
                       /\ redemption'[d].status # "TOKENS_LOCKED"
  <1>1. ASSUME NEW d \in Redemptions, NEW s \in Statuses \ {"TOKENS_LOCKED"},
               d \in With(Open), Become(d, s)
        PROVE  /\ \A c \in Redemptions : c # d => redemption'[c] = redemption[c]
               /\ redemption[d] \in Rows /\ redemption'[d] \in Rows
               /\ redemption[d].status \in Open
               /\ redemption'[d].holder = redemption[d].holder
               /\ redemption'[d].quantity = redemption[d].quantity
               /\ redemption'[d].receipt \in {redemption[d].receipt} \cup Exact(d)
               /\ redemption'[d].status # "TOKENS_LOCKED"
    BY <1>1, BecomeRow DEF With, Asked
  <1>2. ASSUME NEW d \in Redemptions, Cancel(d) \/ Expire(d)
        PROVE  \E s \in Statuses \ {"TOKENS_LOCKED"} : d \in With(Open) /\ Become(d, s)
    BY <1>2 DEF Cancel, Expire, With, Open, Statuses, Live
  <1>3. ASSUME NEW e \in Events, Complete(e) \/ Quarantine(e)
        PROVE  \E d \in Redemptions, s \in Statuses \ {"TOKENS_LOCKED"} :
                  d \in With(Open) /\ Become(d, s)
    <2>1. e.redemption \in With({"IN_DELIVERY"})
      BY <1>3 DEF Complete, Quarantine, Evidence
    <2>2. e.redemption \in Redemptions /\ e.redemption \in With(Open)
      BY <2>1 DEF With, Asked, Open
    <2>3. Become(e.redemption, "COMPLETED") \/ Become(e.redemption, "QUARANTINED")
      BY <1>3 DEF Complete, Quarantine
    <2> QED
      BY <2>2, <2>3 DEF Statuses, Live
  <1>4. ASSUME NEW w \in Workers, NEW d \in Redemptions, Prepare(w, d)
        PROVE  /\ \A c \in Redemptions : c # d => redemption'[c] = redemption[c]
               /\ redemption[d] \in Rows /\ redemption'[d] \in Rows
               /\ redemption[d].status \in Open
               /\ redemption'[d].holder = redemption[d].holder
               /\ redemption'[d].quantity = redemption[d].quantity
               /\ redemption'[d].receipt \in {redemption[d].receipt} \cup Exact(d)
               /\ redemption'[d].status # "TOKENS_LOCKED"
    BY <1>4, PrepareRow DEF Open
  <1>5. \/ \E d \in Redemptions : Cancel(d) \/ Expire(d)
        \/ \E e \in Events : Complete(e) \/ Quarantine(e)
        \/ \E w \in Workers, d \in Redemptions : Prepare(w, d)
        \/ \E d \in Redemptions, h \in Holders, q \in Amounts : Create(d, h, q)
        \/ UNCHANGED redemption
    BY DEF Next, Relay, LockReceipt, Report, Judge, ApplyLocked, ApplyWithdrawal, Cover,
           Transition, Mint, RefuseMint, Allocate, PlaceOrder, EndOrder, PrepareAgain, EndCall,
           ReleaseReceipt, vars
  <1>6. ASSUME NEW d \in Redemptions, NEW h \in Holders, NEW q \in Amounts, Create(d, h, q)
        PROVE  /\ \A c \in Redemptions : c # d => redemption'[c] = redemption[c]
               /\ redemption'[d] \in Rows /\ redemption[d] = None
               /\ redemption'[d].status = "TOKENS_LOCKED" /\ redemption'[d].receipt = None
    BY <1>6, CreateRow
  <1> QED
    BY <1>1, <1>2, <1>3, <1>4, <1>5, <1>6

\* What has ended stays as it ended.
LEMMA EndedStays ==
    ASSUME IndInv, [Next]_vars, NEW d \in Redemptions, redemption[d] # None,
           redemption[d].status \notin Open
    PROVE  redemption'[d] = redemption[d]
  BY RowStepKinds

------------------------------------------------------------------------------
\* The evidence.  Only applied events move collateral, the registry alone says
\* that a receipt is locked, what it sends follows its receipts, and a release
\* that was booked for a redemption completed it.
Sent(e) == answer[e] # "NONE"

Trail ==
    /\ IsFiniteSet(moved)
    /\ \A e \in moved : Applied(e)
    /\ \A e \in Events : Sent(e) /\ e.type = "RECEIPT_LOCKED" =>
          e = LockedEvent(e.receipt) /\ receipt[e.receipt].status # "AVAILABLE"
    /\ \A e \in Events : Sent(e) /\ e.type = "GOODS_RELEASED" /\ e.source = "EZR" =>
          receipt[e.receipt].status = "RELEASED"
    /\ \A e \in moved : e.type = "GOODS_RELEASED" /\ e.redemption # None =>
          e.redemption \in With({"COMPLETED"})

\* A step that sends at most one event, which the receipts allow, and books
\* nothing.
LEMMA SendStep ==
    ASSUME IndInv, IndInv', Trail, [Next]_vars, UNCHANGED moved, NEW e \in Events,
           \A x \in Events : x # e => answer'[x] = answer[x],
           e \notin moved,
           \A a \in Receipts :
              /\ receipt[a].status # "AVAILABLE" => receipt'[a].status # "AVAILABLE"
              /\ receipt[a].status = "RELEASED" => receipt'[a].status = "RELEASED",
           Sent(e)' =>
              /\ e.type = "RECEIPT_LOCKED" =>
                    e = LockedEvent(e.receipt) /\ receipt'[e.receipt].status # "AVAILABLE"
              /\ e.type = "GOODS_RELEASED" /\ e.source = "EZR" =>
                    receipt'[e.receipt].status = "RELEASED"
    PROVE  Trail'
  <1>1. \A d \in With({"COMPLETED"}) : d \in With({"COMPLETED"})'
    BY EndedStays DEF With, Asked, Open
  <1>2. \A x \in Events : x # e => (Sent(x)' <=> Sent(x)) /\ (Applied(x)' <=> Applied(x))
    BY DEF Sent, Applied
  <1>3. \A x \in Events : x.receipt \in Receipts
    BY DEF Events
  <1>4. moved \subseteq Events
    BY DEF IndInv, TypeOK
  <1>5. IsFiniteSet(moved)' /\ \A x \in moved' : Applied(x)'
    BY <1>2, <1>4 DEF Trail
  <1>6. \A x \in Events : Sent(x)' /\ x.type = "RECEIPT_LOCKED" =>
           x = LockedEvent(x.receipt)' /\ receipt'[x.receipt].status # "AVAILABLE"
    BY <1>2, <1>3 DEF Trail, LockedEvent
  <1>7. \A x \in Events : Sent(x)' /\ x.type = "GOODS_RELEASED" /\ x.source = "EZR" =>
           receipt'[x.receipt].status = "RELEASED"
    BY <1>2, <1>3 DEF Trail
  <1>8. \A x \in moved' : x.type = "GOODS_RELEASED" /\ x.redemption # None =>
           x.redemption \in With({"COMPLETED"})'
    BY <1>1 DEF Trail
  <1> QED
    BY <1>5, <1>6, <1>7, <1>8 DEF Trail

\* Booking an applied event.
LEMMA RecordStep ==
    ASSUME IndInv, IndInv', Trail, [Next]_vars, UNCHANGED <<answer, receipt>>,
           NEW e \in Events, Record(e), Applied(e),
           e.type = "GOODS_RELEASED" /\ e.redemption # None =>
              e.redemption \in With({"COMPLETED"})'
    PROVE  Trail'
  <1>1. \A d \in With({"COMPLETED"}) : d \in With({"COMPLETED"})'
    BY EndedStays DEF With, Asked, Open
  <1>2. IsFiniteSet(moved')
    BY FS_AddElement DEF Record, Trail
  <1> QED
    BY <1>1, <1>2 DEF Record, Trail, Applied, Sent, LockedEvent

LEMMA TrailStep == IndInv /\ IndInv' /\ Trail /\ [Next]_vars => Trail'
  <1> SUFFICES ASSUME IndInv, IndInv', Trail, [Next]_vars PROVE Trail'
    OBVIOUS
  <1>1. CASE UNCHANGED <<answer, receipt, moved>>
    <2>1. \A d \in With({"COMPLETED"}) : d \in With({"COMPLETED"})'
      BY EndedStays DEF With, Asked, Open
    <2> QED
      BY <1>1, <2>1 DEF Trail, Applied, Sent, LockedEvent
  <1>2. ASSUME NEW a \in Receipts, LockReceipt(a) PROVE Trail'
    <2> DEFINE e == LockedEvent(a)
    <2>1. /\ answer' = [answer EXCEPT ![e] = "SENT"]
          /\ receipt' = [receipt EXCEPT ![a].status = "LOCKED"]
          /\ receipt[a].status = "AVAILABLE"
          /\ UNCHANGED moved
      BY <1>2 DEF LockReceipt, Send, collateral
    <2>2. e \in Events /\ e.receipt = a /\ e.type = "RECEIPT_LOCKED"
      BY EventTypes DEF LockedEvent, Event
    <2>3. \A b \in Receipts :
             receipt'[b].status = IF b = a THEN "LOCKED" ELSE receipt[b].status
      BY <2>1 DEF IndInv, TypeOK
    <2>4. e \notin moved
      BY <2>1, <2>2 DEF Trail, Applied, Sent
    <2>5. \A x \in Events : x # e => answer'[x] = answer[x]
      BY <2>1 DEF IndInv, TypeOK
    <2>6. e = LockedEvent(e.receipt)
      BY <2>2
    <2> HIDE DEF e
    <2> QED
      BY <2>1, <2>2, <2>3, <2>4, <2>5, <2>6, SendStep
  <1>3. ASSUME NEW w \in Workers, ReleaseReceipt(w) PROVE Trail'
    <2>1. PICK a \in Receipts, d \in Redemptions : call[w] = [receipt |-> a, redemption |-> d]
      BY <1>3 DEF ReleaseReceipt, IndInv, TypeOK, Calls
    <2> DEFINE e == ReleasedEvent(a, d)
    <2>2. /\ e \in Events /\ e.receipt = a /\ e.type = "GOODS_RELEASED"
          /\ e.source = "EZR"
      BY <2>1, EventTypes DEF ReleasedEvent, Event
    <2>3. /\ answer' = [answer EXCEPT ![e] = "SENT"]
          /\ receipt[a].status = "LOCKED"
          /\ receipt' = [receipt EXCEPT ![a] = [status |-> "RELEASED", redemption |-> d]]
          /\ UNCHANGED moved
      BY <1>3, <2>1 DEF ReleaseReceipt, Send, collateral
    <2> HIDE DEF e
    <2>4. \A b \in Receipts :
             receipt'[b].status = IF b = a THEN "RELEASED" ELSE receipt[b].status
      BY <2>1, <2>3 DEF IndInv, TypeOK
    <2>5. e \notin moved
      BY <2>2, <2>3 DEF Trail, Applied, Sent
    <2>6. \A x \in Events : x # e => answer'[x] = answer[x]
      BY <2>3 DEF IndInv, TypeOK
    <2> QED
      BY <2>2, <2>3, <2>4, <2>5, <2>6, SendStep
  <1>4. ASSUME NEW e \in Events, Report(e) \/ Judge(e) PROVE Trail'
    <2>1. /\ \A x \in Events : x # e => answer'[x] = answer[x]
          /\ UNCHANGED <<moved, receipt>>
      BY <1>4 DEF Report, Judge, Send, collateral, IndInv, TypeOK
    <2>2. e \notin moved
      BY <1>4 DEF Report, Judge, Trail, Applied
    <2>3. CASE Report(e)
      BY <2>1, <2>2, <2>3, SendStep DEF Report
    <2>4. CASE Judge(e)
      <3>1. Sent(e)
        BY <2>4 DEF Judge, Sent
      <3> QED
        BY <2>1, <2>2, <3>1, SendStep DEF Trail
    <2> QED
      BY <1>4, <2>3, <2>4
  <1>5. ASSUME NEW e \in Events, ApplyLocked(e) \/ ApplyWithdrawal(e) PROVE Trail'
    BY <1>5, RecordStep DEF ApplyLocked, ApplyWithdrawal, goods
  <1>6. ASSUME NEW e \in Events, Complete(e) PROVE Trail'
    <2>1. e.redemption \in Asked
      BY <1>6 DEF Complete, Evidence, With
    <2>2. Become(e.redemption, "COMPLETED")
      BY <1>6 DEF Complete
    <2>3. redemption'[e.redemption] \in Rows /\ redemption'[e.redemption].status = "COMPLETED"
      BY <2>1, <2>2, BecomeRow DEF Statuses
    <2>4. e.redemption \in With({"COMPLETED"})'
      BY <2>1, <2>3, RedemptionAssumption DEF With, Asked
    <2> QED
      BY <1>6, <2>4, RecordStep DEF Complete, Evidence, goods
  <1>7. \/ UNCHANGED <<answer, receipt, moved>>
        \/ \E a \in Receipts : LockReceipt(a)
        \/ \E w \in Workers : ReleaseReceipt(w)
        \/ \E e \in Events : \/ Report(e) \/ Judge(e) \/ ApplyLocked(e) \/ ApplyWithdrawal(e)
                             \/ Complete(e)
    BY DEF Next, Relay, Quarantine, Cover, Transition, Mint, RefuseMint, Allocate, PlaceOrder,
           EndOrder, Create, Cancel, Expire, Prepare, PrepareAgain, EndCall, vars, goods,
           collateral
  <1> QED
    BY <1>1, <1>2, <1>3, <1>4, <1>5, <1>6, <1>7

------------------------------------------------------------------------------
\* The positions.  A receipt is booked once, with all its goods; a redemption
\* that names a receipt takes all of them, so after it nothing is left.
Stock ==
    /\ \A a \in Receipts :
          /\ position[a] <= Quantity[a]
          /\ LockedEvent(a) \notin moved => position[a] = 0
    /\ \A d \in Asked : redemption[d].receipt # None =>
          Quantity[redemption[d].receipt] = Underlying(d)
    /\ \A d \in With({"COMPLETED"}) :
          LET a == redemption[d].receipt IN
          a # None /\ position[a] = 0 /\ LockedEvent(a) \in moved

\* Redemptions go on naming receipts of their size.
LEMMA ExactStays ==
    ASSUME IndInv, IndInv', Stock, [Next]_vars
    PROVE  \A d \in Asked' : redemption'[d].receipt # None =>
              Quantity[redemption'[d].receipt] = Underlying(d)'
  <1>1. CASE UNCHANGED redemption
    BY <1>1 DEF Stock, Asked, Underlying, Required
  <1>2. CASE ~UNCHANGED redemption
    <2>1. PICK d \in Redemptions :
             /\ \A c \in Redemptions : c # d => redemption'[c] = redemption[c]
             /\ \/ redemption'[d].receipt = None
                \/ /\ redemption[d] \in Rows
                   /\ redemption'[d].quantity = redemption[d].quantity
                   /\ redemption'[d].receipt \in {redemption[d].receipt} \cup Exact(d)
      BY <1>2, RowStepKinds
    <2>2. redemption[d] \in Rows => d \in Asked
      BY RedemptionAssumption DEF Asked
    <2>3. \A a \in Exact(d) : Quantity[a] = Underlying(d)
      BY DEF Exact
    <2>4. redemption'[d].quantity = redemption[d].quantity => Underlying(d)' = Underlying(d)
      BY DEF Underlying, Required
    <2>5. redemption'[d].receipt # None => Quantity[redemption'[d].receipt] = Underlying(d)'
      BY <2>1, <2>2, <2>3, <2>4 DEF Stock
    <2>6. \A c \in Asked' : c # d => c \in Asked /\ redemption'[c] = redemption[c]
      BY <2>1 DEF Asked
    <2> QED
      BY <2>5, <2>6 DEF Stock, Underlying, Required
  <1> QED
    BY <1>1, <1>2

LEMMA AmountsAreNumbers == \A q \in Amounts : q \in Int /\ q \in Nat /\ q > 0
  BY RedemptionAssumption

\* An event names a receipt and a positive quantity.
LEMMA EventParts ==
    ASSUME NEW e \in Events
    PROVE  /\ e.receipt \in Receipts
           /\ e.quantity \in Nat /\ e.quantity > 0
           /\ Quantity[e.receipt] \in Nat
  <1>1. e.receipt \in Receipts /\ e.quantity \in Amounts
    BY DEF Events
  <1>2. \A q \in Amounts : q \in Nat /\ q > 0
    BY RedemptionAssumption
  <1>3. Quantity[e.receipt] \in Amounts
    BY <1>1, RedemptionAssumption
  <1> QED
    BY <1>1, <1>2, <1>3

\* Taking goods that are there from a position.
LEMMA TakeStep ==
    ASSUME IndInv, IndInv', Stock, [Next]_vars, NEW e \in Events,
           position[e.receipt] >= e.quantity, RELEASE(e), Record(e),
           \A d \in With({"COMPLETED"})' \ With({"COMPLETED"}) :
              /\ redemption'[d].receipt = e.receipt
              /\ position[e.receipt] = e.quantity
    PROVE  Stock'
  <1> DEFINE b == e.receipt
  <1>1. /\ b \in Receipts /\ e.quantity \in Nat /\ e.quantity > 0
        /\ position[b] \in Nat /\ Quantity[b] \in Nat
    BY EventParts DEF IndInv, TypeOK
  <1>2. /\ position'[b] = position[b] - e.quantity
        /\ \A a \in Receipts : a # b => position'[a] = position[a]
        /\ \A a : LockedEvent(a) \in moved => LockedEvent(a) \in moved'
    BY <1>1 DEF RELEASE, Record, IndInv, TypeOK
  <1>3. LockedEvent(b) \in moved
    BY <1>1 DEF Stock
  <1>4. \A a \in Receipts :
           /\ position'[a] <= Quantity[a]
           /\ LockedEvent(a) \notin moved' => position'[a] = 0
    BY <1>1, <1>2, <1>3 DEF Stock
  <1>5. ASSUME NEW d \in With({"COMPLETED"})'
        PROVE  LET a == redemption'[d].receipt IN
               a # None /\ position'[a] = 0 /\ LockedEvent(a) \in moved'
    <2>1. CASE d \in With({"COMPLETED"})
      <3>1. redemption'[d] = redemption[d] /\ redemption[d] \in Rows
        BY <2>1, EndedStays DEF With, Asked, Open, IndInv, TypeOK
      <3>2. /\ redemption[d].receipt \in Receipts /\ position[redemption[d].receipt] = 0
            /\ LockedEvent(redemption[d].receipt) \in moved
        BY <2>1, <3>1 DEF Stock, Rows
      <3>3. redemption[d].receipt # b
        BY <1>1, <3>2
      <3> QED
        BY <1>2, <3>1, <3>2, <3>3, RedemptionAssumption
    <2>2. CASE d \notin With({"COMPLETED"})
      <3>1. redemption'[d].receipt = b /\ position[b] = e.quantity
        BY <2>2
      <3> QED
        BY <1>1, <1>2, <1>3, <3>1, RedemptionAssumption
    <2> QED
      BY <2>1, <2>2
  <1>6. \A a : LockedEvent(a)' = LockedEvent(a)
    BY DEF LockedEvent
  <1>7. \A d \in Asked' : redemption'[d].receipt # None =>
           Quantity[redemption'[d].receipt] = Underlying(d)'
    BY ExactStays
  <1> HIDE DEF b
  <1> QED
    BY <1>4, <1>5, <1>6, <1>7 DEF Stock

LEMMA StockStep == IndInv /\ IndInv' /\ Trail /\ Stock /\ [Next]_vars => Stock'
  <1> SUFFICES ASSUME IndInv, IndInv', Trail, Stock, [Next]_vars PROVE Stock'
    OBVIOUS
  <1>0. \A a : LockedEvent(a)' = LockedEvent(a)
    BY DEF LockedEvent
  <1>1. ASSUME NEW e \in Events, ApplyLocked(e) PROVE Stock'
    <2>1. /\ e.receipt \in Receipts /\ e.quantity \in Nat
          /\ position[e.receipt] + e.quantity <= Quantity[e.receipt]
          /\ e = LockedEvent(e.receipt) /\ e \notin moved
          /\ UNCHANGED redemption
      BY <1>1, EventParts DEF ApplyLocked, RESERVE, Trail, Applied, Sent
    <2>2. /\ position'[e.receipt] = position[e.receipt] + e.quantity
          /\ \A a \in Receipts : a # e.receipt => position'[a] = position[a]
          /\ moved' = moved \cup {e}
      BY <1>1, <2>1 DEF ApplyLocked, RESERVE, Record, IndInv, TypeOK
    <2>3. \A a \in Receipts :
             /\ position'[a] <= Quantity[a]
             /\ LockedEvent(a) \notin moved' => position'[a] = 0
      BY <2>1, <2>2 DEF Stock
    <2>4. ASSUME NEW d \in With({"COMPLETED"})
          PROVE  LET a == redemption[d].receipt IN
                 a # None /\ position'[a] = 0 /\ LockedEvent(a) \in moved'
      <3>1. /\ redemption[d].receipt \in Receipts /\ position[redemption[d].receipt] = 0
            /\ LockedEvent(redemption[d].receipt) \in moved
        BY DEF Stock, With, Asked, IndInv, TypeOK, Rows
      <3>2. redemption[d].receipt # e.receipt
        BY <2>1, <3>1
      <3> QED
        BY <2>2, <3>1, <3>2, RedemptionAssumption
    <2>5. With({"COMPLETED"})' = With({"COMPLETED"})
      BY <2>1 DEF With, Asked
    <2> QED
      BY <1>0, <2>1, <2>3, <2>4, <2>5, ExactStays DEF Stock
  <1>2. ASSUME NEW e \in Events, ApplyWithdrawal(e) PROVE Stock'
    <2>1. UNCHANGED redemption
      BY <1>2 DEF ApplyWithdrawal
    <2>2. With({"COMPLETED"})' = With({"COMPLETED"})
      BY <2>1 DEF With, Asked
    <2> QED
      BY <1>2, <2>2, TakeStep DEF ApplyWithdrawal, MayRelease
  <1>3. ASSUME NEW e \in Events, Complete(e) PROVE Stock'
    <2>1. /\ e.redemption \in Asked /\ e.redemption \in Redemptions
          /\ redemption[e.redemption].receipt = e.receipt
          /\ e.quantity = Underlying(e.redemption)
          /\ Become(e.redemption, "COMPLETED")
          /\ position[e.receipt] >= e.quantity
      BY <1>3 DEF Complete, Evidence, With, Asked, MayRelease
    <2>2. /\ redemption'[e.redemption].receipt = e.receipt
          /\ \A c \in Redemptions : c # e.redemption => redemption'[c] = redemption[c]
      BY <2>1, BecomeRow DEF Statuses
    <2>3. /\ e.receipt \in Receipts /\ e.receipt # None
          /\ Quantity[e.receipt] = e.quantity
      BY <2>1, EventParts, RedemptionAssumption DEF Stock
    <2>4. position[e.receipt] = e.quantity
      <3>1. /\ e.quantity \in Nat /\ position[e.receipt] \in Nat
            /\ position[e.receipt] <= Quantity[e.receipt]
        BY <2>3, EventParts DEF Stock, IndInv, TypeOK
      <3> QED
        BY <2>1, <2>3, <3>1
    <2>5. \A d \in With({"COMPLETED"})' \ With({"COMPLETED"}) : d = e.redemption
      BY <2>2 DEF With, Asked
    <2> QED
      BY <1>3, <2>1, <2>2, <2>4, <2>5, TakeStep DEF Complete
  <1>4. CASE UNCHANGED collateral /\ ~\E e \in Events : Complete(e)
    <2>1. ASSUME NEW d \in With({"COMPLETED"})'
          PROVE  d \in With({"COMPLETED"}) /\ redemption'[d] = redemption[d]
      <3>1. CASE d \in With({"COMPLETED"})
        BY <3>1, EndedStays DEF With, Asked, Open
      <3>2. CASE d \notin With({"COMPLETED"})
        <4>1. redemption'[d] # redemption[d] /\ redemption'[d].status = "COMPLETED"
              /\ d \in Redemptions
          BY <3>2 DEF With, Asked
        <4>2. ~UNCHANGED redemption
          BY <4>1
        <4>3. ASSUME NEW c \in Redemptions, NEW s \in Statuses \ {"COMPLETED"},
                     c \in Asked, Become(c, s)
              PROVE  FALSE
          <5>1. redemption'[c].status = s /\ \A x \in Redemptions : x # c => redemption'[x] = redemption[x]
            BY <4>3, BecomeRow
          <5> QED
            BY <4>1, <5>1
        <4>4. ASSUME NEW c \in Redemptions, Cancel(c) \/ Expire(c) PROVE FALSE
          BY <4>3, <4>4 DEF Cancel, Expire, With, Statuses, Live
        <4>5. ASSUME NEW e \in Events, Quarantine(e) PROVE FALSE
          <5>1. e.redemption \in Asked /\ e.redemption \in Redemptions
                /\ Become(e.redemption, "QUARANTINED")
            BY <4>5 DEF Quarantine, Evidence, With, Asked
          <5> QED
            BY <4>3, <5>1 DEF Statuses, Live
        <4>6. ASSUME NEW w \in Workers, NEW c \in Redemptions, Prepare(w, c) PROVE FALSE
          BY <4>1, <4>6, PrepareRow
        <4>7. ASSUME NEW c \in Redemptions, NEW h \in Holders, NEW q \in Amounts, Create(c, h, q)
              PROVE  FALSE
          BY <4>1, <4>7, CreateRow
        <4> QED
          BY <1>4, <4>2, <4>4, <4>5, <4>6, <4>7
             DEF Next, Relay, LockReceipt, Report, Judge, ApplyLocked, ApplyWithdrawal, Cover,
                 Transition, Mint, RefuseMint, Allocate, PlaceOrder, EndOrder, PrepareAgain,
                 EndCall, ReleaseReceipt, vars
      <3> QED
        BY <3>1, <3>2
    <2> QED
      BY <1>0, <1>4, <2>1, ExactStays DEF Stock, collateral
  <1>5. \/ UNCHANGED collateral
        \/ \E e \in Events : ApplyLocked(e) \/ ApplyWithdrawal(e) \/ Complete(e)
    BY DEF Next, Relay, LockReceipt, Report, Judge, Quarantine, Cover, Transition, Mint,
           RefuseMint, Allocate, PlaceOrder, EndOrder, Create, Cancel, Expire, Prepare,
           PrepareAgain, EndCall, ReleaseReceipt, vars, collateral
  <1> QED
    BY <1>1, <1>2, <1>3, <1>4, <1>5

------------------------------------------------------------------------------
\* Collateral covers the supply.

\* The verified total follows the one position that changes.
LEMMA VerifiedStep ==
    ASSUME IndInv, IndInv', NEW a \in Receipts,
           \A b \in Receipts : b # a => position'[b] = position[b]
    PROVE  /\ Verified \in Int
           /\ Verified' = Verified + (position'[a] - position[a])
  <1>1. \A b \in Receipts : position[b] \in Int /\ position'[b] \in Int
    BY DEF IndInv, TypeOK
  <1>2. IsFiniteSet(Receipts)
    BY RedemptionAssumption
  <1>3. SumFunctionOnSet(position, Receipts) \in Int
    BY <1>1, <1>2, SumInt
  <1>4. SumFunctionOnSet(position', Receipts) =
           SumFunctionOnSet(position, Receipts) + (position'[a] - position[a])
    BY <1>1, <1>2, SumChange
  <1> QED
    BY <1>3, <1>4 DEF Verified

\* What the movement of an event does to its position and to the total.
LEMMA MovementSum ==
    ASSUME IndInv, IndInv', NEW e \in Events, NEW n \in Int,
           position' = [position EXCEPT ![e.receipt] = @ + n]
    PROVE  Verified \in Int /\ Verified' = Verified + n
  <1>1. e.receipt \in Receipts /\ position[e.receipt] \in Int
    BY EventParts DEF IndInv, TypeOK
  <1>2. /\ position'[e.receipt] = position[e.receipt] + n
        /\ \A b \in Receipts : b # e.receipt => position'[b] = position[b]
    BY <1>1 DEF IndInv, TypeOK
  <1>3. Verified \in Int /\ Verified' = Verified + (position'[e.receipt] - position[e.receipt])
    BY <1>1, <1>2, VerifiedStep
  <1> QED
    BY <1>1, <1>2, <1>3

LEMMA ReleaseSum ==
    ASSUME IndInv, IndInv', NEW e \in Events, RELEASE(e)
    PROVE  Verified \in Int /\ Verified' = Verified - e.quantity
  <1>1. e.quantity \in Nat /\ -e.quantity \in Int /\ e.receipt \in Receipts
    BY EventParts
  <1>2. position[e.receipt] - e.quantity = position[e.receipt] + (-e.quantity)
    BY <1>1 DEF IndInv, TypeOK
  <1>3. position' = [position EXCEPT ![e.receipt] = @ + (-e.quantity)]
    BY <1>2 DEF RELEASE
  <1>4. Verified \in Int /\ Verified' = Verified + (-e.quantity)
    BY <1>1, <1>3, MovementSum
  <1> QED
    BY <1>1, <1>4

Covered == Required(supply) <= Verified

LEMMA CoveredStep == IndInv /\ IndInv' /\ Covered /\ [Next]_vars => Covered'
  <1> SUFFICES ASSUME IndInv, IndInv', Covered, [Next]_vars PROVE Covered'
    OBVIOUS
  <1>0. supply \in Nat /\ supply' \in Nat /\ Unit \in Nat
    BY RedemptionAssumption DEF IndInv, TypeOK
  <1>1. ASSUME NEW e \in Events, ApplyLocked(e) PROVE Covered'
    <2>1. e.quantity \in Nat
      BY EventParts
    <2>2. Verified \in Int /\ Verified' = Verified + e.quantity
      <3>1. position' = [position EXCEPT ![e.receipt] = @ + e.quantity]
        BY <1>1 DEF ApplyLocked, RESERVE
      <3>2. e.quantity \in Int
        BY <2>1
      <3> QED
        BY <3>1, <3>2, MovementSum
    <2>3. Required(supply)' = Required(supply) /\ Required(supply) \in Int
      BY <1>0, <1>1 DEF ApplyLocked, issue, Required
    <2> QED
      BY <2>1, <2>2, <2>3 DEF Covered
  <1>2. ASSUME NEW e \in Events, ApplyWithdrawal(e) \/ Complete(e) PROVE Covered'
    <2>1. RELEASE(e) /\ Verified - e.quantity >= Required(supply')
      BY <1>2 DEF ApplyWithdrawal, Complete, MayRelease, issue
    <2>2. Verified' = Verified - e.quantity
      BY <2>1, ReleaseSum
    <2>3. Required(supply)' = Required(supply')
      BY DEF Required
    <2>4. Required(supply') \in Int /\ Verified' \in Int
      <3>1. e.quantity \in Nat /\ Verified \in Int
        BY <2>1, EventParts, ReleaseSum
      <3> QED
        BY <1>0, <2>2, <3>1 DEF Required
    <2> QED
      BY <2>1, <2>2, <2>3, <2>4 DEF Covered
  <1>3. ASSUME NEW k \in Keys, NEW q \in Amounts, Mint(k, q) PROVE Covered'
    <2>1. Required(supply + q) <= Verified /\ supply' = supply + q /\ UNCHANGED position
      BY <1>3 DEF Mint, MayMint, collateral
    <2>2. Verified' = Verified /\ Required(supply)' = Required(supply')
      BY <2>1 DEF Verified, Required
    <2> QED
      BY <2>1, <2>2 DEF Covered
  <1>4. CASE UNCHANGED <<position, supply>>
    BY <1>4 DEF Covered, Verified, Required
  <1>5. \/ UNCHANGED <<position, supply>>
        \/ \E e \in Events : ApplyLocked(e) \/ ApplyWithdrawal(e) \/ Complete(e)
        \/ \E k \in Keys, q \in Amounts : Mint(k, q)
    BY DEF Next, Relay, LockReceipt, Report, Judge, Quarantine, Cover, Transition,
           RefuseMint, Allocate, PlaceOrder, EndOrder, Create, Cancel, Expire, Prepare,
           PrepareAgain, EndCall, ReleaseReceipt, vars, collateral, issue
  <1> QED
    BY <1>1, <1>2, <1>3, <1>4, <1>5

\* Whatever is minted, redeemed, withdrawn and reported, in whatever order, the
\* ledger has the supply and the verified collateral covers it.
THEOREM RedemptionSupplyReconciles == Spec => []SupplyReconciles
  <1>1. Init => Covered
    <2> SUFFICES ASSUME Init PROVE Covered
      OBVIOUS
    <2>1. Verified = 0
      <3>1. \A a \in Receipts : position[a] = 0
        BY DEF Init
      <3> QED
        BY <3>1, SumZero, RedemptionAssumption DEF Verified
    <2>2. Required(supply) = 0
      BY RedemptionAssumption DEF Init, Required
    <2> QED
      BY <2>1, <2>2 DEF Covered
  <1>2. IndInv /\ Covered => SupplyReconciles
    BY DEF IndInv, Covered, SupplyReconciles
  <1> QED
    BY <1>1, <1>2, CoveredStep, RedemptionInvariant, PTL DEF Spec

------------------------------------------------------------------------------
\* The positions are what was booked.
Booked(a, t) == [e \in moved |-> IF e.receipt = a /\ e.type = t THEN e.quantity ELSE 0]
InStock(a) == SumFunctionOnSet(Booked(a, "RECEIPT_LOCKED"), moved)
OutOfStock(a) == SumFunctionOnSet(Booked(a, "GOODS_RELEASED"), moved)

\* One more event is booked.
LEMMA BookedStep ==
    ASSUME IndInv, Trail, NEW e \in Events, e \notin moved, Record(e),
           NEW a \in Receipts, NEW t
    PROVE  /\ SumFunctionOnSet(Booked(a, t), moved) \in Int
           /\ SumFunctionOnSet(Booked(a, t)', moved') =
                 SumFunctionOnSet(Booked(a, t), moved)
                   + IF e.receipt = a /\ e.type = t THEN e.quantity ELSE 0
  <1> DEFINE f == Booked(a, t)
             g == [x \in moved \cup {e} |->
                     IF x.receipt = a /\ x.type = t THEN x.quantity ELSE 0]
             n == IF e.receipt = a /\ e.type = t THEN e.quantity ELSE 0
  <1>1. moved' = moved \cup {e} /\ f' = g
    BY DEF Record, Booked
  <1>2. \A x \in moved \cup {e} : x \in Events
    BY DEF IndInv, TypeOK
  <1>3. /\ \A x \in moved \cup {e} : g[x] \in Int
        /\ \A x \in moved : f[x] \in Int /\ g[x] = f[x]
        /\ g[e] = n
    BY <1>2, EventParts DEF Booked
  <1>4. n \in Int
    BY EventParts
  <1>5. IsFiniteSet(moved)
    BY DEF Trail
  <1> HIDE DEF f, g, n
  <1>6. SumFunctionOnSet(f, moved) \in Int
    BY <1>3, <1>5, SumInt
  <1>7. SumFunctionOnSet(g, moved \cup {e}) = n + SumFunctionOnSet(f, moved)
    <2>1. SumFunctionOnSet(g, moved) = SumFunctionOnSet(f, moved)
      BY <1>3, <1>5, SumSame
    <2>2. SumFunctionOnSet(g, moved \cup {e}) = g[e] + SumFunctionOnSet(g, moved)
      BY <1>3, <1>5, SumAdd
    <2> QED
      BY <1>3, <2>1, <2>2
  <1>8. SumFunctionOnSet(f', moved') = SumFunctionOnSet(f, moved) + n
    BY <1>1, <1>4, <1>6, <1>7
  <1> QED
    BY <1>6, <1>8 DEF f, n

BookedInv == \A a \in Receipts : position[a] = InStock(a) - OutOfStock(a)

LEMMA BookedInvStep ==
    IndInv /\ IndInv' /\ Trail /\ BookedInv /\ [Next]_vars => BookedInv'
  <1> SUFFICES ASSUME IndInv, IndInv', Trail, BookedInv, [Next]_vars PROVE BookedInv'
    OBVIOUS
  <1>1. ASSUME NEW e \in Events, e \notin moved, Record(e),
               \/ e.type = "RECEIPT_LOCKED" /\ RESERVE(e)
               \/ e.type = "GOODS_RELEASED" /\ RELEASE(e)
        PROVE  BookedInv'
    <2> SUFFICES ASSUME NEW a \in Receipts
                 PROVE  position'[a] = InStock(a)' - OutOfStock(a)'
      BY DEF BookedInv
    <2> DEFINE N(t) == IF e.receipt = a /\ e.type = t THEN e.quantity ELSE 0
    <2>1. /\ InStock(a) \in Int /\ OutOfStock(a) \in Int
          /\ InStock(a)' = InStock(a) + N("RECEIPT_LOCKED")
          /\ OutOfStock(a)' = OutOfStock(a) + N("GOODS_RELEASED")
      BY <1>1, BookedStep DEF InStock, OutOfStock
    <2>2. position[a] \in Int /\ position[a] = InStock(a) - OutOfStock(a)
      BY DEF BookedInv, IndInv, TypeOK
    <2>3. e.quantity \in Int /\ e.receipt \in Receipts
      BY EventParts
    <2>4. position'[a] = position[a] + (N("RECEIPT_LOCKED") - N("GOODS_RELEASED"))
      <3>1. CASE e.receipt # a
        <4>1. position'[a] = position[a]
          BY <1>1, <3>1 DEF RESERVE, RELEASE, IndInv, TypeOK
        <4> QED
          BY <2>2, <3>1, <4>1
      <3>2. CASE e.receipt = a /\ e.type = "RECEIPT_LOCKED"
        <4>1. position'[a] = position[a] + e.quantity
          BY <1>1, <3>2 DEF RESERVE, IndInv, TypeOK
        <4> QED
          BY <2>2, <2>3, <3>2, <4>1
      <3>3. CASE e.receipt = a /\ e.type = "GOODS_RELEASED"
        <4>1. position'[a] = position[a] - e.quantity
          BY <1>1, <3>3 DEF RELEASE, IndInv, TypeOK
        <4> QED
          BY <2>2, <2>3, <3>3, <4>1
      <3> QED
        BY <1>1, <3>1, <3>2, <3>3
    <2>5. N("RECEIPT_LOCKED") \in Int /\ N("GOODS_RELEASED") \in Int
      BY <2>3
    <2> HIDE DEF N
    <2> QED
      BY <2>1, <2>2, <2>4, <2>5
  <1>2. ASSUME NEW e \in Events, ApplyLocked(e) \/ ApplyWithdrawal(e) PROVE BookedInv'
    BY <1>1, <1>2 DEF ApplyLocked, ApplyWithdrawal
  <1>3. ASSUME NEW e \in Events, Complete(e) PROVE BookedInv'
    <2>1. /\ e.type = "GOODS_RELEASED" /\ RELEASE(e) /\ Record(e)
          /\ e.redemption \in With({"IN_DELIVERY"})
      BY <1>3 DEF Complete, Evidence
    <2>2. e \notin moved
      BY <2>1, RedemptionAssumption DEF Trail, With, Asked
    <2> QED
      BY <1>1, <2>1, <2>2
  <1>4. CASE UNCHANGED collateral
    BY <1>4 DEF BookedInv, InStock, OutOfStock, Booked, collateral
  <1>5. \/ UNCHANGED collateral
        \/ \E e \in Events : ApplyLocked(e) \/ ApplyWithdrawal(e) \/ Complete(e)
    BY DEF Next, Relay, LockReceipt, Report, Judge, Quarantine, Cover, Transition, Mint,
           RefuseMint, Allocate, PlaceOrder, EndOrder, Create, Cancel, Expire, Prepare,
           PrepareAgain, EndCall, ReleaseReceipt, vars, collateral
  <1> QED
    BY <1>2, <1>3, <1>4, <1>5

\* The evidence invariant holds in every behaviour.
LEMMA TrailInvariant == Spec => []Trail
  <1>1. Init => Trail
    BY FS_EmptySet DEF Init, Trail, Sent
  <1> QED
    BY <1>1, TrailStep, RedemptionInvariant, PTL DEF Spec

\* Each position is what was locked less what was released on it, every applied
\* event booked once, however often and late events come.
THEOREM RedemptionPositionsFollowEvidence == Spec => []PositionsFollowEvidence
  <1>1. Init => BookedInv
    <2> SUFFICES ASSUME Init, NEW a \in Receipts
                 PROVE  position[a] = InStock(a) - OutOfStock(a)
      BY DEF BookedInv
    <2>1. moved = {} /\ position[a] = 0
      BY DEF Init
    <2>2. InStock(a) = 0 /\ OutOfStock(a) = 0
      BY <2>1, SumEmpty DEF InStock, OutOfStock
    <2> QED
      BY <2>1, <2>2
  <1>2. BookedInv => PositionsFollowEvidence
    BY DEF BookedInv, PositionsFollowEvidence, InStock, OutOfStock, Booked
  <1> QED
    BY <1>1, <1>2, BookedInvStep, TrailInvariant, RedemptionInvariant, PTL DEF Spec

------------------------------------------------------------------------------
\* Sums over redemptions.  Owed over the completed ones, and over those that
\* hold tokens of one holder.
Burned == [d \in Redemptions |->
             IF d \in With({"COMPLETED"}) THEN redemption[d].quantity ELSE 0]
Held(h) == [d \in Redemptions |->
              IF d \in With(Live) /\ redemption[d].holder = h THEN redemption[d].quantity ELSE 0]
BurnedSum == SumFunctionOnSet(Burned, Redemptions)
HeldSum(h) == SumFunctionOnSet(Held(h), Redemptions)

\* Both follow the one redemption that changes.
LEMMA BurnedChange ==
    ASSUME IsFiniteSet(Redemptions), NEW d \in Redemptions,
           \A c \in Redemptions : Burned[c] \in Int /\ Burned'[c] \in Int,
           \A c \in Redemptions : c # d => Burned'[c] = Burned[c]
    PROVE  SumFunctionOnSet(Burned', Redemptions) =
              SumFunctionOnSet(Burned, Redemptions) + (Burned'[d] - Burned[d])
  BY SumChange

LEMMA HeldChange ==
    ASSUME IsFiniteSet(Redemptions), NEW d \in Redemptions, NEW h,
           \A c \in Redemptions : Held(h)[c] \in Int /\ Held(h)'[c] \in Int,
           \A c \in Redemptions : c # d => Held(h)'[c] = Held(h)[c]
    PROVE  SumFunctionOnSet(Held(h)', Redemptions) =
              SumFunctionOnSet(Held(h), Redemptions) + (Held(h)'[d] - Held(h)[d])
  <1> DEFINE f == Held(h)
             g == Held(h)'
  <1>1. /\ \A c \in Redemptions : f[c] \in Int /\ g[c] \in Int
        /\ \A c \in Redemptions : c # d => g[c] = f[c]
    OBVIOUS
  <1> HIDE DEF f, g
  <1>2. SumFunctionOnSet(g, Redemptions) = SumFunctionOnSet(f, Redemptions) + (g[d] - f[d])
    BY <1>1, SumChange
  <1> QED
    BY <1>2 DEF f, g

LEMMA SumsAreWhole ==
    ASSUME IndInv
    PROVE  BurnedSum \in Int /\ \A h : HeldSum(h) \in Int
  <1>1. \A c \in Asked : redemption[c].quantity \in Int
    <2>1. \A c \in Asked : redemption[c].quantity \in Amounts
      BY DEF IndInv, TypeOK, Asked, Rows
    <2> QED
      BY <2>1, AmountsAreNumbers
  <1>2. /\ \A c \in Redemptions : Burned[c] \in Int
        /\ \A h : \A c \in Redemptions : Held(h)[c] \in Int
    BY <1>1 DEF Burned, Held, With
  <1>3. IsFiniteSet(Redemptions)
    BY RedemptionAssumption
  <1>4. SumFunctionOnSet(Burned, Redemptions) \in Int
    BY <1>2, <1>3, SumInt
  <1>5. \A h : SumFunctionOnSet(Held(h), Redemptions) \in Int
    BY <1>2, <1>3, SumInt
  <1> QED
    BY <1>4, <1>5 DEF BurnedSum, HeldSum

LEMMA RowSums ==
    ASSUME IndInv, IndInv', NEW d \in Redemptions,
           \A c \in Redemptions : c # d => redemption'[c] = redemption[c]
    PROVE  /\ BurnedSum \in Int /\ BurnedSum' = BurnedSum + (Burned'[d] - Burned[d])
           /\ \A h : /\ HeldSum(h) \in Int
                     /\ HeldSum(h)' = HeldSum(h) + (Held(h)'[d] - Held(h)[d])
  <1>1. /\ \A c \in Asked : redemption[c].quantity \in Int
        /\ \A c \in Asked' : redemption'[c].quantity \in Int
    <2>1. \A c \in Asked : redemption[c].quantity \in Amounts
      BY DEF IndInv, TypeOK, Asked, Rows
    <2>2. \A c \in Asked' : redemption'[c].quantity \in Amounts
      BY DEF IndInv, TypeOK, Asked, Rows
    <2> QED
      BY <2>1, <2>2, AmountsAreNumbers
  <1>2. /\ \A c \in Redemptions : Burned[c] \in Int /\ Burned'[c] \in Int
        /\ \A h : \A c \in Redemptions : Held(h)[c] \in Int /\ Held(h)'[c] \in Int
    BY <1>1 DEF Burned, Held, With
  <1>3. \A c \in Redemptions : c # d =>
           /\ Burned'[c] = Burned[c]
           /\ \A h : Held(h)'[c] = Held(h)[c]
    BY DEF Burned, Held, With, Asked
  <1>4. IsFiniteSet(Redemptions)
    BY RedemptionAssumption
  <1>5. BurnedSum' = BurnedSum + (Burned'[d] - Burned[d])
    BY <1>2, <1>3, <1>4, BurnedChange DEF BurnedSum
  <1>6. \A h : HeldSum(h)' = HeldSum(h) + (Held(h)'[d] - Held(h)[d])
    BY <1>2, <1>3, <1>4, HeldChange DEF HeldSum
  <1> QED
    BY <1>5, <1>6, SumsAreWhole

\* The entries of one redemption, by its row.
LEMMA RowEntries ==
    ASSUME NEW d \in Redemptions
    PROVE  /\ redemption[d] = None => Burned[d] = 0 /\ \A h : Held(h)[d] = 0
           /\ redemption[d] # None =>
                 /\ Burned[d] = IF redemption[d].status = "COMPLETED"
                                THEN redemption[d].quantity ELSE 0
                 /\ \A h : Held(h)[d] =
                       IF redemption[d].status \in Live /\ redemption[d].holder = h
                       THEN redemption[d].quantity ELSE 0
  BY DEF Burned, Held, With, Asked

\* What a step does to the two sums.
LEMMA CreateSums ==
    ASSUME IndInv, IndInv', NEW d \in Redemptions, NEW h \in Holders, NEW q \in Amounts,
           Create(d, h, q)
    PROVE  /\ BurnedSum \in Int /\ BurnedSum' = BurnedSum
           /\ \A x : /\ HeldSum(x) \in Int
                     /\ HeldSum(x)' = HeldSum(x) + IF x = h THEN q ELSE 0
  <1>1. /\ redemption[d] = None /\ redemption'[d] # None
        /\ redemption'[d].holder = h /\ redemption'[d].quantity = q
        /\ redemption'[d].status = "TOKENS_LOCKED"
        /\ \A c \in Redemptions : c # d => redemption'[c] = redemption[c]
    BY CreateRow, RedemptionAssumption
  <1>2. Burned[d] = 0 /\ \A x : Held(x)[d] = 0
    BY <1>1, RowEntries
  <1>3. Burned'[d] = 0 /\ \A x : Held(x)'[d] = IF x = h THEN q ELSE 0
    BY <1>1 DEF Burned, Held, With, Asked, Live
  <1>4. q \in Nat
    BY RedemptionAssumption
  <1>5. /\ BurnedSum \in Int /\ BurnedSum' = BurnedSum + (Burned'[d] - Burned[d])
        /\ \A x : /\ HeldSum(x) \in Int
                  /\ HeldSum(x)' = HeldSum(x) + (Held(x)'[d] - Held(x)[d])
    BY <1>1, RowSums
  <1> QED
    BY <1>2, <1>3, <1>4, <1>5

LEMMA BecomeSums ==
    ASSUME IndInv, IndInv', NEW d \in Asked, NEW s \in Statuses, Become(d, s),
           redemption[d].status \in Live
    PROVE  LET q == redemption[d].quantity IN
           /\ q \in Nat /\ redemption[d].holder \in Holders
           /\ BurnedSum \in Int
           /\ BurnedSum' = BurnedSum + IF s = "COMPLETED" THEN q ELSE 0
           /\ \A x : /\ HeldSum(x) \in Int
                     /\ HeldSum(x)' = HeldSum(x) - IF s \notin Live /\ redemption[d].holder = x
                                                   THEN q ELSE 0
  <1> DEFINE q == redemption[d].quantity
             o == redemption[d].holder
  <1>1. /\ d \in Redemptions /\ redemption[d] # None /\ redemption'[d] # None
        /\ redemption'[d].holder = o /\ redemption'[d].quantity = q
        /\ redemption'[d].status = s
        /\ \A c \in Redemptions : c # d => redemption'[c] = redemption[c]
    BY BecomeRow, RedemptionAssumption DEF Asked
  <1>2. q \in Nat /\ o \in Holders
    BY BecomeRow, RedemptionAssumption DEF Rows
  <1>3. Burned[d] = 0 /\ \A x : Held(x)[d] = IF x = o THEN q ELSE 0
    BY <1>1, RowEntries DEF Live
  <1>4. /\ Burned'[d] = IF s = "COMPLETED" THEN q ELSE 0
        /\ \A x : Held(x)'[d] = IF s \in Live /\ x = o THEN q ELSE 0
    BY <1>1 DEF Burned, Held, With, Asked
  <1>5. /\ BurnedSum \in Int /\ BurnedSum' = BurnedSum + (Burned'[d] - Burned[d])
        /\ \A x : /\ HeldSum(x) \in Int
                  /\ HeldSum(x)' = HeldSum(x) + (Held(x)'[d] - Held(x)[d])
    BY <1>1, RowSums
  <1> HIDE DEF q, o
  <1>6. BurnedSum' = BurnedSum + IF s = "COMPLETED" THEN q ELSE 0
    BY <1>2, <1>3, <1>4, <1>5
  <1>7. \A x : HeldSum(x)' = HeldSum(x) - IF s \notin Live /\ o = x THEN q ELSE 0
    BY <1>2, <1>3, <1>4, <1>5
  <1> QED
    BY <1>2, <1>5, <1>6, <1>7 DEF q, o

LEMMA PrepareSums ==
    ASSUME IndInv, IndInv', NEW w \in Workers, NEW d \in Redemptions, Prepare(w, d)
    PROVE  BurnedSum' = BurnedSum /\ \A x : HeldSum(x)' = HeldSum(x)
  <1>1. /\ redemption[d] # None /\ redemption'[d] # None
        /\ redemption[d].status = "TOKENS_LOCKED" /\ redemption'[d].status = "IN_DELIVERY"
        /\ redemption'[d].holder = redemption[d].holder
        /\ redemption'[d].quantity = redemption[d].quantity
        /\ \A c \in Redemptions : c # d => redemption'[c] = redemption[c]
    BY PrepareRow, RedemptionAssumption
  <1>2. Burned' = Burned /\ \A x : Held(x)' = Held(x)
    BY <1>1 DEF Burned, Held, With, Asked, Live
  <1> QED
    BY <1>2 DEF BurnedSum, HeldSum

\* Every other step leaves both alone.
LEMMA QuietSums ==
    ASSUME UNCHANGED redemption
    PROVE  BurnedSum' = BurnedSum /\ \A x : HeldSum(x)' = HeldSum(x)
  BY DEF BurnedSum, HeldSum, Burned, Held, With, Asked

------------------------------------------------------------------------------
\* The supply is what was minted less what was burned.
Minted == [k \in Keys |-> IF minted[k] = None THEN 0 ELSE minted[k]]
MintedSum == SumFunctionOnSet(Minted, Keys)
MintedLessBurned == supply + BurnedSum = MintedSum

LEMMA MintedChange ==
    ASSUME IsFiniteSet(Keys), NEW k \in Keys,
           \A j \in Keys : Minted[j] \in Int /\ Minted'[j] \in Int,
           \A j \in Keys : j # k => Minted'[j] = Minted[j]
    PROVE  SumFunctionOnSet(Minted', Keys) =
              SumFunctionOnSet(Minted, Keys) + (Minted'[k] - Minted[k])
  BY SumChange

LEMMA MintedStep ==
    ASSUME IndInv, IndInv', NEW k \in Keys, NEW q \in Nat, minted[k] = None,
           minted' = [minted EXCEPT ![k] = q], q = None => q = 0
    PROVE  MintedSum \in Int /\ MintedSum' = MintedSum + q
  <1>1. \A j \in Keys : Minted[j] \in Int /\ Minted'[j] \in Int
    BY DEF Minted, IndInv, TypeOK
  <1>2. /\ Minted[k] = 0 /\ Minted'[k] = q
        /\ \A j \in Keys : j # k => Minted'[j] = Minted[j]
    BY DEF Minted, IndInv, TypeOK
  <1>3. IsFiniteSet(Keys)
    BY RedemptionAssumption
  <1>4. SumFunctionOnSet(Minted, Keys) \in Int
    BY <1>1, <1>3, SumInt
  <1>5. SumFunctionOnSet(Minted', Keys) =
           SumFunctionOnSet(Minted, Keys) + (Minted'[k] - Minted[k])
    BY <1>1, <1>2, <1>3, MintedChange
  <1> QED
    BY <1>2, <1>4, <1>5 DEF MintedSum

LEMMA MintedLessBurnedStep ==
    IndInv /\ IndInv' /\ MintedLessBurned /\ [Next]_vars => MintedLessBurned'
  <1> SUFFICES ASSUME IndInv, IndInv', MintedLessBurned, [Next]_vars
               PROVE  MintedLessBurned'
    OBVIOUS
  <1>0. supply \in Nat
    BY DEF IndInv, TypeOK
  <1>1. ASSUME NEW k \in Keys, NEW q \in Amounts, Mint(k, q) PROVE MintedLessBurned'
    <2>1. q \in Nat /\ q # None
      BY RedemptionAssumption
    <2>2. MintedSum \in Int /\ MintedSum' = MintedSum + q
      BY <1>1, <2>1, MintedStep DEF Mint
    <2>3. BurnedSum' = BurnedSum /\ supply' = supply + q
      BY <1>1, QuietSums DEF Mint
    <2>4. BurnedSum \in Int
      BY SumsAreWhole
    <2> QED
      BY <1>0, <2>1, <2>2, <2>3, <2>4 DEF MintedLessBurned
  <1>2. ASSUME NEW k \in Keys, RefuseMint(k) PROVE MintedLessBurned'
    <2>1. MintedSum \in Int /\ MintedSum' = MintedSum + 0
      BY <1>2, MintedStep DEF RefuseMint
    <2>2. BurnedSum' = BurnedSum /\ supply' = supply
      BY <1>2, QuietSums DEF RefuseMint
    <2> QED
      BY <2>1, <2>2 DEF MintedLessBurned
  <1>3. ASSUME NEW d \in Asked, NEW s \in Statuses, Become(d, s),
               redemption[d].status \in Live, UNCHANGED minted,
               supply' = supply - IF s = "COMPLETED" THEN redemption[d].quantity ELSE 0
        PROVE  MintedLessBurned'
    <2> DEFINE n == IF s = "COMPLETED" THEN redemption[d].quantity ELSE 0
    <2>1. n \in Nat /\ BurnedSum \in Int /\ BurnedSum' = BurnedSum + n
      BY <1>3, BecomeSums
    <2>2. MintedSum' = MintedSum /\ supply' = supply - n
      BY <1>3 DEF MintedSum, Minted
    <2> HIDE DEF n
    <2> QED
      BY <1>0, <2>1, <2>2 DEF MintedLessBurned
  <1>4. ASSUME NEW d \in Redemptions, Cancel(d) \/ Expire(d) PROVE MintedLessBurned'
    <2>1. d \in Asked /\ redemption[d].status \in Live
      BY <1>4 DEF Cancel, Expire, With, Live
    <2>2. \E s \in {"CANCELLED", "EXCEPTION"} : Become(d, s)
      BY <1>4 DEF Cancel, Expire
    <2>3. UNCHANGED <<supply, minted>>
      BY <1>4 DEF Cancel, Expire, issue
    <2> QED
      BY <1>0, <1>3, <2>1, <2>2, <2>3 DEF Statuses, Live
  <1>5. ASSUME NEW e \in Events, Complete(e) \/ Quarantine(e) PROVE MintedLessBurned'
    <2>1. e.redemption \in Asked /\ redemption[e.redemption].status \in Live
      BY <1>5 DEF Complete, Quarantine, Evidence, With, Live
    <2>2. UNCHANGED minted
      BY <1>5 DEF Complete, Quarantine, Burn, issue
    <2>3. CASE Complete(e)
      BY <1>3, <2>1, <2>2, <2>3 DEF Complete, Burn, Statuses
    <2>4. CASE Quarantine(e)
      BY <1>0, <1>3, <2>1, <2>2, <2>4 DEF Quarantine, Statuses, Live, issue
    <2> QED
      BY <1>5, <2>3, <2>4
  <1>6. ASSUME NEW w \in Workers, NEW d \in Redemptions, Prepare(w, d)
        PROVE  MintedLessBurned'
    BY <1>6, PrepareSums DEF Prepare, issue, MintedLessBurned, MintedSum, Minted
  <1>7. ASSUME NEW d \in Redemptions, NEW h \in Holders, NEW q \in Amounts, Create(d, h, q)
        PROVE  MintedLessBurned'
    BY <1>7, CreateSums DEF Create, issue, MintedLessBurned, MintedSum, Minted
  <1>8. CASE UNCHANGED <<redemption, supply, minted>>
    BY <1>8, QuietSums DEF MintedLessBurned, MintedSum, Minted
  <1>9. \/ UNCHANGED <<redemption, supply, minted>>
        \/ \E k \in Keys : RefuseMint(k) \/ \E q \in Amounts : Mint(k, q)
        \/ \E d \in Redemptions, h \in Holders, q \in Amounts : Create(d, h, q)
        \/ \E d \in Redemptions : Cancel(d) \/ Expire(d)
        \/ \E w \in Workers, d \in Redemptions : Prepare(w, d)
        \/ \E e \in Events : Complete(e) \/ Quarantine(e)
    BY DEF Next, Relay, LockReceipt, Report, Judge, ApplyLocked, ApplyWithdrawal, Cover,
           Transition, Allocate, PlaceOrder, EndOrder, PrepareAgain, EndCall, ReleaseReceipt,
           vars, issue
  <1> QED
    BY <1>1, <1>2, <1>4, <1>5, <1>6, <1>7, <1>8, <1>9

\* Tokens exist that were minted and not burned, each mint and each completed
\* redemption counted once, whatever is repeated.
THEOREM RedemptionSupplyIsMintedLessBurned == Spec => []SupplyIsMintedLessBurned
  <1>1. Init => MintedLessBurned
    <2> SUFFICES ASSUME Init PROVE MintedLessBurned
      OBVIOUS
    <2>1. MintedSum = 0
      <3>1. \A k \in Keys : Minted[k] = 0
        BY DEF Init, Minted
      <3> QED
        BY <3>1, SumZero, RedemptionAssumption DEF MintedSum
    <2>2. BurnedSum = 0
      <3>1. \A d \in Redemptions : Burned[d] = 0
        BY DEF Init, Burned, With, Asked
      <3> QED
        BY <3>1, SumZero, RedemptionAssumption DEF BurnedSum
    <2> QED
      BY <2>1, <2>2 DEF Init, MintedLessBurned
  <1>2. MintedLessBurned => SupplyIsMintedLessBurned
    BY DEF MintedLessBurned, SupplyIsMintedLessBurned, BurnedSum, Burned, MintedSum, Minted, Owed
  <1> QED
    BY <1>1, <1>2, MintedLessBurnedStep, RedemptionInvariant, PTL DEF Spec

------------------------------------------------------------------------------
\* The RESERVED account of a holder.
Accounted == \A h \in Holders : reserved[h] = orders[h] + HeldSum(h)

\* What freezing and unfreezing do to the account.
LEMMA FreezeReserved ==
    ASSUME IndInv, NEW h \in Holders, NEW q \in Amounts
    PROVE  /\ Freeze(h, q) => /\ reserved'[h] = reserved[h] + q
                              /\ \A x \in Holders : x # h => reserved'[x] = reserved[x]
           /\ Unfreeze(h, q) => /\ reserved'[h] = reserved[h] - q
                                /\ \A x \in Holders : x # h => reserved'[x] = reserved[x]
  BY DEF Freeze, Unfreeze, IndInv, TypeOK

LEMMA AccountedStep == IndInv /\ IndInv' /\ Accounted /\ [Next]_vars => Accounted'
  <1> SUFFICES ASSUME IndInv, IndInv', Accounted, [Next]_vars, NEW h \in Holders
               PROVE  reserved'[h] = orders'[h] + HeldSum(h)'
    BY DEF Accounted
  <1> DEFINE goal == reserved'[h] = orders'[h] + HeldSum(h)'
  <1>0. /\ reserved[h] \in Int /\ orders[h] \in Int /\ HeldSum(h) \in Int
        /\ reserved[h] = orders[h] + HeldSum(h)
    BY SumsAreWhole DEF Accounted, IndInv, TypeOK
  <1>1. ASSUME NEW x \in Holders, NEW q \in Amounts, PlaceOrder(x, q) PROVE goal
    <2>1. HeldSum(h)' = HeldSum(h)
      BY <1>1, QuietSums DEF PlaceOrder
    <2>2. /\ orders'[h] = IF h = x THEN orders[h] + q ELSE orders[h]
          /\ reserved'[h] = IF h = x THEN reserved[h] + q ELSE reserved[h]
      BY <1>1, FreezeReserved DEF PlaceOrder, IndInv, TypeOK
    <2> QED
      BY <1>0, <2>1, <2>2, AmountsAreNumbers
  <1>2. ASSUME NEW x \in Holders, NEW q \in Amounts, EndOrder(x, q) PROVE goal
    <2>1. HeldSum(h)' = HeldSum(h)
      BY <1>2, QuietSums DEF EndOrder
    <2>2. /\ orders'[h] = IF h = x THEN orders[h] - q ELSE orders[h]
          /\ reserved'[h] = IF h = x THEN reserved[h] - q ELSE reserved[h]
      BY <1>2, FreezeReserved DEF EndOrder, IndInv, TypeOK
    <2> QED
      BY <1>0, <2>1, <2>2, AmountsAreNumbers
  <1>3. ASSUME NEW d \in Redemptions, NEW x \in Holders, NEW q \in Amounts, Create(d, x, q)
        PROVE  goal
    <2>1. HeldSum(h)' = HeldSum(h) + IF h = x THEN q ELSE 0
      BY <1>3, CreateSums
    <2>2. /\ orders'[h] = orders[h]
          /\ reserved'[h] = IF h = x THEN reserved[h] + q ELSE reserved[h]
      BY <1>3, FreezeReserved DEF Create
    <2> QED
      BY <1>0, <2>1, <2>2, AmountsAreNumbers
  <1>4. ASSUME NEW d \in Asked, NEW s \in Statuses, Become(d, s), redemption[d].status \in Live,
               UNCHANGED orders,
               reserved'[h] = reserved[h] - IF s \notin Live /\ redemption[d].holder = h
                                            THEN redemption[d].quantity ELSE 0
        PROVE  goal
    <2> DEFINE n == IF s \notin Live /\ redemption[d].holder = h
                    THEN redemption[d].quantity ELSE 0
    <2>1. n \in Nat /\ HeldSum(h)' = HeldSum(h) - n
      BY <1>4, BecomeSums
    <2>2. reserved'[h] = reserved[h] - n /\ orders'[h] = orders[h]
      BY <1>4
    <2> HIDE DEF n
    <2> QED
      BY <1>0, <2>1, <2>2
  <1>5. ASSUME NEW d \in Redemptions, Cancel(d) PROVE goal
    <2>1. /\ d \in Asked /\ redemption[d].status \in Live /\ Become(d, "CANCELLED")
          /\ UNCHANGED orders
      BY <1>5 DEF Cancel, With, Live
    <2>2. redemption[d].holder \in Holders /\ redemption[d].quantity \in Amounts
      BY <2>1 DEF IndInv, TypeOK, Asked, Rows
    <2>3. reserved'[h] = reserved[h] - IF redemption[d].holder = h
                                       THEN redemption[d].quantity ELSE 0
      BY <1>0, <1>5, <2>2, FreezeReserved DEF Cancel
    <2> QED
      BY <1>4, <2>1, <2>3 DEF Statuses, Live
  <1>6. ASSUME NEW d \in Redemptions, Expire(d) PROVE goal
    <2>1. /\ d \in Asked /\ redemption[d].status \in Live /\ Become(d, "EXCEPTION")
          /\ UNCHANGED <<orders, reserved>>
      BY <1>6 DEF Expire, With, Live, tokens
    <2> QED
      BY <1>0, <1>4, <2>1 DEF Statuses, Live
  <1>7. ASSUME NEW e \in Events, Complete(e) PROVE goal
    <2>1. /\ e.redemption \in Asked /\ redemption[e.redemption].status \in Live
          /\ Become(e.redemption, "COMPLETED") /\ Burn(e.redemption)
      BY <1>7 DEF Complete, Evidence, With, Live
    <2>2. UNCHANGED orders
      BY <2>1 DEF Burn
    <2>3. /\ redemption[e.redemption].holder \in Holders
          /\ reserved' = [reserved EXCEPT ![redemption[e.redemption].holder] =
                             @ - redemption[e.redemption].quantity]
      BY <2>1 DEF Burn, IndInv, TypeOK, Asked, Rows
    <2>4. reserved'[h] = reserved[h] - IF redemption[e.redemption].holder = h
                                       THEN redemption[e.redemption].quantity ELSE 0
      BY <1>0, <2>3 DEF IndInv, TypeOK
    <2> QED
      BY <1>4, <2>1, <2>2, <2>4 DEF Statuses, Live
  <1>8. ASSUME NEW e \in Events, Quarantine(e) PROVE goal
    <2>1. /\ e.redemption \in Asked /\ redemption[e.redemption].status \in Live
          /\ Become(e.redemption, "QUARANTINED") /\ UNCHANGED <<orders, reserved>>
      BY <1>8 DEF Quarantine, Evidence, With, Live, tokens
    <2> QED
      BY <1>0, <1>4, <2>1 DEF Statuses, Live
  <1>9. ASSUME NEW w \in Workers, NEW d \in Redemptions, Prepare(w, d) PROVE goal
    BY <1>0, <1>9, PrepareSums DEF Prepare, tokens
  <1>10. ASSUME UNCHANGED <<redemption, reserved, orders>> PROVE goal
    BY <1>0, <1>10, QuietSums
  <1>11. \/ UNCHANGED <<redemption, reserved, orders>>
         \/ \E x \in Holders, q \in Amounts : PlaceOrder(x, q) \/ EndOrder(x, q)
         \/ \E d \in Redemptions, x \in Holders, q \in Amounts : Create(d, x, q)
         \/ \E d \in Redemptions : Cancel(d) \/ Expire(d)
         \/ \E w \in Workers, d \in Redemptions : Prepare(w, d)
         \/ \E e \in Events : Complete(e) \/ Quarantine(e)
    BY DEF Next, Relay, LockReceipt, Report, Judge, ApplyLocked, ApplyWithdrawal, Cover,
           Transition, Mint, RefuseMint, Allocate, PrepareAgain, EndCall, ReleaseReceipt,
           vars, tokens
  <1> HIDE DEF goal
  <1>12. goal
    BY <1>1, <1>2, <1>3, <1>5, <1>6, <1>7, <1>8, <1>9, <1>10, <1>11
  <1> QED
    BY <1>12 DEF goal

\* Orders and redemptions of one holder never take each other's tokens: the
\* RESERVED account has exactly what both hold.
THEOREM RedemptionReservedIsAccounted == Spec => []ReservedIsAccounted
  <1>1. Init => Accounted
    <2> SUFFICES ASSUME Init, NEW h \in Holders PROVE reserved[h] = orders[h] + HeldSum(h)
      BY DEF Accounted
    <2>1. HeldSum(h) = 0
      <3>1. \A d \in Redemptions : Held(h)[d] = 0
        BY DEF Init, Held, With, Asked
      <3> QED
        BY <3>1, SumZero, RedemptionAssumption DEF HeldSum
    <2> QED
      BY <2>1 DEF Init
  <1>2. Accounted => ReservedIsAccounted
    <2> SUFFICES ASSUME Accounted, NEW h \in Holders
                 PROVE  reserved[h] = orders[h] +
                           Owed({d \in With(Live) : redemption[d].holder = h})
      BY DEF ReservedIsAccounted
    <2>1. Owed({d \in With(Live) : redemption[d].holder = h}) = HeldSum(h)
      BY DEF Owed, HeldSum, Held
    <2> QED
      BY <2>1 DEF Accounted
  <1> QED
    BY <1>1, <1>2, AccountedStep, RedemptionInvariant, PTL DEF Spec

------------------------------------------------------------------------------
\* Tokens are backed by goods.

\* What goods that are not under lock still have on their positions is no more
\* than the redemptions they left for still owe: each such receipt left for one
\* redemption that names it alone and is of its size.
GoneEntry == [d \in Redemptions |-> IF d \in GoneUnburned THEN redemption[d].quantity ELSE 0]
GoneGoods == [d \in Redemptions |-> Unit * GoneEntry[d]]

LEMMA GoneReceipt ==
    ASSUME IndInv, Trail, Stock, NEW a \in Receipts, receipt[a].status # "LOCKED",
           position[a] # 0
    PROVE  LET d == receipt[a].redemption IN
           /\ d \in GoneUnburned /\ d \in Redemptions
           /\ redemption[d].receipt = a
           /\ position[a] <= Quantity[a]
           /\ Quantity[a] = Underlying(d)
  <1> DEFINE d == receipt[a].redemption
  <1>1. LockedEvent(a) \in moved
    BY DEF Stock
  <1>2. LockedEvent(a) \in Events /\ Sent(LockedEvent(a))
    BY <1>1, EventTypes DEF Trail, Applied, Sent
  <1>3. receipt[a].status # "AVAILABLE"
    BY <1>2 DEF Trail, LockedEvent, Event
  <1>4. receipt[a].status = "RELEASED"
    BY <1>3 DEF IndInv, TypeOK
  <1>5. d \in With(Prepared) /\ redemption[d].receipt = a
    BY <1>4 DEF IndInv, GoodsLeaveForFrozenTokens, Prepared
  <1>6. d \notin With({"COMPLETED"})
    BY <1>5 DEF Stock
  <1>7. d \in With(Live) /\ d \in Redemptions
    BY <1>5, <1>6 DEF With, Asked, Prepared, Live
  <1>8. d \in GoneUnburned
    BY <1>7 DEF GoneUnburned
  <1>9. Quantity[a] = Underlying(d)
    BY <1>5, RedemptionAssumption DEF Stock, With
  <1> QED
    BY <1>5, <1>7, <1>8, <1>9 DEF Stock

LEMMA GoneIsOwed ==
    ASSUME IndInv, Trail, Stock
    PROVE  LET Locked == {a \in Receipts : receipt[a].status = "LOCKED"} IN
           /\ Owed(GoneUnburned) \in Int
           /\ SumFunctionOnSet(position, Receipts \ Locked) <= Unit * Owed(GoneUnburned)
  <1> DEFINE Locked == {a \in Receipts : receipt[a].status = "LOCKED"}
             Gone == Receipts \ Locked
             leftFor == [a \in Receipts |-> receipt[a].redemption]
  <1>1. IsFiniteSet(Gone) /\ IsFiniteSet(Redemptions)
    BY RedemptionAssumption, FS_Subset
  <1>2. \A a \in Gone : position[a] \in Nat
    BY DEF IndInv, TypeOK
  <1>3. \A d \in Redemptions : /\ GoneEntry[d] \in Nat
                              /\ GoneGoods[d] \in Nat /\ GoneGoods[d] = Unit * GoneEntry[d]
    <2>1. \A d \in GoneUnburned : redemption[d].quantity \in Nat
      <3>1. \A d \in GoneUnburned : redemption[d].quantity \in Amounts
        BY DEF GoneUnburned, With, Asked, IndInv, TypeOK, Rows
      <3> QED
        BY <3>1, AmountsAreNumbers
    <2>2. \A d \in Redemptions : GoneEntry[d] \in Nat
      BY <2>1 DEF GoneEntry
    <2>3. Unit \in Nat
      BY RedemptionAssumption
    <2> QED
      BY <2>2, <2>3 DEF GoneGoods
  <1>4. \A a \in Gone : position[a] # 0 =>
           leftFor[a] \in Redemptions /\ position[a] <= GoneGoods[leftFor[a]]
    <2> SUFFICES ASSUME NEW a \in Gone, position[a] # 0
                 PROVE  leftFor[a] \in Redemptions /\ position[a] <= GoneGoods[leftFor[a]]
      OBVIOUS
    <2> DEFINE d == receipt[a].redemption
    <2>1. /\ a \in Receipts /\ d \in GoneUnburned /\ d \in Redemptions
          /\ position[a] <= Quantity[a] /\ Quantity[a] = Underlying(d)
      BY GoneReceipt
    <2>2. redemption[d].quantity \in Nat /\ Unit \in Nat
      <3>1. redemption[d].quantity \in Amounts
        BY <2>1 DEF GoneUnburned, With, Asked, IndInv, TypeOK, Rows
      <3> QED
        BY <3>1, AmountsAreNumbers, RedemptionAssumption
    <2>3. GoneGoods[d] = Unit * redemption[d].quantity
      BY <2>1 DEF GoneGoods, GoneEntry
    <2>4. Underlying(d) = GoneGoods[d]
      BY <2>2, <2>3 DEF Underlying, Required
    <2> QED
      BY <2>1, <2>4
  <1>5. \A a, b \in Gone : position[a] # 0 /\ position[b] # 0 /\ a # b => leftFor[a] # leftFor[b]
    BY GoneReceipt
  <1> HIDE DEF Gone, leftFor
  <1>6. SumFunctionOnSet(position, Gone) <= SumFunctionOnSet(GoneGoods, Redemptions)
    <2>1. \A d \in Redemptions : GoneGoods[d] \in Nat
      BY <1>3
    <2> QED
      BY <1>1, <1>2, <1>4, <1>5, <2>1, SumCovered
  <1>7. SumFunctionOnSet(GoneEntry, Redemptions) \in Nat
    <2>1. \A d \in Redemptions : GoneEntry[d] \in Nat
      BY <1>3
    <2> QED
      BY <1>1, <2>1, SumNat
  <1>8. SumFunctionOnSet(GoneGoods, Redemptions) = Unit * SumFunctionOnSet(GoneEntry, Redemptions)
    <2>1. Unit \in Int /\ \A d \in Redemptions :
             GoneEntry[d] \in Int /\ GoneGoods[d] = Unit * GoneEntry[d]
      BY <1>3, RedemptionAssumption
    <2> QED
      BY <1>1, <2>1, SumScale
  <1>9. Owed(GoneUnburned) = SumFunctionOnSet(GoneEntry, Redemptions)
    BY DEF Owed, GoneEntry
  <1> QED
    BY <1>6, <1>7, <1>8, <1>9 DEF Gone

\* The goods under lock cover every token except those frozen for goods that
\* have left already.
LEMMA BackedByGoodsHolds == IndInv /\ Trail /\ Stock /\ Covered => BackedByGoods
  <1> SUFFICES ASSUME IndInv, Trail, Stock, Covered PROVE BackedByGoods
    OBVIOUS
  <1> DEFINE Locked == {a \in Receipts : receipt[a].status = "LOCKED"}
             inside == SumFunctionOnSet(position, Locked)
             outside == SumFunctionOnSet(position, Receipts \ Locked)
             owed == Owed(GoneUnburned)
  <1>1. Verified = inside + outside
    <2>1. IsFiniteSet(Receipts) /\ \A a \in Receipts : position[a] \in Int
      BY RedemptionAssumption DEF IndInv, TypeOK
    <2>2. Receipts \cap Locked = Locked
      OBVIOUS
    <2> HIDE DEF Locked
    <2>3. SumFunctionOnSet(position, Receipts) =
             SumFunctionOnSet(position, Receipts \cap Locked)
               + SumFunctionOnSet(position, Receipts \ Locked)
      BY <2>1, SumSplit
    <2> QED
      BY <2>2, <2>3 DEF Verified
  <1>2. inside \in Int /\ outside \in Int
    <2>1. /\ IsFiniteSet(Locked) /\ IsFiniteSet(Receipts \ Locked)
          /\ \A a \in Locked : position[a] \in Int
          /\ \A a \in Receipts \ Locked : position[a] \in Int
      BY RedemptionAssumption, FS_Subset DEF IndInv, TypeOK
    <2> HIDE DEF Locked
    <2> QED
      BY <2>1, SumInt
  <1>3. owed \in Int /\ outside <= Unit * owed
    BY GoneIsOwed
  <1>4. supply * Unit <= Verified
    BY DEF Covered, Required
  <1>5. supply \in Int /\ Unit \in Int
    BY RedemptionAssumption DEF IndInv, TypeOK
  <1>6. BackedByGoods <=> inside >= (supply - owed) * Unit
    BY DEF BackedByGoods, Required
  <1> HIDE DEF inside, outside, owed, Locked
  <1>7. (supply - owed) * Unit = supply * Unit - Unit * owed
    BY <1>3, <1>5
  <1>8. supply * Unit \in Int /\ Unit * owed \in Int
    BY <1>3, <1>5
  <1> QED
    BY <1>1, <1>2, <1>3, <1>4, <1>6, <1>7, <1>8

\* While events are on their way, after timeouts and quarantines and with wrong
\* reports, the goods in the elevator back every token that is not frozen for
\* goods that have left.
THEOREM RedemptionBackedByGoods == Spec => []BackedByGoods
  <1>1. Init => Stock
    <2> SUFFICES ASSUME Init PROVE Stock
      OBVIOUS
    <2>1. Asked = {}
      BY DEF Init, Asked
    <2>2. \A a \in Receipts : position[a] = 0 /\ 0 <= Quantity[a]
      <3>1. \A a \in Receipts : Quantity[a] \in Amounts
        BY RedemptionAssumption
      <3> QED
        BY <3>1, AmountsAreNumbers DEF Init
    <2> QED
      BY <2>1, <2>2 DEF Stock, With
  <1>2. Init => Covered
    <2> SUFFICES ASSUME Init PROVE Covered
      OBVIOUS
    <2>1. \A a \in Receipts : position[a] = 0
      BY DEF Init
    <2>2. Verified = 0
      BY <2>1, SumZero, RedemptionAssumption DEF Verified
    <2> QED
      BY <2>2, RedemptionAssumption DEF Init, Covered, Required
  <1> QED
    BY <1>1, <1>2, StockStep, CoveredStep, BackedByGoodsHolds, TrailInvariant,
       RedemptionInvariant, PTL DEF Spec

=============================================================================
