------------------------------ MODULE Settlement ------------------------------
(***************************************************************************)
(* Delivery versus payment (apps/core/src/settlement/settlement.service.ts) *)
(* between the trades OMS hands over (oms.service.ts, applyTrade) and the   *)
(* nightly check (ops/reconcile-settlements.ts).                            *)
(*                                                                         *)
(* A worker is one call of handleCreatedEvent.  It runs up to three         *)
(* database transactions, fund, executeDvp and markFailed, each under the   *)
(* row lock of the settlement and so one step here; between them the other  *)
(* workers run, the event is delivered again, accounts are opened, and the  *)
(* worker may be interrupted.  SUBMITTED and TECHNICALLY_CONFIRMED exist    *)
(* only inside the transaction of executeDvp.  OMS stores the id and nonce  *)
(* of the only event it sends for a trade in the settlement row, so         *)
(* assertEventMatches passes on every delivery.                             *)
(***************************************************************************)
EXTENDS LedgerPosting

CONSTANTS
    Trades,
    Workers,          \* concurrent deliveries
    Fills,            \* [Trades -> [price, quantity, buyerRate, sellerRate, buyerFee]]
    ClearingCash, ClearingToken,   \* oms_clearing_accounts of the instrument
    FeeAccount, ResidualAccount,   \* settlement_system_accounts of the currency
    SellerCash,       \* [Trades -> AVAILABLE cash account of the seller]
    BuyerToken,       \* [Trades -> AVAILABLE token account of the buyer]
    OpenFromStart,    \* accounts that exist before the first trade
    RowEdits,         \* [Trades -> set of amounts an operator may put into the settlement]
    FeeEdits,         \* [Trades -> set of amounts an operator may put into its fee rows]
    MaxInterrupts     \* bound on errors of the infrastructure and on crashes

Scale == 1000000   \* FEE_SCALE

\* Amounts of a row of settlements, and of the rows of settlement_fees of a trade;
\* a fee row of zero is not written and counts as zero in the sums.
Rows == [cash : Nat, tokens : Nat, buyerFee : Nat, sellerFee : Nat, residual : Nat]
FeeRows == [buyerFee : Nat, buyerResidual : Nat, sellerFee : Nat, sellerResidual : Nat]

\* captureAccounts finds the accounts by currency, instrument and normal side.
\* The buyer's fee of a fill is what is due of the commission on the whole order, so
\* it is any amount.
ASSUME SettlementAssumption ==
    /\ None \notin Trades /\ IsFiniteSet(Trades)
    /\ {ClearingCash, ClearingToken, FeeAccount, ResidualAccount} \subseteq Accounts
    /\ SellerCash \in [Trades -> Accounts] /\ BuyerToken \in [Trades -> Accounts]
    /\ IsInjective(<<ClearingCash, ClearingToken, FeeAccount, ResidualAccount>>)
    /\ Denomination[ClearingCash] # Denomination[ClearingToken]
    /\ \A t \in Trades :
          /\ {SellerCash[t], BuyerToken[t]} \cap
             {ClearingCash, ClearingToken, FeeAccount, ResidualAccount} = {}
          /\ \A a \in {FeeAccount, ResidualAccount, SellerCash[t]} :
                Denomination[a] = Denomination[ClearingCash]
          /\ Denomination[BuyerToken[t]] = Denomination[ClearingToken]
          /\ \A a \in {ClearingCash, ClearingToken, FeeAccount, ResidualAccount,
                        SellerCash[t], BuyerToken[t]} : NormalSide[a] = "DEBIT"
    /\ \A t \in Trades :
          /\ Fills[t].price \in Nat \ {0} /\ Fills[t].quantity \in Nat \ {0}
          /\ Fills[t].buyerRate \in 0..Scale /\ Fills[t].sellerRate \in 0..Scale
          /\ Fills[t].buyerFee \in Nat
          /\ RowEdits[t] \subseteq Rows /\ FeeEdits[t] \subseteq FeeRows
    /\ {ClearingCash, ClearingToken} \subseteq OpenFromStart
    /\ OpenFromStart \subseteq Accounts
    /\ MaxInterrupts \in Nat

VARIABLES
    opened,      \* rows of ledger_accounts
    balance,     \* ledger_accounts.balance
    postings,    \* legs stored under the key settlement:<trade>:dvp
    status,      \* settlements.finality_status; "NONE" before the trade
    failure,     \* settlements.failure_details; None while there is none
    row,         \* amounts of the row of settlements; None before the trade
    fees,        \* rows of settlement_fees; None before the trade
    pc,          \* stage of each worker
    trade,       \* the trade a worker was called for
    error,       \* what the worker caught, for markFailed
    interrupts   \* errors and crashes so far

vars == <<opened, balance, postings, status, failure, row, fees, pc, trade, error, interrupts>>
workers == <<pc, trade, error>>

Stages == {"idle", "fund", "dvp", "answer", "failing"}
Final == {"LEGALLY_FINAL", "RECONCILED", "PENDING_RECONCILIATION", "MANUAL_REPAIR"}
Statuses == {"NONE", "CREATED", "FUNDED", "FAILED_BEFORE_FINALITY"} \cup Final
Errors == {"NOT_CONFIGURED", "NOT_FUNDED", "FEES_INCONSISTENT", "LEDGER_REFUSED",
           "WRONG_STATUS", "INTERRUPTED"}

ASSUME NoneAssumption == None \notin Errors

Init ==
    /\ opened = OpenFromStart
    /\ balance = [a \in Accounts |-> 0]
    /\ postings = [t \in {} |-> None]
    /\ status = [t \in Trades |-> "NONE"]
    /\ failure = [t \in Trades |-> None]
    /\ row = [t \in Trades |-> None]
    /\ fees = [t \in Trades |-> None]
    /\ pc = [w \in Workers |-> "idle"]
    /\ trade = [w \in Workers |-> None]
    /\ error = [w \in Workers |-> None]
    /\ interrupts = 0

------------------------------------------------------------------------------
\* What OMS writes.

\* allocateCommission: a commission is rounded up by one unit of residual.
CommissionFee(notional, rate) == (notional * rate) \div Scale
CommissionResidual(notional, rate) == IF (notional * rate) % Scale = 0 THEN 0 ELSE 1

\* Gross notional of a row of trades.
Notional(t) == Fills[t].price * Fills[t].quantity

\* The buyer pays no more residual than fee.
Charges(t) ==
    LET due == CommissionResidual(Notional(t), Fills[t].buyerRate)
        buyerResidual == IF due > Fills[t].buyerFee THEN Fills[t].buyerFee ELSE due
    IN  [buyerFee |-> Fills[t].buyerFee - buyerResidual,
         buyerResidual |-> buyerResidual,
         sellerFee |-> CommissionFee(Notional(t), Fills[t].sellerRate),
         sellerResidual |-> CommissionResidual(Notional(t), Fills[t].sellerRate)]

Terms(t) ==
    [cash |-> Notional(t),
     tokens |-> Fills[t].quantity,
     buyerFee |-> Fills[t].buyerFee,
     sellerFee |-> Charges(t).sellerFee + Charges(t).sellerResidual,
     residual |-> Charges(t).buyerResidual + Charges(t).sellerResidual]

\* Clearing receives what both sides reserved: gross cash with the buyer's fee,
\* and the tokens.
CommitEffect(t, a) ==
    CASE a = ClearingCash  -> Terms(t).cash + Terms(t).buyerFee
      [] a = ClearingToken -> Terms(t).tokens
      [] OTHER             -> 0

------------------------------------------------------------------------------
\* Legs; r is the row of the settlement.

ExchangeFee(r) == r.buyerFee + r.sellerFee - r.residual
SellerNet(r) == r.cash - r.sellerFee

DvpSides(t) ==
    {<<ClearingCash, "CREDIT">>, <<SellerCash[t], "DEBIT">>, <<FeeAccount, "DEBIT">>,
     <<ResidualAccount, "DEBIT">>, <<ClearingToken, "CREDIT">>, <<BuyerToken[t], "DEBIT">>}

\* All six movements of a trade, the zero ones included.
Movements(t, r) ==
    LET amount(side) ==
            CASE side = <<ClearingCash, "CREDIT">>   -> r.cash + r.buyerFee
              [] side = <<SellerCash[t], "DEBIT">>   -> SellerNet(r)
              [] side = <<FeeAccount, "DEBIT">>      -> ExchangeFee(r)
              [] side = <<ResidualAccount, "DEBIT">> -> r.residual
              [] OTHER                               -> r.tokens
    IN  [side \in DvpSides(t) |-> amount(side)]

\* Seeded fault: the residual leg is pushed even when it is zero.
DvpLegsWithResidual(t, r) ==
    LET m == Movements(t, r)
    IN  Restrict(m, {side \in DvpSides(t) : side = <<FeeAccount, "DEBIT">> => m[side] > 0})

\* The legs executeDvp posts: it leaves out a fee or a residual that is not positive.
DvpLegs(t, r) ==
    LET m == Movements(t, r)
    IN  Restrict(m, {side \in DvpSides(t) :
                        side[1] \in {FeeAccount, ResidualAccount} => m[side] > 0})

\* What delivery versus payment of a trade as OMS wrote it does to an account.
OmsLegs == [t \in Trades |-> DvpLegs(t, Terms(t))]
DvpEffect(t, a) == Effect(OmsLegs[t], a)

\* What the ledger demands of a posting.
LedgerAccepts(legs) ==
    /\ WellFormed(legs)
    /\ BalancedByDenomination(legs)
    /\ Touched(legs) \subseteq opened
    /\ \A a \in Touched(legs) : balance[a] + Effect(legs, a) \in 0..MaxNumeric

------------------------------------------------------------------------------
\* The world around the workers.

OpenAccount(a) ==
    /\ a \notin opened
    /\ opened' = opened \cup {a}
    /\ UNCHANGED <<balance, postings, status, failure, row, fees, workers, interrupts>>

\* applyTrade: the commitments reach clearing in the transaction that inserts
\* the trade, the settlement, its fee rows and its outbox row.
TradeExecuted(t) ==
    /\ status[t] = "NONE"
    /\ \A a \in Accounts : balance[a] + CommitEffect(t, a) <= MaxNumeric
    /\ status' = [status EXCEPT ![t] = "CREATED"]
    /\ row' = [row EXCEPT ![t] = Terms(t)]
    /\ fees' = [fees EXCEPT ![t] = Charges(t)]
    /\ balance' = [a \in Accounts |-> balance[a] + CommitEffect(t, a)]
    /\ UNCHANGED <<opened, postings, failure, workers, interrupts>>

\* The outbox row of the trade reaches the consumer, for the first time or again.
Deliver(w, t) ==
    /\ pc[w] = "idle"
    /\ status[t] # "NONE"
    /\ pc' = [pc EXCEPT ![w] = "fund"]
    /\ trade' = [trade EXCEPT ![w] = t]
    /\ UNCHANGED <<opened, balance, postings, status, failure, row, fees, error, interrupts>>

------------------------------------------------------------------------------
\* A worker's transactions.

Return(w) ==
    /\ pc' = [pc EXCEPT ![w] = "idle"]
    /\ trade' = [trade EXCEPT ![w] = None]
    /\ error' = [error EXCEPT ![w] = None]

\* The transaction rolls back and the catch block of handleCreatedEvent gets e.
Throw(w, e) ==
    /\ pc' = [pc EXCEPT ![w] = "failing"]
    /\ error' = [error EXCEPT ![w] = e]
    /\ UNCHANGED <<opened, balance, postings, status, failure, row, fees, trade>>

SettlementAccounts(t) ==
    {ClearingCash, ClearingToken, FeeAccount, ResidualAccount, SellerCash[t], BuyerToken[t]}

FundRefusal(t) ==
    CASE ~(SettlementAccounts(t) \subseteq opened) -> "NOT_CONFIGURED"
      [] \/ row[t].cash < row[t].sellerFee
         \/ balance[ClearingCash] < row[t].cash + row[t].buyerFee
         \/ balance[ClearingToken] < row[t].tokens -> "NOT_FUNDED"
      [] OTHER -> None

\* fund: CREATED becomes FUNDED once the accounts are found and clearing holds
\* both commitments.
Fund(w) ==
    LET t == trade[w] IN
    /\ pc[w] = "fund"
    /\ status[t] = "CREATED"
    /\ FundRefusal(t) = None
    /\ status' = [status EXCEPT ![t] = "FUNDED"]
    /\ pc' = [pc EXCEPT ![w] = "dvp"]
    /\ UNCHANGED <<opened, balance, postings, failure, row, fees, trade, error, interrupts>>

RefuseFund(w) ==
    LET t == trade[w] IN
    /\ pc[w] = "fund"
    /\ status[t] = "CREATED"
    /\ FundRefusal(t) # None
    /\ Throw(w, FundRefusal(t))
    /\ UNCHANGED interrupts

\* Seeded fault: whatever is no longer CREATED counts as done.
SkipFundAndReturn(w) ==
    /\ pc[w] = "fund"
    /\ status[trade[w]] # "CREATED"
    /\ Return(w)
    /\ UNCHANGED <<opened, balance, postings, status, failure, row, fees, interrupts>>

\* fund finds the work done by another delivery: go on to executeDvp if the
\* settlement is FUNDED, answer if it is over.
SkipFund(w) ==
    LET t == trade[w] IN
    /\ pc[w] = "fund"
    /\ status[t] # "CREATED"
    /\ IF status[t] = "FUNDED"
       THEN pc' = [pc EXCEPT ![w] = "dvp"] /\ UNCHANGED <<trade, error>>
       ELSE Return(w)
    /\ UNCHANGED <<opened, balance, postings, status, failure, row, fees, interrupts>>

DvpRefusal(t) ==
    CASE ExchangeFee(row[t]) < 0 \/ SellerNet(row[t]) < 0 -> "FEES_INCONSISTENT"
      [] ~LedgerAccepts(DvpLegs(t, row[t])) -> "LEDGER_REFUSED"
      [] OTHER -> None

\* Seeded fault: the ledger posts in a transaction of its own, which commits
\* before the status changes.
DvpInTwoTransactions(w) ==
    LET t == trade[w] IN
    /\ pc[w] = "dvp"
    /\ status[t] = "FUNDED"
    /\ IF t \in DOMAIN postings
       THEN /\ status' = [status EXCEPT ![t] = "LEGALLY_FINAL"]
            /\ pc' = [pc EXCEPT ![w] = "answer"]
            /\ UNCHANGED <<postings, balance>>
       ELSE /\ DvpRefusal(t) = None
            /\ postings' = [u \in DOMAIN postings \cup {t} |->
                                IF u = t THEN DvpLegs(t, row[t]) ELSE postings[u]]
            /\ balance' = [a \in Accounts |-> balance[a] + Effect(DvpLegs(t, row[t]), a)]
            /\ UNCHANGED <<status, pc>>
    /\ UNCHANGED <<opened, failure, row, fees, trade, error, interrupts>>

\* executeDvp: the posting and the way from FUNDED to LEGALLY_FINAL commit
\* together.
Dvp(w) ==
    LET t == trade[w] IN
    /\ pc[w] = "dvp"
    /\ status[t] = "FUNDED"
    /\ DvpRefusal(t) = None
    /\ IF t \in DOMAIN postings
       THEN UNCHANGED <<postings, balance>>
       ELSE /\ postings' = [u \in DOMAIN postings \cup {t} |->
                                IF u = t THEN DvpLegs(t, row[t]) ELSE postings[u]]
            /\ balance' = [a \in Accounts |-> balance[a] + Effect(DvpLegs(t, row[t]), a)]
    /\ status' = [status EXCEPT ![t] = "LEGALLY_FINAL"]
    /\ pc' = [pc EXCEPT ![w] = "answer"]
    /\ UNCHANGED <<opened, failure, row, fees, trade, error, interrupts>>

RefuseDvp(w) ==
    LET t == trade[w] IN
    /\ pc[w] = "dvp"
    /\ status[t] = "FUNDED" => DvpRefusal(t) # None
    /\ status[t] \notin Final
    /\ Throw(w, IF status[t] = "FUNDED" THEN DvpRefusal(t) ELSE "WRONG_STATUS")
    /\ UNCHANGED interrupts

\* executeDvp finds the settlement final: the answer is a replay.
SkipDvp(w) ==
    /\ pc[w] = "dvp"
    /\ status[trade[w]] \in Final
    /\ Return(w)
    /\ UNCHANGED <<opened, balance, postings, status, failure, row, fees, interrupts>>

Answer(w) ==
    /\ pc[w] = "answer"
    /\ Return(w)
    /\ UNCHANGED <<opened, balance, postings, status, failure, row, fees, interrupts>>

\* Seeded fault: markFailed trusts that the settlement is not final.
MarkFailedUnchecked(w) ==
    LET t == trade[w] IN
    /\ pc[w] = "failing"
    /\ status' = [status EXCEPT ![t] = "FAILED_BEFORE_FINALITY"]
    /\ failure' = [failure EXCEPT ![t] = error[w]]
    /\ Return(w)
    /\ UNCHANGED <<opened, balance, postings, row, fees, interrupts>>

\* markFailed: a settlement that has gone on to finality meanwhile, or failed
\* already, is left as it is.
MarkFailed(w) ==
    LET t == trade[w] IN
    /\ pc[w] = "failing"
    /\ IF status[t] \in {"CREATED", "FUNDED"}
       THEN /\ status' = [status EXCEPT ![t] = "FAILED_BEFORE_FINALITY"]
            /\ failure' = [failure EXCEPT ![t] = error[w]]
       ELSE UNCHANGED <<status, failure>>
    /\ Return(w)
    /\ UNCHANGED <<opened, balance, postings, row, fees, interrupts>>

\* An error of the infrastructure: a broken connection, a timeout, a deadlock
\* victim.  It reaches the catch block even when the transaction did commit and
\* only the reply to COMMIT was lost.
Interrupt(w) ==
    /\ pc[w] \in {"fund", "dvp", "answer"}
    /\ interrupts < MaxInterrupts
    /\ interrupts' = interrupts + 1
    /\ Throw(w, "INTERRUPTED")

\* The process dies, or markFailed itself throws: the delivery is given up.
Crash(w) ==
    /\ pc[w] # "idle"
    /\ interrupts < MaxInterrupts
    /\ interrupts' = interrupts + 1
    /\ Return(w)
    /\ UNCHANGED <<opened, balance, postings, status, failure, row, fees>>

------------------------------------------------------------------------------
\* Reconciliation.

\* The entries the check expects of a row, one for each of six accounts.
Expected(t, r) ==
    [side \in DvpSides(t) |->
        CASE side = <<ClearingCash, "CREDIT">>   -> r.cash + r.buyerFee
          [] side = <<SellerCash[t], "DEBIT">>   -> r.cash - r.sellerFee
          [] side = <<FeeAccount, "DEBIT">>      -> r.buyerFee + r.sellerFee - r.residual
          [] side = <<ResidualAccount, "DEBIT">> -> r.residual
          [] side = <<ClearingToken, "CREDIT">>  -> r.tokens
          [] side = <<BuyerToken[t], "DEBIT">>   -> r.tokens]

\* Seeded fault: the zero amounts stay in the expected map.
ExpectedLegsWithZeros(t, r) == Expected(t, r)

\* The amounts of zero are dropped.
ExpectedLegs(t, r) ==
    LET x == Expected(t, r) IN Restrict(x, {side \in DvpSides(t) : x[side] # 0})

\* The sums the check makes of the fee rows.
FeeSums(f) ==
    [fee |-> f.buyerFee + f.sellerFee,
     residual |-> f.buyerResidual + f.sellerResidual,
     total |-> f.buyerFee + f.sellerFee + f.buyerResidual + f.sellerResidual]

FeesAgree(r, f) ==
    /\ r.buyerFee + r.sellerFee >= r.residual
    /\ FeeSums(f).fee = r.buyerFee + r.sellerFee - r.residual
    /\ FeeSums(f).residual = r.residual
    /\ FeeSums(f).total = r.buyerFee + r.sellerFee

\* checkCandidate: the row against the trade, the fee rows and the posting.  A final
\* settlement has its posting and the accounts that fund captured.
Clean(t) ==
    /\ t \in DOMAIN postings
    /\ row[t].cash = Fills[t].price * Fills[t].quantity
    /\ row[t].tokens = Fills[t].quantity
    /\ FeesAgree(row[t], fees[t])
    /\ postings[t] = ExpectedLegs(t, row[t])

\* An operator changes amounts of a final settlement by SQL, or puts them back; the
\* trigger guards only its status, timestamp and posting, and nothing guards the fee
\* rows.
Edit(t) ==
    /\ status[t] \in Final
    /\ \/ /\ \E r \in RowEdits[t] : row' = [row EXCEPT ![t] = r]
          /\ UNCHANGED fees
       \/ /\ \E f \in FeeEdits[t] : fees' = [fees EXCEPT ![t] = f]
          /\ UNCHANGED row
    /\ UNCHANGED <<opened, balance, postings, status, failure, workers, interrupts>>

\* One run of reconcileSettlements, a single REPEATABLE READ transaction.
Reconcile ==
    /\ \E t \in Trades : status[t] = "LEGALLY_FINAL"
    /\ status' = [t \in Trades |->
          IF status[t] # "LEGALLY_FINAL" THEN status[t]
          ELSE IF Clean(t) THEN "RECONCILED" ELSE "PENDING_RECONCILIATION"]
    /\ UNCHANGED <<opened, balance, postings, failure, row, fees, workers, interrupts>>

------------------------------------------------------------------------------
Work(w) ==
    \/ Fund(w) \/ RefuseFund(w) \/ SkipFund(w)
    \/ Dvp(w) \/ RefuseDvp(w) \/ SkipDvp(w)
    \/ Answer(w) \/ MarkFailed(w)

Next ==
    \/ \E a \in Accounts : OpenAccount(a)
    \/ \E t \in Trades : TradeExecuted(t) \/ Edit(t)
    \/ \E w \in Workers, t \in Trades : Deliver(w, t)
    \/ \E w \in Workers : Work(w) \/ Interrupt(w) \/ Crash(w)
    \/ Reconcile

Spec == Init /\ [][Next]_vars

\* Workers go on unless interrupted, and the relay of the outbox, which is not
\* in the repository, offers every row again and again.
Fairness ==
    /\ \A w \in Workers : WF_vars(Work(w))
    /\ \A t \in Trades : SF_vars(\E w \in Workers : Deliver(w, t))
FairSpec == Spec /\ Fairness

------------------------------------------------------------------------------
\* Properties.

\* Type invariant.
TypeOK ==
    /\ opened \subseteq Accounts
    /\ balance \in [Accounts -> 0..MaxNumeric]
    /\ DOMAIN postings \subseteq Trades
    /\ status \in [Trades -> Statuses]
    /\ failure \in [Trades -> Errors \cup {None}]
    /\ row \in [Trades -> Rows \cup {None}]
    /\ fees \in [Trades -> FeeRows \cup {None}]
    /\ pc \in [Workers -> Stages]
    /\ trade \in [Workers -> Trades \cup {None}]
    /\ error \in [Workers -> Errors \cup {None}]
    /\ interrupts \in 0..MaxInterrupts

\* Every balance is what the trades say it is: their commitments, and delivery
\* versus payment of the final ones, once each.  A failed trade leaves its
\* commitments in clearing and no other trade settles with them.
BalancesFollowFinality ==
    \A a \in Accounts :
        balance[a] = SumFunction([t \in Trades |->
            (IF status[t] = "NONE" THEN 0 ELSE CommitEffect(t, a)) +
            (IF status[t] \in Final THEN DvpEffect(t, a) ELSE 0)])

\* The posting exists exactly if the settlement is final, whatever was
\* interrupted, repeated or run at the same time.
PostedExactlyWhenFinal ==
    \A t \in Trades : t \in DOMAIN postings <=> status[t] \in Final

\* README.md of settlement: nothing returns a final settlement to a status before
\* finality.  A failed one stays failed as well; the late error of one delivery
\* cannot undo what another one did.
FinalityIrrevocable ==
    [][\A t \in Trades :
          /\ status[t] \in Final => status'[t] \in Final
          /\ status[t] = "FAILED_BEFORE_FINALITY" => status'[t] = status[t]]_vars

\* A trade that OMS committed fails only for an account that is missing when its
\* event arrives or for an error of the infrastructure: never because the ledger
\* or the funding check refuses what OMS calculated, and never because another
\* delivery or another trade got in between.
FailureHasCause ==
    \A t \in Trades :
        status[t] = "FAILED_BEFORE_FINALITY" => failure[t] \in {"NOT_CONFIGURED", "INTERRUPTED"}

\* The nightly check tells right from wrong: a settlement becomes RECONCILED exactly
\* if its row and the sums of its fee rows are what OMS calculated for the trade, after
\* any history of deliveries, edits and edits put back.  No set of changed amounts
\* makes up for another, and no correct settlement is set aside.
AsCalculated(t) == row[t] = Terms(t) /\ FeeSums(fees[t]) = FeeSums(Charges(t))
VerdictIsRight ==
    [][\A t \in Trades :
          status[t] = "LEGALLY_FINAL" /\ status'[t] # status[t] =>
             (status'[t] = "RECONCILED" <=> AsCalculated(t))]_vars

\* Every trade is settled or failed in the end: no crash, lost answer or
\* overtaken delivery leaves it CREATED or FUNDED for ever.
EveryTradeIsDecided ==
    \A t \in Trades :
        status[t] = "CREATED" ~> status[t] \in Final \cup {"FAILED_BEFORE_FINALITY"}

\* Refinement: AtomicDvp sees a trade before, during and after its decision.
phaseOf(s) ==
    CASE s = "NONE" -> "none"
      [] s \in {"CREATED", "FUNDED"} -> "open"
      [] s = "FAILED_BEFORE_FINALITY" -> "failed"
      [] OTHER -> "settled"
Atomic == INSTANCE AtomicDvp WITH phase <- [t \in Trades |-> phaseOf(status[t])]
ImplementsAtomicDvp == Atomic!Spec
=============================================================================
