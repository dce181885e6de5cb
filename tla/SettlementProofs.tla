--------------------------- MODULE SettlementProofs ---------------------------
(***************************************************************************)
(* Proofs about Settlement for any number of trades, workers and            *)
(* interruptions and for any terms: what holds whatever the ledger accepts, *)
(* then the balances, and last why the ledger accepts what OMS committed.   *)
(***************************************************************************)
EXTENDS Settlement, SumTheorems

\* What the stage of a worker says about its trade.
WorkersAreSound ==
    \A w \in Workers :
        /\ pc[w] # "idle" => trade[w] \in Trades /\ status[trade[w]] # "NONE"
        /\ pc[w] = "answer" => status[trade[w]] \in Final
        /\ pc[w] = "failing" => error[w] \in Errors

\* A settlement has its amounts from OMS on, and before finality they are those OMS wrote.
RowsAreSound ==
    \A t \in Trades :
        /\ status[t] # "NONE" => row[t] \in Rows /\ fees[t] \in FeeRows
        /\ status[t] \in {"CREATED", "FUNDED"} => row[t] = Terms(t) /\ fees[t] = Charges(t)

IndInv == TypeOK /\ PostedExactlyWhenFinal /\ WorkersAreSound /\ RowsAreSound

USE DEF Stages, Final, Statuses, Errors

------------------------------------------------------------------------------
\* Operators.

\* A posting has no effect on an account it does not name.
LEMMA UntouchedUnchanged ==
    ASSUME NEW legs, NEW a \in Accounts, a \notin Touched(legs)
    PROVE  Effect(legs, a) = 0
  <1>1. \A d \in Directions : <<a, d>> \notin DOMAIN legs
    BY DEF Touched
  <1>2. AmountOn(legs, a, "DEBIT") = 0 /\ AmountOn(legs, a, "CREDIT") = 0
    BY <1>1 DEF AmountOn, Directions
  <1> QED
    BY <1>2 DEF Effect

\* A posting that the ledger accepts keeps every balance inside its column.
LEMMA AcceptedKeepsBalances ==
    ASSUME NEW legs, TypeOK, LedgerAccepts(legs)
    PROVE  \A a \in Accounts : balance[a] + Effect(legs, a) \in 0..MaxNumeric
  <1> SUFFICES ASSUME NEW a \in Accounts
               PROVE  balance[a] + Effect(legs, a) \in 0..MaxNumeric
    OBVIOUS
  <1>1. CASE a \in Touched(legs)
    BY <1>1 DEF LedgerAccepts
  <1>2. CASE a \notin Touched(legs)
    BY <1>2, UntouchedUnchanged, AccountsAssumption DEF TypeOK
  <1> QED
    BY <1>1, <1>2

LEMMA ScaleIsPositive == Scale \in Nat \ {0}
  BY SMT DEF Scale

\* A commission splits into whole numbers.
LEMMA CommissionIsWhole ==
    ASSUME NEW n \in Nat, NEW rate \in Nat
    PROVE  CommissionFee(n, rate) \in Nat /\ CommissionResidual(n, rate) \in {0, 1}
  <1> DEFINE x == n * rate
  <1>1. x \in Nat
    OBVIOUS
  <1> HIDE DEF x
  <1>2. x \div Scale \in Nat
    BY <1>1, SMT DEF Scale
  <1> QED
    BY <1>2 DEF CommissionFee, CommissionResidual, x

\* What OMS writes about a trade is whole, and the residual is part of the fees.
LEMMA TermsAreWhole ==
    ASSUME NEW t \in Trades
    PROVE  /\ Terms(t) \in Rows /\ Charges(t) \in FeeRows
           /\ Terms(t).cash = Notional(t) /\ Notional(t) \in Nat
           /\ Terms(t).tokens \in Nat \ {0}
           /\ Terms(t).buyerFee = Charges(t).buyerFee + Charges(t).buyerResidual
           /\ Terms(t).sellerFee = Charges(t).sellerFee + Charges(t).sellerResidual
           /\ Terms(t).residual = Charges(t).buyerResidual + Charges(t).sellerResidual
           /\ ExchangeFee(Terms(t)) \in Nat
  <1> DEFINE f == Fills[t]
             due == CommissionResidual(Notional(t), f.buyerRate)
             x == IF due > f.buyerFee THEN f.buyerFee ELSE due
             y == CommissionFee(Notional(t), f.sellerRate)
             z == CommissionResidual(Notional(t), f.sellerRate)
  <1>1. /\ Notional(t) \in Nat /\ f.quantity \in Nat \ {0} /\ f.buyerFee \in Nat
        /\ f.buyerRate \in Nat /\ f.sellerRate \in Nat
    BY SettlementAssumption, ScaleIsPositive, SMT DEF Notional
  <1>2. due \in {0, 1} /\ y \in Nat /\ z \in {0, 1}
    BY <1>1, CommissionIsWhole
  <1>3. x \in Nat /\ f.buyerFee - x \in Nat
    BY <1>1, <1>2
  <1>4. Charges(t) = [buyerFee |-> f.buyerFee - x, buyerResidual |-> x,
                      sellerFee |-> y, sellerResidual |-> z]
    BY DEF Charges
  <1>5. Terms(t) = [cash |-> Notional(t), tokens |-> f.quantity, buyerFee |-> f.buyerFee,
                    sellerFee |-> Charges(t).sellerFee + Charges(t).sellerResidual,
                    residual |-> Charges(t).buyerResidual + Charges(t).sellerResidual]
    BY DEF Terms
  <1> HIDE DEF f, due, x, y, z
  <1>6. Charges(t) \in FeeRows
    BY <1>2, <1>3, <1>4 DEF FeeRows
  <1>7. /\ Charges(t).buyerFee = f.buyerFee - x /\ Charges(t).buyerResidual = x
        /\ Charges(t).sellerFee = y /\ Charges(t).sellerResidual = z
    BY <1>4
  <1>8. Terms(t) \in Rows
    BY <1>1, <1>2, <1>3, <1>5, <1>7 DEF Rows
  <1>9. /\ Terms(t).cash = Notional(t) /\ Terms(t).tokens = f.quantity
        /\ Terms(t).buyerFee = f.buyerFee /\ Terms(t).sellerFee = y + z
        /\ Terms(t).residual = x + z
    BY <1>5, <1>7
  <1>10. ExchangeFee(Terms(t)) = (f.buyerFee - x) + y
    BY <1>1, <1>2, <1>3, <1>9 DEF ExchangeFee
  <1> QED
    BY <1>1, <1>2, <1>3, <1>6, <1>7, <1>8, <1>9, <1>10

\* What OMS commits to clearing is never negative.
LEMMA CommitEffectIsNat ==
    ASSUME NEW t \in Trades, NEW a \in Accounts
    PROVE  CommitEffect(t, a) \in Nat
  BY TermsAreWhole DEF CommitEffect, Rows

\* The reasons for a refusal are among the errors a worker can carry.
LEMMA RefusalsAreErrors ==
    ASSUME NEW t \in Trades
    PROVE  /\ FundRefusal(t) # None => FundRefusal(t) \in Errors
           /\ DvpRefusal(t) # None => DvpRefusal(t) \in Errors
           /\ DvpRefusal(t) = None => LedgerAccepts(DvpLegs(t, row[t]))
  BY NoneAssumption DEF FundRefusal, DvpRefusal

------------------------------------------------------------------------------
\* The inductive invariant.

\* The first state satisfies every part.
LEMMA InitInv == Init => IndInv
  BY SettlementAssumption, AccountsAssumption
     DEF Init, IndInv, TypeOK, PostedExactlyWhenFinal, WorkersAreSound, RowsAreSound

\* Steps that leave every settlement and the tables alone.
LEMMA ReturnInv ==
    ASSUME IndInv, NEW w \in Workers, Return(w),
           UNCHANGED <<opened, balance, postings, status, failure, row, fees>>,
           interrupts' \in 0..MaxInterrupts
    PROVE  IndInv'
  <1>1. TypeOK'
    BY DEF IndInv, TypeOK, Return
  <1>2. PostedExactlyWhenFinal'
    BY DEF IndInv, PostedExactlyWhenFinal
  <1>3. WorkersAreSound'
    BY DEF IndInv, TypeOK, WorkersAreSound, Return
  <1>4. RowsAreSound'
    BY DEF IndInv, RowsAreSound
  <1> QED
    BY <1>1, <1>2, <1>3, <1>4 DEF IndInv

\* A transaction that throws leaves the settlements and the tables alone.
LEMMA ThrowInv ==
    ASSUME IndInv, NEW w \in Workers, NEW e \in Errors, pc[w] # "idle", Throw(w, e),
           interrupts' \in 0..MaxInterrupts
    PROVE  IndInv'
  <1>1. TypeOK'
    BY DEF IndInv, TypeOK, Throw
  <1>2. PostedExactlyWhenFinal'
    BY DEF IndInv, PostedExactlyWhenFinal, Throw
  <1>3. WorkersAreSound'
    BY DEF IndInv, TypeOK, WorkersAreSound, Throw
  <1>4. RowsAreSound'
    BY DEF IndInv, RowsAreSound, Throw
  <1> QED
    BY <1>1, <1>2, <1>3, <1>4 DEF IndInv

\* executeDvp: posting and finality come in one commit, and the ledger keeps the
\* balances in their column.
LEMMA DvpInv ==
    ASSUME IndInv, NEW w \in Workers, Dvp(w)
    PROVE  IndInv'
  <1> DEFINE t == trade[w]
  <1>1. t \in Trades /\ t \notin DOMAIN postings
    BY DEF Dvp, IndInv, WorkersAreSound, PostedExactlyWhenFinal
  <1>2. /\ DOMAIN postings' = DOMAIN postings \cup {t}
        /\ balance' = [a \in Accounts |-> balance[a] + Effect(DvpLegs(t, row[t]), a)]
        /\ status' = [status EXCEPT ![t] = "LEGALLY_FINAL"]
        /\ pc' = [pc EXCEPT ![w] = "answer"]
        /\ UNCHANGED <<opened, failure, row, fees, trade, error, interrupts>>
    BY <1>1 DEF Dvp
  <1>3. \A a \in Accounts : balance'[a] \in 0..MaxNumeric
    <2>1. LedgerAccepts(DvpLegs(t, row[t]))
      BY <1>1, RefusalsAreErrors DEF Dvp
    <2> QED
      BY <1>2, <2>1, AcceptedKeepsBalances DEF IndInv
  <1>4. TypeOK'
    BY <1>1, <1>2, <1>3 DEF IndInv, TypeOK
  <1>5. PostedExactlyWhenFinal'
    BY <1>1, <1>2 DEF IndInv, TypeOK, PostedExactlyWhenFinal
  <1>6. WorkersAreSound'
    BY <1>1, <1>2 DEF IndInv, TypeOK, WorkersAreSound
  <1>7. RowsAreSound'
    BY <1>1, <1>2 DEF IndInv, TypeOK, RowsAreSound, Dvp
  <1> QED
    BY <1>4, <1>5, <1>6, <1>7 DEF IndInv

\* What it posts is what OMS calculated.
LEMMA DvpPostsTerms ==
    ASSUME IndInv, NEW w \in Workers, Dvp(w)
    PROVE  /\ row[trade[w]] = Terms(trade[w])
           /\ balance' = [a \in Accounts |-> balance[a] + DvpEffect(trade[w], a)]
  <1> DEFINE t == trade[w]
  <1>1. t \in Trades /\ t \notin DOMAIN postings /\ row[t] = Terms(t)
    BY DEF Dvp, IndInv, WorkersAreSound, PostedExactlyWhenFinal, RowsAreSound
  <1>2. balance' = [a \in Accounts |-> balance[a] + Effect(DvpLegs(t, row[t]), a)]
    BY <1>1 DEF Dvp
  <1>3. OmsLegs[t] = DvpLegs(t, row[t])
    BY <1>1 DEF OmsLegs
  <1> QED
    BY <1>1, <1>2, <1>3 DEF DvpEffect

\* Every step of a delivery keeps the invariant.
LEMMA WorkInv ==
    ASSUME IndInv, NEW w \in Workers, Work(w)
    PROVE  IndInv'
  <1>0. interrupts \in 0..MaxInterrupts
    BY DEF IndInv, TypeOK
  <1>1. CASE Fund(w)
    <2>1. trade[w] \in Trades
      BY <1>1 DEF Fund, IndInv, WorkersAreSound
    <2>2. TypeOK'
      BY <1>1, <2>1 DEF Fund, IndInv, TypeOK
    <2>3. PostedExactlyWhenFinal'
      BY <1>1, <2>1 DEF Fund, IndInv, TypeOK, PostedExactlyWhenFinal
    <2>4. WorkersAreSound'
      BY <1>1, <2>1 DEF Fund, IndInv, TypeOK, WorkersAreSound
    <2>5. RowsAreSound'
      BY <1>1, <2>1 DEF Fund, IndInv, TypeOK, RowsAreSound
    <2> QED
      BY <2>2, <2>3, <2>4, <2>5 DEF IndInv
  <1>2. CASE RefuseFund(w)
    <2>1. trade[w] \in Trades
      BY <1>2 DEF RefuseFund, IndInv, WorkersAreSound
    <2> QED
      BY <1>0, <1>2, <2>1, RefusalsAreErrors, ThrowInv DEF RefuseFund
  <1>3. CASE SkipFund(w)
    <2>1. CASE status[trade[w]] = "FUNDED"
      <3>1. TypeOK'
        BY <1>3, <2>1 DEF SkipFund, IndInv, TypeOK
      <3>2. PostedExactlyWhenFinal'
        BY <1>3 DEF SkipFund, IndInv, PostedExactlyWhenFinal
      <3>3. WorkersAreSound'
        BY <1>3, <2>1 DEF SkipFund, IndInv, TypeOK, WorkersAreSound
      <3>4. RowsAreSound'
        BY <1>3 DEF SkipFund, IndInv, RowsAreSound
      <3> QED
        BY <3>1, <3>2, <3>3, <3>4 DEF IndInv
    <2>2. CASE status[trade[w]] # "FUNDED"
      BY <1>0, <1>3, <2>2, ReturnInv DEF SkipFund
    <2> QED
      BY <2>1, <2>2
  <1>4. CASE Dvp(w)
    BY <1>4, DvpInv
  <1>5. CASE RefuseDvp(w)
    <2>1. trade[w] \in Trades
      BY <1>5 DEF RefuseDvp, IndInv, WorkersAreSound
    <2>2. PICK e \in Errors : Throw(w, e)
      BY <1>5, <2>1, RefusalsAreErrors DEF RefuseDvp
    <2> QED
      BY <1>0, <1>5, <2>2, ThrowInv DEF RefuseDvp
  <1>6. CASE SkipDvp(w) \/ Answer(w)
    BY <1>0, <1>6, ReturnInv DEF SkipDvp, Answer
  <1>7. CASE MarkFailed(w)
    <2>1. trade[w] \in Trades /\ error[w] \in Errors
      BY <1>7 DEF MarkFailed, IndInv, WorkersAreSound
    <2>2. TypeOK'
      BY <1>7, <2>1 DEF MarkFailed, Return, IndInv, TypeOK
    <2>3. PostedExactlyWhenFinal'
      BY <1>7, <2>1 DEF MarkFailed, IndInv, TypeOK, PostedExactlyWhenFinal
    <2>4. WorkersAreSound'
      BY <1>7, <2>1 DEF MarkFailed, Return, IndInv, TypeOK, WorkersAreSound
    <2>5. RowsAreSound'
      BY <1>7, <2>1 DEF MarkFailed, IndInv, TypeOK, RowsAreSound
    <2> QED
      BY <2>2, <2>3, <2>4, <2>5 DEF IndInv
  <1> QED
    BY <1>1, <1>2, <1>3, <1>4, <1>5, <1>6, <1>7 DEF Work

\* Every step of settlement, of OMS and of the nightly check keeps the invariant.
LEMMA NextInv == IndInv /\ [Next]_vars => IndInv'
  <1> SUFFICES ASSUME IndInv, [Next]_vars PROVE IndInv'
    OBVIOUS
  <1>1. CASE UNCHANGED vars
    BY <1>1 DEF vars, IndInv, TypeOK, PostedExactlyWhenFinal, WorkersAreSound, RowsAreSound
  <1>2. ASSUME NEW a \in Accounts, OpenAccount(a) PROVE IndInv'
    BY <1>2 DEF OpenAccount, workers, IndInv, TypeOK, PostedExactlyWhenFinal, WorkersAreSound,
                RowsAreSound
  <1>3. ASSUME NEW t \in Trades, TradeExecuted(t) PROVE IndInv'
    <2>1. \A a \in Accounts : balance'[a] \in 0..MaxNumeric
      BY <1>3, CommitEffectIsNat, AccountsAssumption DEF TradeExecuted, IndInv, TypeOK
    <2>2. TypeOK'
      BY <1>3, <2>1, TermsAreWhole DEF TradeExecuted, workers, IndInv, TypeOK
    <2>3. PostedExactlyWhenFinal' /\ WorkersAreSound'
      BY <1>3 DEF TradeExecuted, workers, IndInv, TypeOK, PostedExactlyWhenFinal,
                  WorkersAreSound
    <2>4. RowsAreSound'
      BY <1>3, TermsAreWhole DEF TradeExecuted, IndInv, TypeOK, RowsAreSound
    <2> QED
      BY <2>2, <2>3, <2>4 DEF IndInv
  <1>4. ASSUME NEW t \in Trades, Edit(t) PROVE IndInv'
    <2>1. RowEdits[t] \subseteq Rows /\ FeeEdits[t] \subseteq FeeRows
      BY SettlementAssumption
    <2>2. TypeOK'
      BY <1>4, <2>1 DEF Edit, workers, IndInv, TypeOK
    <2>3. PostedExactlyWhenFinal' /\ WorkersAreSound'
      BY <1>4 DEF Edit, workers, IndInv, PostedExactlyWhenFinal, WorkersAreSound
    <2>4. RowsAreSound'
      BY <1>4, <2>1 DEF Edit, IndInv, TypeOK, RowsAreSound
    <2> QED
      BY <2>2, <2>3, <2>4 DEF IndInv
  <1>5. ASSUME NEW w \in Workers, NEW t \in Trades, Deliver(w, t) PROVE IndInv'
    BY <1>5 DEF Deliver, IndInv, TypeOK, PostedExactlyWhenFinal, WorkersAreSound, RowsAreSound
  <1>6. ASSUME NEW w \in Workers, Work(w) PROVE IndInv'
    BY <1>6, WorkInv
  <1>7. ASSUME NEW w \in Workers, Interrupt(w) PROVE IndInv'
    <2>1. pc[w] # "idle" /\ interrupts' \in 0..MaxInterrupts
      BY <1>7, SettlementAssumption DEF Interrupt, IndInv, TypeOK
    <2> QED
      BY <1>7, <2>1, ThrowInv DEF Interrupt
  <1>8. ASSUME NEW w \in Workers, Crash(w) PROVE IndInv'
    <2>1. interrupts' \in 0..MaxInterrupts
      BY <1>8, SettlementAssumption DEF Crash, IndInv, TypeOK
    <2> QED
      BY <1>8, <2>1, ReturnInv DEF Crash
  <1>9. CASE Reconcile
    <2>1. TypeOK'
      BY <1>9 DEF Reconcile, workers, IndInv, TypeOK
    <2>2. \A t \in Trades : status'[t] \in Final <=> status[t] \in Final
      BY <1>9 DEF Reconcile, IndInv, TypeOK
    <2>3. \A t \in Trades : status'[t] = "NONE" <=> status[t] = "NONE"
      BY <1>9 DEF Reconcile, IndInv, TypeOK
    <2>4. PostedExactlyWhenFinal'
      BY <1>9, <2>2 DEF Reconcile, IndInv, PostedExactlyWhenFinal
    <2>5. WorkersAreSound'
      BY <1>9, <2>2, <2>3 DEF Reconcile, workers, IndInv, WorkersAreSound
    <2>6. RowsAreSound'
      BY <1>9, <2>3 DEF Reconcile, IndInv, RowsAreSound
    <2> QED
      BY <2>1, <2>4, <2>5, <2>6 DEF IndInv
  <1> QED
    BY <1>1, <1>2, <1>3, <1>4, <1>5, <1>6, <1>7, <1>8, <1>9 DEF Next

\* IndInv is an invariant of settlement.
THEOREM SettlementInvariant == Spec => []IndInv
  <1> QED
    BY InitInv, NextInv, PTL DEF Spec

\* No account goes below zero, and each variable stays in its type.
THEOREM SettlementTypeOK == Spec => []TypeOK
  <1>1. IndInv => TypeOK
    BY DEF IndInv
  <1> QED
    BY <1>1, SettlementInvariant, PTL

\* Ledger posting and legal finality come together or not at all, for any number
\* of deliveries, errors and crashes.
THEOREM SettlementPosted == Spec => []PostedExactlyWhenFinal
  <1>1. IndInv => PostedExactlyWhenFinal
    BY DEF IndInv
  <1> QED
    BY <1>1, SettlementInvariant, PTL

------------------------------------------------------------------------------
\* What one step may do to the status of a trade.

Irrevocable(t) ==
    /\ status[t] \in Final => status'[t] \in Final
    /\ status[t] = "FAILED_BEFORE_FINALITY" => status'[t] = status[t]

\* No step takes a settlement out of finality or out of failure.
LEMMA StepIsIrrevocable ==
    IndInv /\ [Next]_vars => \A t \in Trades : Irrevocable(t)
  <1> SUFFICES ASSUME IndInv, [Next]_vars, NEW t \in Trades PROVE Irrevocable(t)
    OBVIOUS
  <1>1. CASE UNCHANGED status
    BY <1>1 DEF Irrevocable
  <1>2. CASE Reconcile
    BY <1>2 DEF Reconcile, Irrevocable, IndInv, TypeOK
  <1>3. CASE \E u \in Trades : TradeExecuted(u)
    BY <1>3 DEF TradeExecuted, Irrevocable, IndInv, TypeOK
  <1>4. ASSUME NEW w \in Workers, Work(w) PROVE Irrevocable(t)
    <2>1. pc[w] # "idle" => trade[w] \in Trades
      BY DEF IndInv, WorkersAreSound
    <2>2. CASE Fund(w) \/ Dvp(w)
      BY <2>1, <2>2 DEF Fund, Dvp, Irrevocable, IndInv, TypeOK
    <2>3. CASE MarkFailed(w)
      BY <2>1, <2>3 DEF MarkFailed, Irrevocable, IndInv, TypeOK
    <2>4. CASE RefuseFund(w) \/ SkipFund(w) \/ RefuseDvp(w) \/ SkipDvp(w) \/ Answer(w)
      BY <1>1, <2>4 DEF RefuseFund, SkipFund, RefuseDvp, SkipDvp, Answer, Throw
    <2> QED
      BY <1>4, <2>2, <2>3, <2>4 DEF Work
  <1> QED
    BY <1>1, <1>2, <1>3, <1>4
       DEF Next, OpenAccount, Edit, Deliver, Interrupt, Crash, Throw, vars

\* A late error never takes back a finality that another delivery reached.
THEOREM SettlementIrrevocable == Spec => FinalityIrrevocable
  <1>1. IndInv /\ [Next]_vars =>
          [\A t \in Trades :
              /\ status[t] \in Final => status'[t] \in Final
              /\ status[t] = "FAILED_BEFORE_FINALITY" => status'[t] = status[t]]_vars
    BY StepIsIrrevocable DEF Irrevocable
  <1> QED
    BY <1>1, SettlementInvariant, PTL DEF Spec, FinalityIrrevocable

------------------------------------------------------------------------------
\* Refinement.

phase == [t \in Trades |-> phaseOf(status[t])]

\* A step that changes one status changes one phase.
LEMMA OnePhaseMoves ==
    ASSUME IndInv, NEW t \in Trades, NEW s \in Statuses,
           status' = [status EXCEPT ![t] = s]
    PROVE  phase' = [phase EXCEPT ![t] = phaseOf(s)]
  BY DEF IndInv, TypeOK, phase

\* Each step is a commitment, a decision or a failure of AtomicDvp, or leaves
\* phases and balances alone.
LEMMA StepRefines == IndInv /\ [Next]_vars => [Atomic!Next]_(Atomic!vars)
  <1> SUFFICES ASSUME IndInv, [Next]_vars
               PROVE  Atomic!Next \/ UNCHANGED <<phase, balance>>
    BY DEF Atomic!vars, phase
  <1>1. CASE UNCHANGED <<status, balance>>
    BY <1>1 DEF phase
  <1>2. CASE Reconcile
    <2>1. \A t \in Trades : phaseOf(status'[t]) = phaseOf(status[t])
      BY <1>2 DEF Reconcile, phaseOf, IndInv, TypeOK
    <2> QED
      BY <1>2, <2>1 DEF Reconcile, phase
  <1>3. ASSUME NEW t \in Trades, TradeExecuted(t) PROVE Atomic!Next
    <2>1. phase[t] = "none" /\ phase' = [phase EXCEPT ![t] = "open"]
      BY <1>3, OnePhaseMoves DEF TradeExecuted, phase, phaseOf
    <2>2. Atomic!Commit(t)
      BY <1>3, <2>1 DEF TradeExecuted, Atomic!Commit, Atomic!Move, phase
    <2> QED
      BY <2>2 DEF Atomic!Next
  <1>4. ASSUME NEW w \in Workers, Fund(w) PROVE UNCHANGED <<phase, balance>>
    <2> DEFINE t == trade[w]
    <2>1. t \in Trades
      BY <1>4 DEF Fund, IndInv, WorkersAreSound
    <2>2. phase' = [phase EXCEPT ![t] = "open"] /\ phase[t] = "open"
      BY <1>4, <2>1, OnePhaseMoves DEF Fund, phase, phaseOf
    <2> QED
      BY <1>4, <2>1, <2>2 DEF Fund, phase
  <1>5. ASSUME NEW w \in Workers, Dvp(w) PROVE Atomic!Next
    <2> DEFINE t == trade[w]
    <2>1. t \in Trades /\ t \notin DOMAIN postings
      BY <1>5 DEF Dvp, IndInv, WorkersAreSound, PostedExactlyWhenFinal
    <2>a. phase[t] = "open" /\ phaseOf("LEGALLY_FINAL") = "settled"
      BY <1>5, <2>1 DEF Dvp, phase, phaseOf
    <2>b. status' = [status EXCEPT ![t] = "LEGALLY_FINAL"]
      BY <1>5 DEF Dvp
    <2>2. phase' = [phase EXCEPT ![t] = phaseOf("LEGALLY_FINAL")]
      BY <2>1, <2>b, OnePhaseMoves
    <2>3. balance' = [a \in Accounts |-> balance[a] + DvpEffect(t, a)]
      BY <1>5, <2>1, DvpPostsTerms
    <2>4. \A a \in Accounts : balance'[a] >= 0
      <3>1. IndInv'
        BY <1>5, DvpInv
      <3> QED
        BY <3>1, AccountsAssumption DEF IndInv, TypeOK
    <2>5. Atomic!Settle(t)
      BY <2>a, <2>2, <2>3, <2>4 DEF Atomic!Settle, Atomic!Move, phase
    <2> QED
      BY <2>1, <2>5 DEF Atomic!Next
  <1>6. ASSUME NEW w \in Workers, MarkFailed(w)
        PROVE  Atomic!Next \/ UNCHANGED <<phase, balance>>
    <2> DEFINE t == trade[w]
    <2>1. t \in Trades
      BY <1>6 DEF MarkFailed, IndInv, WorkersAreSound
    <2>2. CASE status[t] \in {"CREATED", "FUNDED"}
      <3>1. phase[t] = "open" /\ phaseOf("FAILED_BEFORE_FINALITY") = "failed"
        BY <2>1, <2>2 DEF phase, phaseOf
      <3>2. phase' = [phase EXCEPT ![t] = "failed"]
        BY <1>6, <2>1, <2>2, <3>1, OnePhaseMoves DEF MarkFailed
      <3>3. Atomic!Fail(t)
        BY <1>6, <3>1, <3>2 DEF MarkFailed, Atomic!Fail, Atomic!Move, phase
      <3> QED
        BY <2>1, <3>3 DEF Atomic!Next
    <2>3. CASE status[t] \notin {"CREATED", "FUNDED"}
      BY <1>1, <1>6, <2>3 DEF MarkFailed
    <2> QED
      BY <2>2, <2>3
  <1> QED
    BY <1>1, <1>2, <1>3, <1>4, <1>5, <1>6
       DEF Next, Work, OpenAccount, Edit, Deliver, RefuseFund, SkipFund, RefuseDvp, SkipDvp,
           Answer, Interrupt, Crash, Throw, vars

\* Settlement, with its three transactions, retries, races and crashes, implements
\* the atomic promise: all legs in one step for good, or none for good.
THEOREM SettlementImplementsAtomicDvp == Spec => ImplementsAtomicDvp
  <1>1. Init => Atomic!Init
    BY DEF Init, Atomic!Init, phaseOf
  <1> QED
    BY <1>1, SettlementInvariant, StepRefines, PTL
       DEF Spec, ImplementsAtomicDvp, Atomic!Spec

------------------------------------------------------------------------------
\* The legs of a trade.

\* The six accounts are six, and so are the sides.
LEMMA AccountsDiffer ==
    ASSUME NEW t \in Trades
    PROVE  /\ SettlementAccounts(t) \subseteq Accounts
           /\ ClearingCash # ClearingToken /\ ClearingCash # FeeAccount
           /\ ClearingCash # ResidualAccount /\ ClearingToken # FeeAccount
           /\ ClearingToken # ResidualAccount /\ FeeAccount # ResidualAccount
           /\ SellerCash[t] # BuyerToken[t]
           /\ SellerCash[t] \notin {ClearingCash, ClearingToken, FeeAccount, ResidualAccount}
           /\ BuyerToken[t] \notin {ClearingCash, ClearingToken, FeeAccount, ResidualAccount}
  <1> DEFINE system == <<ClearingCash, ClearingToken, FeeAccount, ResidualAccount>>
  <1>1. \A i, j \in DOMAIN system : system[i] = system[j] => i = j
    BY SettlementAssumption DEF IsInjective
  <1>2. \A i, j \in 1..4 : system[i] = system[j] => i = j
    BY <1>1
  <1>3. /\ ClearingCash # ClearingToken /\ ClearingCash # FeeAccount
        /\ ClearingCash # ResidualAccount /\ ClearingToken # FeeAccount
        /\ ClearingToken # ResidualAccount /\ FeeAccount # ResidualAccount
    BY <1>2
  <1>4. /\ SellerCash[t] \in Accounts /\ BuyerToken[t] \in Accounts
        /\ {SellerCash[t], BuyerToken[t]} \cap
           {ClearingCash, ClearingToken, FeeAccount, ResidualAccount} = {}
        /\ Denomination[SellerCash[t]] = Denomination[ClearingCash]
        /\ Denomination[BuyerToken[t]] = Denomination[ClearingToken]
        /\ Denomination[ClearingCash] # Denomination[ClearingToken]
    BY SettlementAssumption
  <1>5. SellerCash[t] # BuyerToken[t]
    BY <1>4
  <1>6. {ClearingCash, ClearingToken, FeeAccount, ResidualAccount} \subseteq Accounts
    BY SettlementAssumption
  <1> QED
    BY <1>3, <1>4, <1>5, <1>6 DEF SettlementAccounts

\* The amounts of a row are whole, and what clearing gives is what the others get.
LEMMA RowsAreWhole ==
    ASSUME NEW r \in Rows
    PROVE  /\ r.cash \in Nat /\ r.tokens \in Nat /\ r.buyerFee \in Nat
           /\ r.sellerFee \in Nat /\ r.residual \in Nat
           /\ ExchangeFee(r) \in Int /\ SellerNet(r) \in Int
           /\ r.cash + r.buyerFee = SellerNet(r) + ExchangeFee(r) + r.residual
  BY DEF Rows, ExchangeFee, SellerNet

\* What each movement amounts to.
LEMMA MovementsAre ==
    ASSUME NEW t \in Trades, NEW r \in Rows
    PROVE  /\ DOMAIN Movements(t, r) =
                 {<<ClearingCash, "CREDIT">>, <<SellerCash[t], "DEBIT">>, <<FeeAccount, "DEBIT">>,
                  <<ResidualAccount, "DEBIT">>, <<ClearingToken, "CREDIT">>,
                  <<BuyerToken[t], "DEBIT">>}
           /\ Movements(t, r)[<<ClearingCash, "CREDIT">>] = r.cash + r.buyerFee
           /\ Movements(t, r)[<<SellerCash[t], "DEBIT">>] = SellerNet(r)
           /\ Movements(t, r)[<<FeeAccount, "DEBIT">>] = ExchangeFee(r)
           /\ Movements(t, r)[<<ResidualAccount, "DEBIT">>] = r.residual
           /\ Movements(t, r)[<<ClearingToken, "CREDIT">>] = r.tokens
           /\ Movements(t, r)[<<BuyerToken[t], "DEBIT">>] = r.tokens
  BY AccountsDiffer DEF Movements, DvpSides

\* Of an allowed fee split executeDvp posts all movements except those of zero.
LEMMA LegsAre ==
    ASSUME NEW t \in Trades, NEW r \in Rows, ExchangeFee(r) >= 0
    PROVE  /\ DOMAIN DvpLegs(t, r) =
                 {<<ClearingCash, "CREDIT">>, <<SellerCash[t], "DEBIT">>,
                  <<ClearingToken, "CREDIT">>, <<BuyerToken[t], "DEBIT">>}
                 \cup (IF ExchangeFee(r) = 0 THEN {} ELSE {<<FeeAccount, "DEBIT">>})
                 \cup (IF r.residual = 0 THEN {} ELSE {<<ResidualAccount, "DEBIT">>})
           /\ \A side \in DOMAIN DvpLegs(t, r) : DvpLegs(t, r)[side] = Movements(t, r)[side]
  <1> DEFINE M == DOMAIN Movements(t, r)
             Posted == {side \in M : side[1] \in {FeeAccount, ResidualAccount} =>
                                        Movements(t, r)[side] > 0}
  <1>1. /\ DOMAIN DvpLegs(t, r) = Posted
        /\ \A side \in DOMAIN DvpLegs(t, r) : DvpLegs(t, r)[side] = Movements(t, r)[side]
    <2>1. M = DvpSides(t)
      BY MovementsAre DEF DvpSides
    <2> QED
      BY ONLY <2>1 DEF DvpLegs, Restrict
  <1>2. \A side \in {<<ClearingCash, "CREDIT">>, <<SellerCash[t], "DEBIT">>,
                    <<ClearingToken, "CREDIT">>, <<BuyerToken[t], "DEBIT">>} :
            side[1] \in {ClearingCash, SellerCash[t], ClearingToken, BuyerToken[t]}
    OBVIOUS
  <1>3. {<<ClearingCash, "CREDIT">>, <<SellerCash[t], "DEBIT">>, <<ClearingToken, "CREDIT">>,
         <<BuyerToken[t], "DEBIT">>} \subseteq Posted
    BY <1>2, MovementsAre, AccountsDiffer
  <1>7. <<FeeAccount, "DEBIT">>[1] = FeeAccount /\ <<FeeAccount, "DEBIT">> \in M
    BY MovementsAre
  <1>8. <<ResidualAccount, "DEBIT">>[1] = ResidualAccount /\ <<ResidualAccount, "DEBIT">> \in M
    BY MovementsAre
  <1>4. <<FeeAccount, "DEBIT">> \in Posted <=> ExchangeFee(r) # 0
    <2>1. <<FeeAccount, "DEBIT">> \in Posted <=> Movements(t, r)[<<FeeAccount, "DEBIT">>] > 0
      BY <1>7
    <2>2. Movements(t, r)[<<FeeAccount, "DEBIT">>] = ExchangeFee(r)
      BY MovementsAre
    <2>3. ExchangeFee(r) \in Int /\ ExchangeFee(r) >= 0
      BY RowsAreWhole
    <2> HIDE DEF Posted
    <2> QED
      BY <2>1, <2>2, <2>3
  <1>5. <<ResidualAccount, "DEBIT">> \in Posted <=> r.residual # 0
    <2>1. <<ResidualAccount, "DEBIT">> \in Posted <=>
              Movements(t, r)[<<ResidualAccount, "DEBIT">>] > 0
      BY <1>8
    <2>2. Movements(t, r)[<<ResidualAccount, "DEBIT">>] = r.residual
      BY MovementsAre
    <2>3. r.residual \in Int /\ r.residual >= 0
      BY RowsAreWhole
    <2> HIDE DEF Posted
    <2> QED
      BY <2>1, <2>2, <2>3
  <1>6. Posted \subseteq {<<ClearingCash, "CREDIT">>, <<SellerCash[t], "DEBIT">>,
                         <<FeeAccount, "DEBIT">>, <<ResidualAccount, "DEBIT">>,
                         <<ClearingToken, "CREDIT">>, <<BuyerToken[t], "DEBIT">>}
    BY MovementsAre
  <1> HIDE DEF Posted
  <1> QED
    BY <1>1, <1>3, <1>4, <1>5, <1>6

\* What the legs amount to on an account.
LEMMA AmountsAre ==
    ASSUME NEW t \in Trades, NEW r \in Rows, ExchangeFee(r) >= 0, NEW a \in Accounts
    PROVE  /\ AmountOn(DvpLegs(t, r), a, "DEBIT") =
                 CASE a = SellerCash[t]   -> SellerNet(r)
                   [] a = FeeAccount      -> ExchangeFee(r)
                   [] a = ResidualAccount -> r.residual
                   [] a = BuyerToken[t]   -> r.tokens
                   [] OTHER               -> 0
           /\ AmountOn(DvpLegs(t, r), a, "CREDIT") =
                 CASE a = ClearingCash  -> r.cash + r.buyerFee
                   [] a = ClearingToken -> r.tokens
                   [] OTHER             -> 0
  <1> DEFINE D == DOMAIN DvpLegs(t, r)
  <1>1. /\ <<a, "DEBIT">> \in D <=>
              \/ a \in {SellerCash[t], BuyerToken[t]}
              \/ a = FeeAccount /\ ExchangeFee(r) # 0
              \/ a = ResidualAccount /\ r.residual # 0
        /\ <<a, "CREDIT">> \in D <=> a \in {ClearingCash, ClearingToken}
    <2>1. \A d \in Directions : <<a, d>> \in D <=>
              \/ <<a, d>> \in {<<ClearingCash, "CREDIT">>, <<SellerCash[t], "DEBIT">>,
                             <<ClearingToken, "CREDIT">>, <<BuyerToken[t], "DEBIT">>}
              \/ ExchangeFee(r) # 0 /\ <<a, d>> = <<FeeAccount, "DEBIT">>
              \/ r.residual # 0 /\ <<a, d>> = <<ResidualAccount, "DEBIT">>
      <3> DEFINE B == {<<ClearingCash, "CREDIT">>, <<SellerCash[t], "DEBIT">>,
                       <<ClearingToken, "CREDIT">>, <<BuyerToken[t], "DEBIT">>}
                 F == IF ExchangeFee(r) = 0 THEN {} ELSE {<<FeeAccount, "DEBIT">>}
                 R == IF r.residual = 0 THEN {} ELSE {<<ResidualAccount, "DEBIT">>}
      <3>1. D = B \cup F \cup R
        BY LegsAre
      <3>2. \A side : side \in F <=> ExchangeFee(r) # 0 /\ side = <<FeeAccount, "DEBIT">>
        OBVIOUS
      <3>3. \A side : side \in R <=> r.residual # 0 /\ side = <<ResidualAccount, "DEBIT">>
        OBVIOUS
      <3> HIDE DEF D, F, R
      <3> QED
        BY <3>1, <3>2, <3>3
    <2> HIDE DEF D
    <2> QED
      BY <2>1 DEF Directions
  <1>2. \A d \in Directions : AmountOn(DvpLegs(t, r), a, d) =
            IF <<a, d>> \in D THEN Movements(t, r)[<<a, d>>] ELSE 0
    BY LegsAre DEF AmountOn
  <1> HIDE DEF D
  <1>3. /\ AmountOn(DvpLegs(t, r), a, "DEBIT") =
               IF <<a, "DEBIT">> \in D THEN Movements(t, r)[<<a, "DEBIT">>] ELSE 0
        /\ AmountOn(DvpLegs(t, r), a, "CREDIT") =
               IF <<a, "CREDIT">> \in D THEN Movements(t, r)[<<a, "CREDIT">>] ELSE 0
    BY <1>2 DEF Directions
  <1>4. CASE a \in {ClearingCash, ClearingToken}
    BY <1>1, <1>3, <1>4, MovementsAre, AccountsDiffer
  <1>5. CASE a \in {FeeAccount, ResidualAccount}
    BY <1>1, <1>3, <1>5, MovementsAre, AccountsDiffer
  <1>6. CASE a \in {SellerCash[t], BuyerToken[t]}
    BY <1>1, <1>3, <1>6, MovementsAre, AccountsDiffer
  <1>7. CASE a \notin SettlementAccounts(t)
    BY <1>1, <1>3, <1>7 DEF SettlementAccounts
  <1> QED
    BY <1>4, <1>5, <1>6, <1>7 DEF SettlementAccounts

\* What delivery versus payment does to the balance of an account.
LEMMA EffectsAre ==
    ASSUME NEW t \in Trades, NEW a \in Accounts
    PROVE  DvpEffect(t, a) =
              CASE a = SellerCash[t]   -> SellerNet(Terms(t))
                [] a = FeeAccount      -> ExchangeFee(Terms(t))
                [] a = ResidualAccount -> Terms(t).residual
                [] a = BuyerToken[t]   -> Terms(t).tokens
                [] OTHER               -> -CommitEffect(t, a)
  <1> DEFINE legs == DvpLegs(t, Terms(t))
  <1>0. /\ Terms(t) \in Rows /\ ExchangeFee(Terms(t)) >= 0
        /\ DvpEffect(t, a) = Effect(legs, a)
    BY TermsAreWhole DEF DvpEffect, OmsLegs
  <1>a. /\ AmountOn(legs, a, "DEBIT") =
              CASE a = SellerCash[t]   -> SellerNet(Terms(t))
                [] a = FeeAccount      -> ExchangeFee(Terms(t))
                [] a = ResidualAccount -> Terms(t).residual
                [] a = BuyerToken[t]   -> Terms(t).tokens
                [] OTHER               -> 0
        /\ AmountOn(legs, a, "CREDIT") =
              CASE a = ClearingCash  -> Terms(t).cash + Terms(t).buyerFee
                [] a = ClearingToken -> Terms(t).tokens
                [] OTHER             -> 0
    BY <1>0, AmountsAre
  <1> HIDE DEF legs
  <1>1. CASE a \in SettlementAccounts(t)
    <2>1. NormalSide[a] = "DEBIT"
      BY <1>1, SettlementAssumption DEF SettlementAccounts
    <2>2. DvpEffect(t, a) = AmountOn(legs, a, "DEBIT") - AmountOn(legs, a, "CREDIT")
      BY <1>0, <2>1 DEF Effect
    <2> QED
      BY <1>0, <1>a, <2>2, AccountsDiffer, RowsAreWhole DEF CommitEffect
  <1>2. CASE a \notin SettlementAccounts(t)
    <2>1. AmountOn(legs, a, "DEBIT") = 0 /\ AmountOn(legs, a, "CREDIT") = 0
      BY <1>2, <1>a DEF SettlementAccounts
    <2> QED
      BY <1>0, <1>2, <2>1 DEF Effect, CommitEffect, SettlementAccounts
  <1> QED
    BY <1>1, <1>2

------------------------------------------------------------------------------
\* Balances.

\* What trade t has moved on account a so far.
Moved(t, a) ==
    (IF status[t] = "NONE" THEN 0 ELSE CommitEffect(t, a)) +
    (IF status[t] \in Final THEN DvpEffect(t, a) ELSE 0)
MovedOn(a) == [t \in Trades |-> Moved(t, a)]

\* The effects are whole numbers.
LEMMA EffectsAreWhole ==
    ASSUME NEW t \in Trades, NEW a \in Accounts
    PROVE  CommitEffect(t, a) \in Int /\ DvpEffect(t, a) \in Int
  BY TermsAreWhole, RowsAreWhole, EffectsAre, CommitEffectIsNat

LEMMA MovedIsWhole ==
    ASSUME NEW a \in Accounts
    PROVE  \A t \in Trades : Moved(t, a) \in Int /\ MovedOn(a)[t] = Moved(t, a)
  BY EffectsAreWhole DEF Moved, MovedOn

LEMMA BalancesAre ==
    BalancesFollowFinality <=>
        \A a \in Accounts : balance[a] = SumFunctionOnSet(MovedOn(a), Trades)
  BY DEF BalancesFollowFinality, SumFunction, MovedOn, Moved

\* One trade moves, and the balances with it.
LEMMA MovesWithTrade ==
    ASSUME IndInv, BalancesFollowFinality, NEW t \in Trades,
           \A u \in Trades : u # t => status'[u] = status[u],
           \A a \in Accounts : balance'[a] = balance[a] + (Moved(t, a)' - Moved(t, a))
    PROVE  BalancesFollowFinality'
  <1> SUFFICES ASSUME NEW a \in Accounts
               PROVE  balance'[a] = SumFunctionOnSet(MovedOn(a)', Trades)
    BY DEF BalancesFollowFinality, SumFunction, MovedOn, Moved
  <1>1. PICK f, g : f = MovedOn(a) /\ g = MovedOn(a)'
    OBVIOUS
  <1>2. \A u \in Trades : f[u] \in Int /\ f[u] = Moved(u, a)
    BY <1>1, MovedIsWhole
  <1>3. \A u \in Trades : g[u] \in Int /\ g[u] = Moved(u, a)'
    BY <1>1, EffectsAreWhole DEF MovedOn, Moved
  <1>4. \A u \in Trades : u # t => g[u] = f[u]
    BY <1>2, <1>3 DEF Moved
  <1>5. SumFunctionOnSet(g, Trades) = SumFunctionOnSet(f, Trades) + (g[t] - f[t])
    <2>1. IsFiniteSet(Trades) /\ \A u \in Trades : f[u] \in Int /\ g[u] \in Int
      BY <1>2, <1>3, SettlementAssumption
    <2> QED
      BY <1>4, <2>1, SumChange
  <1> QED
    BY <1>1, <1>2, <1>3, <1>5, BalancesAre

\* Who moves no balance moves no trade into or out of finality either.
LEMMA MovesNothing ==
    ASSUME IndInv, BalancesFollowFinality, UNCHANGED balance,
           \A t \in Trades : /\ status'[t] = "NONE" <=> status[t] = "NONE"
                             /\ status'[t] \in Final <=> status[t] \in Final
    PROVE  BalancesFollowFinality'
  <1> SUFFICES ASSUME NEW a \in Accounts
               PROVE  balance'[a] = SumFunctionOnSet(MovedOn(a)', Trades)
    BY DEF BalancesFollowFinality, SumFunction, MovedOn, Moved
  <1>1. MovedOn(a)' = MovedOn(a)
    BY DEF MovedOn, Moved
  <1> QED
    BY <1>1, BalancesAre

LEMMA BalancesStep ==
    IndInv /\ BalancesFollowFinality /\ [Next]_vars => BalancesFollowFinality'
  <1> SUFFICES ASSUME IndInv, BalancesFollowFinality, [Next]_vars
               PROVE  BalancesFollowFinality'
    OBVIOUS
  <1>1. CASE UNCHANGED <<balance, status>>
    BY <1>1, MovesNothing
  <1>2. CASE Reconcile
    BY <1>2, MovesNothing DEF Reconcile, IndInv, TypeOK
  <1>3. ASSUME NEW t \in Trades, TradeExecuted(t) PROVE BalancesFollowFinality'
    <2>1. status[t] = "NONE" /\ status' = [status EXCEPT ![t] = "CREATED"]
          /\ \A a \in Accounts : balance'[a] = balance[a] + CommitEffect(t, a)
      BY <1>3 DEF TradeExecuted
    <2>2. status'[t] = "CREATED" /\ \A u \in Trades : u # t => status'[u] = status[u]
      BY <2>1 DEF IndInv, TypeOK
    <2>3. \A a \in Accounts : balance'[a] = balance[a] + (Moved(t, a)' - Moved(t, a))
      BY <2>1, <2>2, EffectsAreWhole DEF Moved
    <2> QED
      BY <2>2, <2>3, MovesWithTrade
  <1>4. ASSUME NEW w \in Workers, Dvp(w) PROVE BalancesFollowFinality'
    <2>1. PICK t \in Trades : t = trade[w] /\ t \notin DOMAIN postings
      BY <1>4 DEF Dvp, IndInv, WorkersAreSound, PostedExactlyWhenFinal
    <2>2. /\ status[t] = "FUNDED" /\ status' = [status EXCEPT ![t] = "LEGALLY_FINAL"]
          /\ \A a \in Accounts : balance'[a] = balance[a] + DvpEffect(t, a)
      BY <1>4, <2>1, DvpPostsTerms DEF Dvp
    <2>3. status'[t] = "LEGALLY_FINAL" /\ \A u \in Trades : u # t => status'[u] = status[u]
      BY <2>2 DEF IndInv, TypeOK
    <2>4. \A a \in Accounts : balance'[a] = balance[a] + (Moved(t, a)' - Moved(t, a))
      BY <2>2, <2>3, EffectsAreWhole DEF Moved
    <2> QED
      BY <2>3, <2>4, MovesWithTrade
  <1>5. ASSUME NEW w \in Workers, Fund(w) \/ MarkFailed(w) PROVE BalancesFollowFinality'
    <2>1. trade[w] \in Trades
      BY <1>5 DEF Fund, MarkFailed, IndInv, WorkersAreSound
    <2>2. UNCHANGED balance
      BY <1>5 DEF Fund, MarkFailed
    <2>3. \A t \in Trades : /\ status'[t] = "NONE" <=> status[t] = "NONE"
                            /\ status'[t] \in Final <=> status[t] \in Final
      BY <1>5, <2>1 DEF Fund, MarkFailed, IndInv, TypeOK
    <2> QED
      BY <2>2, <2>3, MovesNothing
  <1> QED
    BY <1>1, <1>2, <1>3, <1>4, <1>5
       DEF Next, Work, OpenAccount, Edit, Deliver, RefuseFund, SkipFund, RefuseDvp, SkipDvp,
           Answer, Interrupt, Crash, Throw, vars

\* Every balance is what the trades say it is: their commitments, and delivery versus
\* payment of the final ones, once each, for any number of deliveries and crashes.
THEOREM SettlementBalances == Spec => []BalancesFollowFinality
  <1>1. Init => BalancesFollowFinality
    <2> SUFFICES ASSUME Init, NEW a \in Accounts
                 PROVE  balance[a] = SumFunctionOnSet(MovedOn(a), Trades)
      BY BalancesAre
    <2>1. \A t \in Trades : MovedOn(a)[t] = 0
      BY DEF Init, MovedOn, Moved
    <2> QED
      BY <2>1, SumZero, SettlementAssumption DEF Init
  <1> QED
    BY <1>1, BalancesStep, SettlementInvariant, PTL DEF Spec

------------------------------------------------------------------------------
\* The nightly check.

\* What was posted is what the check expects of the row that OMS wrote.
Checked == \A t \in DOMAIN postings : postings[t] = ExpectedLegs(t, Terms(t))

\* The check's own map has the amounts of executeDvp's movements.
LEMMA ExpectedAre ==
    ASSUME NEW t \in Trades, NEW r \in Rows
    PROVE  /\ DOMAIN Expected(t, r) = DvpSides(t)
           /\ \A side \in DvpSides(t) : /\ Expected(t, r)[side] = Movements(t, r)[side]
                                        /\ Expected(t, r)[side] \in Int
  <1>1. DOMAIN Expected(t, r) = DvpSides(t) /\ DOMAIN Movements(t, r) = DvpSides(t)
    BY DEF Expected, Movements
  <1>2. /\ Expected(t, r)[<<ClearingCash, "CREDIT">>] = r.cash + r.buyerFee
        /\ Expected(t, r)[<<SellerCash[t], "DEBIT">>] = SellerNet(r)
        /\ Expected(t, r)[<<FeeAccount, "DEBIT">>] = ExchangeFee(r)
        /\ Expected(t, r)[<<ResidualAccount, "DEBIT">>] = r.residual
        /\ Expected(t, r)[<<ClearingToken, "CREDIT">>] = r.tokens
        /\ Expected(t, r)[<<BuyerToken[t], "DEBIT">>] = r.tokens
    BY AccountsDiffer DEF Expected, DvpSides, SellerNet, ExchangeFee
  <1>3. ASSUME NEW side \in DvpSides(t)
        PROVE  Expected(t, r)[side] = Movements(t, r)[side] /\ Expected(t, r)[side] \in Int
    <2>1. \/ side = <<ClearingCash, "CREDIT">> \/ side = <<SellerCash[t], "DEBIT">>
          \/ side = <<FeeAccount, "DEBIT">> \/ side = <<ResidualAccount, "DEBIT">>
          \/ side = <<ClearingToken, "CREDIT">> \/ side = <<BuyerToken[t], "DEBIT">>
      BY DEF DvpSides
    <2>2. /\ r.cash + r.buyerFee \in Int /\ SellerNet(r) \in Int /\ ExchangeFee(r) \in Int
          /\ r.residual \in Int /\ r.tokens \in Int
      BY RowsAreWhole
    <2> QED
      BY <1>2, <2>1, <2>2, MovementsAre
  <1> QED
    BY <1>1, <1>3

\* executeDvp leaves out fees that are not positive, the check whatever is zero; once the
\* ledger has accepted the legs, there is no other amount.
LEMMA DvpLegsAreExpected ==
    ASSUME NEW t \in Trades, NEW r \in Rows, ExchangeFee(r) >= 0, WellFormed(DvpLegs(t, r))
    PROVE  DvpLegs(t, r) = ExpectedLegs(t, r)
  <1> DEFINE D == DOMAIN DvpLegs(t, r)
             X == {side \in DvpSides(t) : Expected(t, r)[side] # 0}
  <1>1. D \subseteq DvpSides(t) /\ DvpLegs(t, r) = [side \in D |-> Expected(t, r)[side]]
    <2>1. DvpLegs(t, r) = [side \in D |-> Movements(t, r)[side]] /\ D \subseteq DvpSides(t)
      BY DEF DvpLegs, Restrict, Movements
    <2> QED
      BY <2>1, ExpectedAre
  <1>2. \A side \in D : Expected(t, r)[side] # 0
    BY <1>1 DEF WellFormed
  <1>3. \A side \in DvpSides(t) : side \notin D => Expected(t, r)[side] = 0
    <2> SUFFICES ASSUME NEW side \in DvpSides(t), side \notin D
                 PROVE  Expected(t, r)[side] = 0
      OBVIOUS
    <2>1. \/ side = <<FeeAccount, "DEBIT">> /\ ExchangeFee(r) = 0
          \/ side = <<ResidualAccount, "DEBIT">> /\ r.residual = 0
      BY LegsAre DEF DvpSides
    <2>2. Expected(t, r)[side] = Movements(t, r)[side]
      BY ExpectedAre
    <2>3. /\ Movements(t, r)[<<FeeAccount, "DEBIT">>] = ExchangeFee(r)
          /\ Movements(t, r)[<<ResidualAccount, "DEBIT">>] = r.residual
      BY MovementsAre
    <2> QED
      BY ONLY <2>1, <2>2, <2>3
  <1>4. D = X
    BY <1>1, <1>2, <1>3
  <1>5. ExpectedLegs(t, r) = [side \in X |-> Expected(t, r)[side]]
    BY ExpectedAre DEF ExpectedLegs, Restrict
  <1> QED
    BY <1>1, <1>4, <1>5

\* Rows of one gross amount and one quantity whose expected legs are equal are equal: a
\* dropped leg counts as zero.
LEMMA LegsTellRow ==
    ASSUME NEW t \in Trades, NEW r \in Rows, NEW q \in Rows,
           r.cash = q.cash, r.tokens = q.tokens, ExpectedLegs(t, r) = ExpectedLegs(t, q)
    PROVE  r = q
  <1>1. ASSUME NEW p \in Rows, NEW side \in DvpSides(t)
        PROVE  Expected(t, p)[side] = IF side \in DOMAIN ExpectedLegs(t, p)
                                      THEN ExpectedLegs(t, p)[side] ELSE 0
    BY ExpectedAre DEF ExpectedLegs, Restrict
  <1>2. \A side \in DvpSides(t) : Movements(t, r)[side] = Movements(t, q)[side]
    BY <1>1, ExpectedAre
  <1>3. /\ r.cash + r.buyerFee = q.cash + q.buyerFee /\ SellerNet(r) = SellerNet(q)
        /\ r.residual = q.residual
    <2>1. {<<ClearingCash, "CREDIT">>, <<SellerCash[t], "DEBIT">>, <<ResidualAccount, "DEBIT">>}
             \subseteq DvpSides(t)
      BY DEF DvpSides
    <2>2. ASSUME NEW p \in Rows
          PROVE  /\ Movements(t, p)[<<ClearingCash, "CREDIT">>] = p.cash + p.buyerFee
                 /\ Movements(t, p)[<<SellerCash[t], "DEBIT">>] = SellerNet(p)
                 /\ Movements(t, p)[<<ResidualAccount, "DEBIT">>] = p.residual
      BY MovementsAre
    <2> QED
      BY <1>2, <2>1, <2>2
  <1>4. r.buyerFee = q.buyerFee /\ r.sellerFee = q.sellerFee
    <2>1. /\ r.cash \in Nat /\ r.buyerFee \in Nat /\ r.sellerFee \in Nat
          /\ q.cash \in Nat /\ q.buyerFee \in Nat /\ q.sellerFee \in Nat
      BY RowsAreWhole
    <2>2. r.cash - r.sellerFee = q.cash - q.sellerFee
      BY <1>3 DEF SellerNet
    <2> QED
      BY <1>3, <2>1, <2>2
  <1> QED
    BY <1>3, <1>4 DEF Rows

\* The sums of the fee rows OMS wrote agree with the row it wrote ...
LEMMA FeesOfTermsAgree ==
    ASSUME NEW t \in Trades, NEW f \in FeeRows, FeeSums(f) = FeeSums(Charges(t))
    PROVE  FeesAgree(Terms(t), f)
  <1>1. /\ FeeSums(f).fee = Charges(t).buyerFee + Charges(t).sellerFee
        /\ FeeSums(f).residual = Charges(t).buyerResidual + Charges(t).sellerResidual
        /\ FeeSums(f).total = Charges(t).buyerFee + Charges(t).sellerFee
                                + Charges(t).buyerResidual + Charges(t).sellerResidual
    BY DEF FeeSums
  <1>2. /\ Charges(t).buyerFee \in Nat /\ Charges(t).buyerResidual \in Nat
        /\ Charges(t).sellerFee \in Nat /\ Charges(t).sellerResidual \in Nat
    BY TermsAreWhole DEF FeeRows
  <1> QED
    BY <1>1, <1>2, TermsAreWhole DEF FeesAgree

\* ... and no other sums do.
LEMMA OnlyFeesOfTermsAgree ==
    ASSUME NEW t \in Trades, NEW f, FeesAgree(Terms(t), f)
    PROVE  FeeSums(f) = FeeSums(Charges(t))
  <1>1. FeesAgree(Terms(t), Charges(t))
    BY FeesOfTermsAgree, TermsAreWhole
  <1>2. /\ FeeSums(f).fee = FeeSums(Charges(t)).fee
        /\ FeeSums(f).residual = FeeSums(Charges(t)).residual
        /\ FeeSums(f).total = FeeSums(Charges(t)).total
    BY <1>1 DEF FeesAgree
  <1> QED
    BY <1>2 DEF FeeSums

\* The check's comparisons, one by one, amount to: nothing was changed.
LEMMA CleanIsAsCalculated ==
    ASSUME IndInv, Checked, NEW t \in Trades, status[t] \in Final
    PROVE  Clean(t) <=> AsCalculated(t)
  <1>1. /\ t \in DOMAIN postings /\ postings[t] = ExpectedLegs(t, Terms(t))
        /\ row[t] \in Rows /\ fees[t] \in FeeRows
    BY DEF IndInv, PostedExactlyWhenFinal, RowsAreSound, Checked
  <1>2. Terms(t) \in Rows /\ Terms(t).cash = Fills[t].price * Fills[t].quantity
        /\ Terms(t).tokens = Fills[t].quantity
    BY TermsAreWhole DEF Notional, Terms
  <1>3. ASSUME AsCalculated(t) PROVE Clean(t)
    BY <1>1, <1>2, <1>3, FeesOfTermsAgree DEF AsCalculated, Clean
  <1>4. ASSUME Clean(t) PROVE AsCalculated(t)
    <2>1. row[t] = Terms(t)
      BY <1>1, <1>2, <1>4, LegsTellRow DEF Clean
    <2> QED
      BY <1>4, <2>1, OnlyFeesOfTermsAgree DEF Clean, AsCalculated
  <1> QED
    BY <1>3, <1>4

\* Only executeDvp posts.
LEMMA CheckedStep == IndInv /\ Checked /\ [Next]_vars => Checked'
  <1> SUFFICES ASSUME IndInv, Checked, [Next]_vars PROVE Checked'
    OBVIOUS
  <1>1. CASE UNCHANGED postings
    BY <1>1 DEF Checked
  <1>2. ASSUME NEW w \in Workers, Dvp(w) PROVE Checked'
    <2>1. PICK t \in Trades : t = trade[w] /\ t \notin DOMAIN postings
      BY <1>2 DEF Dvp, IndInv, WorkersAreSound, PostedExactlyWhenFinal
    <2>2. /\ DvpRefusal(t) = None /\ row[t] = Terms(t)
          /\ postings' = [u \in DOMAIN postings \cup {t} |->
                              IF u = t THEN DvpLegs(t, row[t]) ELSE postings[u]]
      BY <1>2, <2>1, DvpPostsTerms DEF Dvp
    <2>3. DvpLegs(t, row[t]) = ExpectedLegs(t, Terms(t))
      <3>1. WellFormed(DvpLegs(t, Terms(t)))
        BY <2>2, RefusalsAreErrors DEF LedgerAccepts
      <3> QED
        BY <2>2, <3>1, TermsAreWhole, DvpLegsAreExpected
    <2> QED
      BY <2>2, <2>3 DEF Checked
  <1> QED
    BY <1>1, <1>2
       DEF Next, Work, OpenAccount, TradeExecuted, Edit, Deliver, Fund, RefuseFund, SkipFund,
           RefuseDvp, SkipDvp, Answer, MarkFailed, Interrupt, Crash, Throw, Reconcile, vars

Verdict(t) ==
    status[t] = "LEGALLY_FINAL" /\ status'[t] # status[t] =>
        (status'[t] = "RECONCILED" <=> AsCalculated(t))

\* Only the check takes a settlement from LEGALLY_FINAL.
LEMMA StepJudgesRight == IndInv /\ Checked /\ [Next]_vars => \A t \in Trades : Verdict(t)
  <1> SUFFICES ASSUME IndInv, Checked, [Next]_vars, NEW t \in Trades,
                      status[t] = "LEGALLY_FINAL", status'[t] # status[t]
               PROVE  status'[t] = "RECONCILED" <=> AsCalculated(t)
    BY DEF Verdict
  <1>1. CASE Reconcile
    BY <1>1, CleanIsAsCalculated DEF Reconcile
  <1>2. ASSUME NEW w \in Workers, Fund(w) \/ Dvp(w) \/ MarkFailed(w) PROVE FALSE
    <2>1. trade[w] \in Trades
      BY <1>2 DEF Fund, Dvp, MarkFailed, IndInv, WorkersAreSound
    <2>2. trade[w] # t /\ status[t] = "LEGALLY_FINAL"
      BY <1>2 DEF Fund, Dvp, MarkFailed, IndInv, TypeOK
    <2> QED
      BY <1>2, <2>1, <2>2 DEF Fund, Dvp, MarkFailed, IndInv, TypeOK
  <1>3. ASSUME NEW u \in Trades, TradeExecuted(u) PROVE FALSE
    BY <1>3 DEF TradeExecuted, IndInv, TypeOK
  <1> QED
    BY <1>1, <1>2, <1>3
       DEF Next, Work, OpenAccount, Edit, Deliver, RefuseFund, SkipFund, RefuseDvp, SkipDvp,
           Answer, Interrupt, Crash, Throw, vars

\* The nightly check tells right from wrong for any amounts an operator may have written:
\* a settlement becomes RECONCILED exactly if its row and the sums of its fee rows are what
\* OMS calculated for the trade.
THEOREM SettlementVerdictIsRight == Spec => VerdictIsRight
  <1>1. Init => Checked
    BY DEF Init, Checked
  <1>2. IndInv /\ Checked /\ [Next]_vars =>
          [\A t \in Trades :
              status[t] = "LEGALLY_FINAL" /\ status'[t] # status[t] =>
                 (status'[t] = "RECONCILED" <=> AsCalculated(t))]_vars
    BY StepJudgesRight DEF Verdict
  <1> QED
    BY <1>1, <1>2, CheckedStep, SettlementInvariant, PTL DEF Spec, VerdictIsRight

------------------------------------------------------------------------------
\* Why trades fail.

\* The seller's fee leaves something of the price ...
TermsPay == \A t \in Trades : SellerNet(Terms(t)) > 0
\* ... and all trades together fit the column.
Volume(t) == Terms(t).cash + Terms(t).buyerFee + Terms(t).tokens
AllFits == SumFunctionOnSet([t \in Trades |-> Volume(t)], Trades) <= MaxNumeric

Only(S, a, n) == IF a \in S THEN n ELSE 0

\* A set lets go of one account.
LEMMA SumPeel ==
    ASSUME NEW S, IsFiniteSet(S), NEW f, \A x \in S : f[x] \in Int, NEW a
    PROVE  /\ IsFiniteSet(S \ {a}) /\ \A x \in S \ {a} : f[x] \in Int
           /\ SumFunctionOnSet(f, S) = Only(S, a, f[a]) + SumFunctionOnSet(f, S \ {a})
           /\ SumFunctionOnSet(f, S) \in Int
  <1> DEFINE R == S \ {a}
  <1>1. R \subseteq S /\ (a \notin S => R = S)
    OBVIOUS
  <1>2. a \in S => SumFunctionOnSet(f, S) = f[a] + SumFunctionOnSet(f, R)
    BY SumRemove
  <1> HIDE DEF R
  <1>3. IsFiniteSet(R) /\ SumFunctionOnSet(f, S) \in Int
    BY <1>1, FS_Subset, SumInt
  <1>4. SumFunctionOnSet(f, S) = Only(S, a, f[a]) + SumFunctionOnSet(f, R)
    BY <1>1, <1>2, <1>3 DEF Only
  <1> QED
    BY <1>3, <1>4 DEF R

ZeroBut(f, S, a, b, c, d) ==
    /\ a # b /\ a # c /\ a # d /\ b # c /\ b # d /\ c # d
    /\ \A x \in S : x \notin {a, b, c, d} => f[x] = 0

\* The sum of a function that is zero but for four accounts.
LEMMA SumOfFour ==
    ASSUME NEW S, IsFiniteSet(S), NEW f, \A x \in S : f[x] \in Int,
           NEW a, NEW b, NEW c, NEW d, ZeroBut(f, S, a, b, c, d)
    PROVE  SumFunctionOnSet(f, S) =
              Only(S, a, f[a]) + Only(S, b, f[b]) + Only(S, c, f[c]) + Only(S, d, f[d])
  <1> DEFINE A == S \ {a}  B == A \ {b}  C == B \ {c}  D == C \ {d}
  <1>1. \A x \in D : f[x] = 0
    BY DEF ZeroBut
  <1>2. /\ Only(A, b, f[b]) = Only(S, b, f[b]) /\ Only(B, c, f[c]) = Only(S, c, f[c])
        /\ Only(C, d, f[d]) = Only(S, d, f[d])
    BY DEF Only, ZeroBut
  <1>a. /\ Only(S, a, f[a]) \in Int /\ Only(S, b, f[b]) \in Int
        /\ Only(S, c, f[c]) \in Int /\ Only(S, d, f[d]) \in Int
    BY DEF Only
  <1>3. /\ IsFiniteSet(A) /\ \A x \in A : f[x] \in Int
        /\ SumFunctionOnSet(f, S) = Only(S, a, f[a]) + SumFunctionOnSet(f, A)
    BY SumPeel, Zenon
  <1>4. /\ IsFiniteSet(B) /\ \A x \in B : f[x] \in Int
        /\ SumFunctionOnSet(f, A) = Only(A, b, f[b]) + SumFunctionOnSet(f, B)
    <2> HIDE DEF A
    <2> QED
      BY <1>3, SumPeel, Zenon
  <1>5. /\ IsFiniteSet(C) /\ \A x \in C : f[x] \in Int
        /\ SumFunctionOnSet(f, B) = Only(B, c, f[c]) + SumFunctionOnSet(f, C)
    <2> HIDE DEF A, B
    <2> QED
      BY <1>4, SumPeel, Zenon
  <1>6. /\ IsFiniteSet(D)
        /\ SumFunctionOnSet(f, C) = Only(C, d, f[d]) + SumFunctionOnSet(f, D)
    <2> HIDE DEF A, B, C
    <2> QED
      BY <1>5, SumPeel, Zenon
  <1> HIDE DEF A, B, C, D
  <1>7. SumFunctionOnSet(f, D) = 0
    <2>1. IsFiniteSet(D)
      BY <1>6
    <2> QED
      BY <1>1, <2>1, SumZero, Zenon
  <1> QED
    BY <1>a, <1>2, <1>3, <1>4, <1>5, <1>6, <1>7

\* What the parties get of a trade is what clearing gives, in each denomination.
LEMMA LegsBalance ==
    ASSUME NEW t \in Trades, NEW r \in Rows, ExchangeFee(r) >= 0, NEW S, S \subseteq Accounts,
           ClearingCash \in S <=> SellerCash[t] \in S,
           ClearingCash \in S <=> FeeAccount \in S,
           ClearingCash \in S <=> ResidualAccount \in S,
           ClearingToken \in S <=> BuyerToken[t] \in S
    PROVE  Total(DvpLegs(t, r), "DEBIT", S) = Total(DvpLegs(t, r), "CREDIT", S)
  <1> DEFINE debit == [a \in Accounts |-> AmountOn(DvpLegs(t, r), a, "DEBIT")]
             credit == [a \in Accounts |-> AmountOn(DvpLegs(t, r), a, "CREDIT")]
             s == SellerCash[t]  b == BuyerToken[t]
             cash == r.cash + r.buyerFee
  <1>1. IsFiniteSet(S)
    <2>1. IsFiniteSet(0..MaxId)
      BY AccountsAssumption, FS_Interval
    <2> QED
      BY <2>1, AccountsAssumption, FS_Subset
  <1>2. /\ s \in Accounts /\ b \in Accounts /\ FeeAccount \in Accounts
        /\ ResidualAccount \in Accounts /\ ClearingCash \in Accounts /\ ClearingToken \in Accounts
    BY AccountsDiffer DEF SettlementAccounts
  <1>3. /\ SellerNet(r) \in Int /\ ExchangeFee(r) \in Int /\ r.residual \in Int
        /\ r.tokens \in Int /\ cash \in Int
        /\ cash = SellerNet(r) + ExchangeFee(r) + r.residual
    BY RowsAreWhole
  <1>b. /\ s # b /\ s # FeeAccount /\ s # ResidualAccount /\ b # FeeAccount /\ b # ResidualAccount
        /\ FeeAccount # ResidualAccount /\ ClearingCash # ClearingToken
        /\ s # ClearingCash /\ s # ClearingToken /\ FeeAccount # ClearingCash /\ FeeAccount # ClearingToken
    BY AccountsDiffer
  <1>4. /\ debit[s] = SellerNet(r) /\ debit[FeeAccount] = ExchangeFee(r)
        /\ debit[ResidualAccount] = r.residual /\ debit[b] = r.tokens
        /\ \A a \in Accounts : debit[a] \in Int
        /\ \A a \in Accounts : a \notin {s, FeeAccount, ResidualAccount, b} => debit[a] = 0
    BY <1>2, <1>3, <1>b, AmountsAre
  <1>5. /\ credit[ClearingCash] = cash /\ credit[ClearingToken] = r.tokens
        /\ credit[s] = 0 /\ credit[FeeAccount] = 0
        /\ \A a \in Accounts : credit[a] \in Int
        /\ \A a \in Accounts :
              a \notin {ClearingCash, ClearingToken, s, FeeAccount} => credit[a] = 0
    BY <1>2, <1>3, <1>b, AmountsAre
  <1>6. /\ Total(DvpLegs(t, r), "DEBIT", S) = SumFunctionOnSet(debit, S)
        /\ Total(DvpLegs(t, r), "CREDIT", S) = SumFunctionOnSet(credit, S)
    BY DEF Total
  <1> HIDE DEF debit, credit, s, b, cash
  <1>7. SumFunctionOnSet(debit, S) =
           Only(S, s, debit[s]) + Only(S, FeeAccount, debit[FeeAccount])
           + Only(S, ResidualAccount, debit[ResidualAccount]) + Only(S, b, debit[b])
    <2>1. \A x \in S : debit[x] \in Int
      BY <1>4
    <2>2. ZeroBut(debit, S, s, FeeAccount, ResidualAccount, b)
      BY <1>4, <1>b DEF ZeroBut
    <2> QED
      BY ONLY <1>1, <2>1, <2>2, SumOfFour, SMT
  <1>8. SumFunctionOnSet(credit, S) =
           Only(S, ClearingCash, credit[ClearingCash]) + Only(S, ClearingToken, credit[ClearingToken])
           + Only(S, s, credit[s]) + Only(S, FeeAccount, credit[FeeAccount])
    <2>1. \A x \in S : credit[x] \in Int
      BY <1>5
    <2>2. ZeroBut(credit, S, ClearingCash, ClearingToken, s, FeeAccount)
      BY <1>5, <1>b DEF ZeroBut
    <2> QED
      BY ONLY <1>1, <2>1, <2>2, SumOfFour, SMT
  <1>9. SumFunctionOnSet(debit, S) = SumFunctionOnSet(credit, S)
    BY <1>3, <1>4, <1>5, <1>7, <1>8 DEF Only, s, b
  <1> QED
    BY <1>6, <1>9

\* What a trade moves is never negative and never more than it is worth.
LEMMA MovesAreSmall ==
    ASSUME TermsPay, NEW t \in Trades, NEW a \in Accounts
    PROVE  /\ Volume(t) \in Nat
           /\ CommitEffect(t, a) \in 0..Volume(t)
           /\ CommitEffect(t, a) + DvpEffect(t, a) \in 0..Volume(t)
           /\ Moved(t, a) \in 0..Volume(t)
  <1>1. /\ Terms(t).cash \in Nat /\ Terms(t).tokens \in Nat /\ Terms(t).buyerFee \in Nat
        /\ Terms(t).residual \in Nat /\ SellerNet(Terms(t)) \in Nat /\ ExchangeFee(Terms(t)) \in Nat
        /\ Terms(t).cash + Terms(t).buyerFee = SellerNet(Terms(t)) + ExchangeFee(Terms(t)) + Terms(t).residual
    <2>1. Terms(t) \in Rows /\ ExchangeFee(Terms(t)) >= 0 /\ SellerNet(Terms(t)) > 0
      BY TermsAreWhole DEF TermsPay
    <2> QED
      BY <2>1, RowsAreWhole
  <1>2. Volume(t) \in Nat /\ CommitEffect(t, a) \in 0..Volume(t)
    BY <1>1 DEF Volume, CommitEffect
  <1>3. CommitEffect(t, a) + DvpEffect(t, a) \in 0..Volume(t)
    <2>1. DvpEffect(t, a) = -CommitEffect(t, a) \/
          /\ DvpEffect(t, a) \in {SellerNet(Terms(t)), ExchangeFee(Terms(t)), Terms(t).residual, Terms(t).tokens}
          /\ a \notin {ClearingCash, ClearingToken}
      BY <1>1, EffectsAre, AccountsDiffer
    <2>2. a \notin {ClearingCash, ClearingToken} => CommitEffect(t, a) = 0
      BY DEF CommitEffect
    <2> QED
      BY <1>1, <1>2, <2>1, <2>2 DEF Volume
  <1> QED
    BY <1>2, <1>3 DEF Moved

\* While a trade is open, its commitment is still there, and there is room for what
\* delivery versus payment does.
LEMMA RoomForDvp ==
    ASSUME TermsPay, AllFits, BalancesFollowFinality,
           NEW t \in Trades, status[t] \in {"CREATED", "FUNDED"}, NEW a \in Accounts
    PROVE  /\ balance[a] >= CommitEffect(t, a)
           /\ balance[a] + DvpEffect(t, a) \in 0..MaxNumeric
  <1> DEFINE f == MovedOn(a)
             g == [u \in Trades |-> IF u = t THEN CommitEffect(t, a) + DvpEffect(t, a)
                                             ELSE Moved(u, a)]
             v == [u \in Trades |-> Volume(u)]
  <1>1. IsFiniteSet(Trades) /\ IsFiniteSet(Trades \ {t})
    BY SettlementAssumption, FS_RemoveElement
  <1>2. Moved(t, a) = CommitEffect(t, a)
    BY EffectsAreWhole DEF Moved
  <1>3. /\ \A u \in Trades : f[u] \in Nat /\ g[u] \in Nat /\ v[u] \in Nat /\ g[u] <= v[u]
        /\ \A u \in Trades : u # t => g[u] = f[u]
        /\ f[t] = CommitEffect(t, a) /\ g[t] = f[t] + DvpEffect(t, a)
    BY <1>2, MovesAreSmall DEF MovedOn
  <1>4. balance[a] = SumFunctionOnSet(f, Trades)
    BY BalancesAre
  <1>5. SumFunctionOnSet(v, Trades) <= MaxNumeric
    BY DEF AllFits
  <1>d. CommitEffect(t, a) \in Int /\ DvpEffect(t, a) \in Int
    BY EffectsAreWhole
  <1> HIDE DEF f, g, v
  <1>6. balance[a] >= CommitEffect(t, a)
    <2>1. SumFunctionOnSet(f, Trades) = f[t] + SumFunctionOnSet(f, Trades \ {t})
      <3>1. \A u \in Trades : f[u] \in Int
        BY <1>3
      <3> QED
        BY ONLY <1>1, <3>1, t \in Trades, SumRemove, SMT
    <2>2. SumFunctionOnSet(f, Trades \ {t}) \in Nat
      <3>1. \A u \in Trades \ {t} : f[u] \in Nat
        BY <1>3
      <3> QED
        BY <1>1, <3>1, SumNat, Zenon
    <2> QED
      BY <1>3, <1>4, <1>d, <2>1, <2>2
  <1>7. SumFunctionOnSet(g, Trades) = balance[a] + DvpEffect(t, a)
    <2>1. \A u \in Trades : f[u] \in Int /\ g[u] \in Int
      BY <1>3
    <2>2. SumFunctionOnSet(g, Trades) = SumFunctionOnSet(f, Trades) + (g[t] - f[t])
      BY <1>1, <1>3, <2>1, SumChange
    <2>3. SumFunctionOnSet(f, Trades) \in Int
      BY ONLY <1>1, <2>1, SumInt, SMT
    <2> QED
      BY <1>3, <1>4, <1>d, <2>2, <2>3
  <1>8. SumFunctionOnSet(g, Trades) \in Nat /\ SumFunctionOnSet(v, Trades) \in Nat
    <2>1. (\A u \in Trades : g[u] \in Nat) /\ (\A u \in Trades : v[u] \in Nat)
      BY <1>3
    <2> QED
      BY <1>1, <2>1, SumNat, Zenon
  <1>9. SumFunctionOnSet(g, Trades) <= SumFunctionOnSet(v, Trades)
    <2>1. \A u \in Trades : g[u] \in Int /\ v[u] \in Int /\ g[u] <= v[u]
      BY <1>3
    <2> QED
      BY <1>1, <2>1, SumMonotone, Zenon
  <1> QED
    BY <1>5, <1>6, <1>7, <1>8, <1>9, AccountsAssumption

\* No trade is worth more than the column holds.
LEMMA VolumeFits ==
    ASSUME TermsPay, AllFits, NEW t \in Trades
    PROVE  Volume(t) <= MaxNumeric
  <1> DEFINE v == [u \in Trades |-> Volume(u)]
  <1>1. IsFiniteSet(Trades) /\ IsFiniteSet(Trades \ {t})
    BY SettlementAssumption, FS_RemoveElement
  <1>2. \A u \in Trades : Volume(u) \in Nat
    <2> SUFFICES ASSUME NEW u \in Trades PROVE Volume(u) \in Nat
      OBVIOUS
    <2>1. Terms(u) \in Rows
      BY TermsAreWhole
    <2>2. Terms(u).cash \in Nat /\ Terms(u).buyerFee \in Nat /\ Terms(u).tokens \in Nat
      BY <2>1, RowsAreWhole
    <2> QED
      BY <2>2 DEF Volume
  <1>3. /\ \A u \in Trades : v[u] \in Int
        /\ \A u \in Trades \ {t} : v[u] \in Nat
        /\ v[t] = Volume(t) /\ Volume(t) \in Nat
    BY <1>2
  <1>4. SumFunctionOnSet(v, Trades) <= MaxNumeric
    BY DEF AllFits
  <1> HIDE DEF v
  <1>5. SumFunctionOnSet(v, Trades) = v[t] + SumFunctionOnSet(v, Trades \ {t})
    BY <1>1, <1>3, SumRemove
  <1>6. SumFunctionOnSet(v, Trades \ {t}) \in Nat
    BY <1>1, <1>3, SumNat, Zenon
  <1> QED
    BY <1>3, <1>4, <1>5, <1>6, AccountsAssumption

\* The legs of a trade are well formed ...
LEMMA LegsAreWellFormed ==
    ASSUME NEW t \in Trades, NEW r \in Rows, ExchangeFee(r) >= 0, SellerNet(r) > 0, r.tokens > 0,
           r.cash + r.buyerFee + r.tokens <= MaxNumeric
    PROVE  WellFormed(DvpLegs(t, r))
  <1> DEFINE D == DOMAIN DvpLegs(t, r)
             x == <<ClearingCash, "CREDIT">>  y == <<ClearingToken, "CREDIT">>
  <1>1. /\ r.cash \in Nat /\ r.tokens \in Nat /\ r.buyerFee \in Nat
        /\ r.residual \in Nat /\ SellerNet(r) \in Nat /\ ExchangeFee(r) \in Nat
        /\ r.cash + r.buyerFee = SellerNet(r) + ExchangeFee(r) + r.residual
        /\ SellerNet(r) > 0 /\ r.tokens > 0 /\ r.cash + r.buyerFee + r.tokens <= MaxNumeric
    BY RowsAreWhole
  <1>a. ExchangeFee(r) >= 0
    OBVIOUS
  <1>2. Cardinality(D) >= 2
    <2>a. ClearingCash # ClearingToken
      BY AccountsDiffer
    <2>b. x \in D /\ y \in D
      BY <1>a, LegsAre, Zenon
    <2>1. x \in D /\ y \in D /\ x # y
      BY <2>a, <2>b
    <2>2. IsFiniteSet(D)
      <3>1. IsFiniteSet(0..MaxId)
        BY AccountsAssumption, FS_Interval
      <3>2. IsFiniteSet(Accounts)
        BY <3>1, AccountsAssumption, FS_Subset
      <3>3. IsFiniteSet(Directions)
        <4>1. Directions = {"DEBIT"} \cup {"CREDIT"}
          BY DEF Directions
        <4> QED
          BY <4>1, FS_Singleton, FS_AddElement
      <3>4. IsFiniteSet(Accounts \X Directions)
        BY <3>2, <3>3, FS_Product
      <3>5. D \subseteq Accounts \X Directions
        <4>1. D \subseteq DOMAIN Movements(t, r)
          BY DEF DvpLegs, Restrict, Movements
        <4>2. ASSUME NEW side \in DOMAIN Movements(t, r) PROVE side \in Accounts \X Directions
          <5>1. /\ ClearingCash \in Accounts /\ SellerCash[t] \in Accounts
                /\ FeeAccount \in Accounts /\ ResidualAccount \in Accounts
                /\ ClearingToken \in Accounts /\ BuyerToken[t] \in Accounts
            BY AccountsDiffer DEF SettlementAccounts
          <5>2. \/ side = <<ClearingCash, "CREDIT">> \/ side = <<SellerCash[t], "DEBIT">>
                \/ side = <<FeeAccount, "DEBIT">> \/ side = <<ResidualAccount, "DEBIT">>
                \/ side = <<ClearingToken, "CREDIT">> \/ side = <<BuyerToken[t], "DEBIT">>
            BY <4>2, MovementsAre, Zenon
          <5> QED
            BY <5>1, <5>2 DEF Directions
        <4> QED
          BY <4>1, <4>2
      <3> QED
        BY <3>4, <3>5, FS_Subset
    <2> HIDE DEF x, y, D
    <2>c. IsFiniteSet({x}) /\ Cardinality({x}) = 1 /\ y \notin {x}
      BY <2>1, FS_Singleton
    <2>3. Cardinality({x} \cup {y}) = 2 /\ {x} \cup {y} \subseteq D
      BY <2>1, <2>c, FS_AddElement
    <2>4. Cardinality({x} \cup {y}) <= Cardinality(D) /\ Cardinality(D) \in Nat
      BY <2>2, <2>3, FS_Subset, FS_CardinalityType
    <2> QED
      BY <2>3, <2>4
  <1>3. ASSUME NEW side \in D PROVE DvpLegs(t, r)[side] > 0 /\ DvpLegs(t, r)[side] <= MaxNumeric
    <2>1. \/ side = <<ClearingCash, "CREDIT">> \/ side = <<SellerCash[t], "DEBIT">>
          \/ side = <<FeeAccount, "DEBIT">> /\ ExchangeFee(r) # 0
          \/ side = <<ResidualAccount, "DEBIT">> /\ r.residual # 0
          \/ side = <<ClearingToken, "CREDIT">> \/ side = <<BuyerToken[t], "DEBIT">>
      BY <1>a, <1>3, LegsAre, Zenon
    <2>2. DvpLegs(t, r)[side] = Movements(t, r)[side]
      BY <1>a, <1>3, LegsAre, Zenon
    <2>3. \/ Movements(t, r)[side] = r.cash + r.buyerFee
          \/ Movements(t, r)[side] = SellerNet(r)
          \/ Movements(t, r)[side] = ExchangeFee(r) /\ ExchangeFee(r) # 0
          \/ Movements(t, r)[side] = r.residual /\ r.residual # 0
          \/ Movements(t, r)[side] = r.tokens
      BY <2>1, MovementsAre, Zenon
    <2> QED
      BY <1>1, <2>2, <2>3, AccountsAssumption
  <1>4. Total(DvpLegs(t, r), "DEBIT", Accounts) = Total(DvpLegs(t, r), "CREDIT", Accounts)
    <2>1. /\ ClearingCash \in Accounts /\ SellerCash[t] \in Accounts /\ FeeAccount \in Accounts
          /\ ResidualAccount \in Accounts /\ ClearingToken \in Accounts /\ BuyerToken[t] \in Accounts
      BY AccountsDiffer DEF SettlementAccounts
    <2> QED
      BY <1>1, <2>1, LegsBalance
  <1> QED
    BY <1>2, <1>3, <1>4 DEF WellFormed

\* ... and balance in each denomination.
LEMMA LegsBalanceByDenomination ==
    ASSUME NEW t \in Trades, NEW r \in Rows, ExchangeFee(r) >= 0
    PROVE  BalancedByDenomination(DvpLegs(t, r))
  <1> SUFFICES ASSUME NEW d
               PROVE  LET as == {a \in Accounts : Denomination[a] = d}
                      IN  Total(DvpLegs(t, r), "DEBIT", as) = Total(DvpLegs(t, r), "CREDIT", as)
    BY DEF BalancedByDenomination
  <1> DEFINE as == {a \in Accounts : Denomination[a] = d}
  <1>1. ExchangeFee(r) >= 0 /\ as \subseteq Accounts
    OBVIOUS
  <1>2. /\ ClearingCash \in as <=> SellerCash[t] \in as
        /\ ClearingCash \in as <=> FeeAccount \in as
        /\ ClearingCash \in as <=> ResidualAccount \in as
        /\ ClearingToken \in as <=> BuyerToken[t] \in as
    <2>1. /\ Denomination[FeeAccount] = Denomination[ClearingCash]
          /\ Denomination[ResidualAccount] = Denomination[ClearingCash]
          /\ Denomination[SellerCash[t]] = Denomination[ClearingCash]
          /\ Denomination[BuyerToken[t]] = Denomination[ClearingToken]
      BY SettlementAssumption
    <2>2. /\ ClearingCash \in Accounts /\ SellerCash[t] \in Accounts /\ FeeAccount \in Accounts
          /\ ResidualAccount \in Accounts /\ ClearingToken \in Accounts /\ BuyerToken[t] \in Accounts
      BY AccountsDiffer DEF SettlementAccounts
    <2> QED
      BY <2>1, <2>2
  <1> HIDE DEF as
  <1>3. Total(DvpLegs(t, r), "DEBIT", as) = Total(DvpLegs(t, r), "CREDIT", as)
    BY <1>1, <1>2, LegsBalance
  <1> QED
    BY <1>3 DEF as

\* Once the accounts are there, neither executeDvp nor the ledger refuses a funded trade.
LEMMA LedgerTakesDvp ==
    ASSUME TermsPay, AllFits, IndInv, BalancesFollowFinality,
           NEW t \in Trades, status[t] = "FUNDED", SettlementAccounts(t) \subseteq opened
    PROVE  DvpRefusal(t) = None
  <1>0. PICK r \in Rows : /\ r = row[t] /\ ExchangeFee(r) >= 0 /\ SellerNet(r) > 0 /\ r.tokens > 0
                         /\ Volume(t) = r.cash + r.buyerFee + r.tokens
                         /\ OmsLegs[t] = DvpLegs(t, r)
    BY TermsAreWhole DEF IndInv, RowsAreSound, TermsPay, Volume, OmsLegs
  <1>1. Touched(DvpLegs(t, r)) \subseteq opened
    <2>1. \A side \in DOMAIN DvpLegs(t, r) : side[1] \in SettlementAccounts(t)
      <3>1. DOMAIN DvpLegs(t, r) \subseteq DOMAIN Movements(t, r)
        BY DEF DvpLegs, Restrict, Movements
      <3>2. \A side \in DOMAIN Movements(t, r) : side[1] \in SettlementAccounts(t)
        <4> SUFFICES ASSUME NEW side \in DOMAIN Movements(t, r)
                     PROVE  side[1] \in SettlementAccounts(t)
          OBVIOUS
        <4>1. \/ side = <<ClearingCash, "CREDIT">> \/ side = <<SellerCash[t], "DEBIT">>
              \/ side = <<FeeAccount, "DEBIT">> \/ side = <<ResidualAccount, "DEBIT">>
              \/ side = <<ClearingToken, "CREDIT">> \/ side = <<BuyerToken[t], "DEBIT">>
          BY MovementsAre, Zenon
        <4> QED
          BY <4>1 DEF SettlementAccounts
      <3> QED
        BY <3>1, <3>2
    <2>2. \A a \in Touched(DvpLegs(t, r)) : a \in SettlementAccounts(t)
      <3> SUFFICES ASSUME NEW a \in Touched(DvpLegs(t, r)) PROVE a \in SettlementAccounts(t)
        OBVIOUS
      <3>1. PICK d \in Directions : <<a, d>> \in DOMAIN DvpLegs(t, r)
        BY DEF Touched
      <3>2. <<a, d>>[1] = a
        OBVIOUS
      <3> QED
        BY <2>1, <3>1, <3>2
    <2> QED
      BY <2>2
  <1>2. \A a \in Touched(DvpLegs(t, r)) :
            balance[a] + Effect(DvpLegs(t, r), a) \in 0..MaxNumeric
    <2>1. Touched(DvpLegs(t, r)) \subseteq Accounts
      BY DEF Touched
    <2> QED
      BY <1>0, <2>1, RoomForDvp DEF DvpEffect
  <1>3. LedgerAccepts(DvpLegs(t, r))
    BY <1>0, <1>1, <1>2, VolumeFits, LegsAreWellFormed, LegsBalanceByDenomination DEF LedgerAccepts
  <1>4. ~(ExchangeFee(r) < 0 \/ SellerNet(r) < 0)
    BY <1>0, RowsAreWhole
  <1> QED
    BY <1>0, <1>3, <1>4 DEF DvpRefusal

\* Clearing holds what an open trade committed.
LEMMA FundingIsThere ==
    ASSUME TermsPay, AllFits, IndInv, BalancesFollowFinality,
           NEW t \in Trades, status[t] = "CREATED", FundRefusal(t) # None
    PROVE  FundRefusal(t) = "NOT_CONFIGURED"
  <1>1. /\ balance[ClearingCash] >= CommitEffect(t, ClearingCash)
        /\ balance[ClearingToken] >= CommitEffect(t, ClearingToken)
    BY RoomForDvp, AccountsDiffer DEF SettlementAccounts
  <1>2. /\ CommitEffect(t, ClearingCash) = Terms(t).cash + Terms(t).buyerFee
        /\ CommitEffect(t, ClearingToken) = Terms(t).tokens
    BY AccountsDiffer DEF CommitEffect
  <1>a. row[t] = Terms(t) /\ Terms(t) \in Rows
    BY TermsAreWhole DEF IndInv, RowsAreSound
  <1>3. /\ balance[ClearingCash] \in Int /\ balance[ClearingToken] \in Int
    <2>1. balance \in [Accounts -> 0..MaxNumeric] /\ MaxNumeric \in Nat
      BY AccountsAssumption DEF IndInv, TypeOK
    <2>2. ClearingCash \in Accounts /\ ClearingToken \in Accounts
      BY SettlementAssumption
    <2> QED
      BY ONLY <2>1, <2>2
  <1>4. ~(\/ Terms(t).cash < Terms(t).sellerFee
          \/ balance[ClearingCash] < Terms(t).cash + Terms(t).buyerFee
          \/ balance[ClearingToken] < Terms(t).tokens)
    BY <1>1, <1>2, <1>3, <1>a, RowsAreWhole DEF TermsPay, SellerNet
  <1> QED
    BY <1>4, <1>a DEF FundRefusal

Cause == {"NOT_CONFIGURED", "INTERRUPTED"}

\* A funded trade has its accounts, a worker on its way to executeDvp has a trade that
\* is past CREATED, and an error that could still fail a trade is a cause.
Causes ==
    /\ FailureHasCause
    /\ \A t \in Trades : status[t] = "FUNDED" => SettlementAccounts(t) \subseteq opened
    /\ \A w \in Workers :
          /\ pc[w] = "dvp" => status[trade[w]] # "CREATED"
          /\ pc[w] = "failing" =>
                error[w] \in Cause \/ status[trade[w]] \notin {"CREATED", "FUNDED"}

\* Steps that fail no trade and fund none, by a worker that ends up in neither of the
\* two stages the invariant speaks of.
LEMMA CausesKept ==
    ASSUME IndInv, Causes, IndInv',
           opened \subseteq opened', UNCHANGED failure,
           \A t \in Trades : status'[t] \in {"FUNDED", "FAILED_BEFORE_FINALITY"} =>
                                 status'[t] = status[t],
           \A t \in Trades : status'[t] = "CREATED" => status[t] \in {"NONE", "CREATED"},
           \A w \in Workers :
              \/ pc'[w] = pc[w] /\ trade'[w] = trade[w] /\ error'[w] = error[w]
              \/ pc'[w] \notin {"dvp", "failing"}
    PROVE  Causes'
  <1>1. FailureHasCause'
    BY DEF Causes, FailureHasCause
  <1>2. (\A t \in Trades : status[t] = "FUNDED" => SettlementAccounts(t) \subseteq opened)'
    BY DEF Causes, SettlementAccounts
  <1>3. ASSUME NEW w \in Workers
        PROVE  (/\ pc[w] = "dvp" => status[trade[w]] # "CREATED"
                /\ pc[w] = "failing" =>
                     error[w] \in Cause \/ status[trade[w]] \notin {"CREATED", "FUNDED"})'
    <2>1. CASE pc'[w] \notin {"dvp", "failing"}
      BY <2>1
    <2>2. CASE pc'[w] \in {"dvp", "failing"}
      <3>1. pc'[w] = pc[w] /\ trade'[w] = trade[w] /\ error'[w] = error[w]
        BY <2>2
      <3>2. trade[w] \in Trades /\ status[trade[w]] # "NONE"
        BY <2>2, <3>1 DEF IndInv, WorkersAreSound
      <3> QED
        BY <2>2, <3>1, <3>2 DEF Causes
    <2> QED
      BY <2>1, <2>2
  <1> QED
    BY <1>1, <1>2, <1>3 DEF Causes

\* A worker catches an error.
LEMMA CausesThrown ==
    ASSUME IndInv, Causes, NEW w \in Workers, NEW e, Throw(w, e),
           e \in Cause \/ status[trade[w]] \notin {"CREATED", "FUNDED"}
    PROVE  Causes'
  <1>1. /\ pc' = [pc EXCEPT ![w] = "failing"] /\ error' = [error EXCEPT ![w] = e]
        /\ UNCHANGED <<opened, status, failure, trade>>
    BY DEF Throw
  <1>2. ASSUME NEW v \in Workers
        PROVE  (/\ pc[v] = "dvp" => status[trade[v]] # "CREATED"
                /\ pc[v] = "failing" =>
                     error[v] \in Cause \/ status[trade[v]] \notin {"CREATED", "FUNDED"})'
    <2>1. CASE v = w
      BY <1>1, <2>1 DEF IndInv, TypeOK
    <2>2. CASE v # w
      BY <1>1, <2>2 DEF IndInv, TypeOK, Causes
    <2> QED
      BY <2>1, <2>2
  <1> QED
    BY <1>1, <1>2 DEF Causes, FailureHasCause, SettlementAccounts

LEMMA CausesStep ==
    ASSUME TermsPay, AllFits
    PROVE  IndInv /\ BalancesFollowFinality /\ Causes /\ [Next]_vars => Causes'
  <1> SUFFICES ASSUME IndInv, BalancesFollowFinality, Causes, [Next]_vars PROVE Causes'
    OBVIOUS
  <1>0. IndInv'
    BY NextInv
  <1>1. CASE UNCHANGED vars
    BY <1>1 DEF vars, Causes, FailureHasCause, SettlementAccounts
  <1>2. CASE \/ \E a \in Accounts : OpenAccount(a)
             \/ \E t \in Trades : TradeExecuted(t) \/ Edit(t)
             \/ Reconcile
    <2>1. /\ opened \subseteq opened' /\ UNCHANGED <<failure, workers>>
      BY <1>2 DEF OpenAccount, TradeExecuted, Edit, Reconcile
    <2>2. /\ \A t \in Trades : status'[t] \in {"FUNDED", "FAILED_BEFORE_FINALITY"} =>
                                  status'[t] = status[t]
          /\ \A t \in Trades : status'[t] = "CREATED" => status[t] \in {"NONE", "CREATED"}
      BY <1>2 DEF OpenAccount, TradeExecuted, Edit, Reconcile, IndInv, TypeOK
    <2> QED
      BY <1>0, <2>1, <2>2, CausesKept DEF workers
  <1>3. ASSUME NEW w \in Workers, NEW t \in Trades, Deliver(w, t) PROVE Causes'
    <2>1. /\ UNCHANGED <<opened, failure, status>>
          /\ pc' = [pc EXCEPT ![w] = "fund"] /\ trade' = [trade EXCEPT ![w] = t]
          /\ UNCHANGED error
      BY <1>3 DEF Deliver
    <2>2. \A v \in Workers :
              \/ pc'[v] = pc[v] /\ trade'[v] = trade[v] /\ error'[v] = error[v]
              \/ pc'[v] \notin {"dvp", "failing"}
      BY <2>1 DEF IndInv, TypeOK
    <2> QED
      BY <1>0, <2>1, <2>2, CausesKept
  <1>4. ASSUME NEW w \in Workers, Return(w), UNCHANGED <<opened, failure, status>>
        PROVE  Causes'
    <2>1. \A v \in Workers :
              \/ pc'[v] = pc[v] /\ trade'[v] = trade[v] /\ error'[v] = error[v]
              \/ pc'[v] \notin {"dvp", "failing"}
      BY <1>4 DEF Return, IndInv, TypeOK
    <2> QED
      BY <1>0, <1>4, <2>1, CausesKept
  <1>5. ASSUME NEW w \in Workers, Fund(w) PROVE Causes'
    <2>1. PICK t \in Trades : t = trade[w]
      BY <1>5 DEF Fund, IndInv, WorkersAreSound
    <2>2. /\ status[t] = "CREATED" /\ FundRefusal(t) = None
          /\ status' = [status EXCEPT ![t] = "FUNDED"] /\ pc' = [pc EXCEPT ![w] = "dvp"]
          /\ UNCHANGED <<opened, failure, trade, error>>
      BY <1>5, <2>1 DEF Fund
    <2>3. SettlementAccounts(t) \subseteq opened
      BY <2>2, NoneAssumption DEF FundRefusal
    <2>4. status'[t] = "FUNDED" /\ \A u \in Trades : u # t => status'[u] = status[u]
      BY <2>2 DEF IndInv, TypeOK
    <2>5. FailureHasCause'
      BY <2>2, <2>4 DEF Causes, FailureHasCause
    <2>6. (\A u \in Trades : status[u] = "FUNDED" => SettlementAccounts(u) \subseteq opened)'
      BY <2>2, <2>3, <2>4 DEF Causes, SettlementAccounts
    <2>7. ASSUME NEW v \in Workers
          PROVE  (/\ pc[v] = "dvp" => status[trade[v]] # "CREATED"
                  /\ pc[v] = "failing" =>
                       error[v] \in Cause \/ status[trade[v]] \notin {"CREATED", "FUNDED"})'
      <3>1. pc'[v] = "dvp" => status'[trade'[v]] # "CREATED"
        <4>1. CASE v = w
          BY <2>1, <2>2, <2>4, <4>1
        <4>2. CASE v # w
          BY <2>1, <2>2, <2>4, <4>2 DEF Causes, IndInv, TypeOK, WorkersAreSound
        <4> QED
          BY <4>1, <4>2
      <3>2. pc'[v] = "failing" =>
               error'[v] \in Cause \/ status'[trade'[v]] \notin {"CREATED", "FUNDED"}
        <4>1. pc'[v] = "failing" => v # w /\ pc[v] = "failing" /\ trade[v] \in Trades
          BY <2>2 DEF IndInv, TypeOK, WorkersAreSound
        <4>2. pc'[v] = "failing" => error[v] \in Cause \/ status[trade[v]] \notin {"CREATED", "FUNDED"}
          BY <4>1 DEF Causes
        <4>3. CASE trade[v] = t
          BY <2>2, <4>2, <4>3
        <4>4. CASE trade[v] # t
          BY <2>2, <2>4, <4>1, <4>2, <4>4
        <4> QED
          BY <4>3, <4>4
      <3> QED
        BY <3>1, <3>2
    <2> QED
      BY <2>5, <2>6, <2>7 DEF Causes
  <1>6. ASSUME NEW w \in Workers, RefuseFund(w) PROVE Causes'
    <2>1. PICK t \in Trades : t = trade[w]
      BY <1>6 DEF RefuseFund, IndInv, WorkersAreSound
    <2>2. status[t] = "CREATED" /\ FundRefusal(t) # None /\ Throw(w, FundRefusal(t))
      BY <1>6, <2>1 DEF RefuseFund
    <2>3. FundRefusal(t) \in Cause
      BY <2>2, FundingIsThere DEF Cause
    <2> QED
      BY <2>2, <2>3, CausesThrown
  <1>7. ASSUME NEW w \in Workers, SkipFund(w) PROVE Causes'
    <2>1. PICK t \in Trades : t = trade[w]
      BY <1>7 DEF SkipFund, IndInv, WorkersAreSound
    <2>2. CASE status[t] = "FUNDED"
      <3>1. /\ pc' = [pc EXCEPT ![w] = "dvp"]
            /\ UNCHANGED <<opened, failure, status, trade, error>>
        BY <1>7, <2>1, <2>2 DEF SkipFund
      <3>2. ASSUME NEW v \in Workers
            PROVE  (/\ pc[v] = "dvp" => status[trade[v]] # "CREATED"
                    /\ pc[v] = "failing" =>
                         error[v] \in Cause \/ status[trade[v]] \notin {"CREATED", "FUNDED"})'
        <4>1. CASE v = w
          BY <2>1, <2>2, <3>1, <4>1 DEF IndInv, TypeOK
        <4>2. CASE v # w
          BY <3>1, <4>2 DEF IndInv, TypeOK, Causes
        <4> QED
          BY <4>1, <4>2
      <3> QED
        BY <3>1, <3>2 DEF Causes, FailureHasCause, SettlementAccounts
    <2>3. CASE status[t] # "FUNDED"
      BY <1>4, <1>7, <2>1, <2>3 DEF SkipFund
    <2> QED
      BY <2>2, <2>3
  <1>8. ASSUME NEW w \in Workers, Dvp(w) PROVE Causes'
    <2>1. PICK t \in Trades : t = trade[w]
      BY <1>8 DEF Dvp, IndInv, WorkersAreSound
    <2>2. /\ status' = [status EXCEPT ![t] = "LEGALLY_FINAL"] /\ pc' = [pc EXCEPT ![w] = "answer"]
          /\ UNCHANGED <<opened, failure, trade, error>>
      BY <1>8, <2>1 DEF Dvp
    <2>3. /\ \A u \in Trades : status'[u] \in {"FUNDED", "FAILED_BEFORE_FINALITY"} =>
                                  status'[u] = status[u]
          /\ \A u \in Trades : status'[u] = "CREATED" => status[u] \in {"NONE", "CREATED"}
      BY <2>2 DEF IndInv, TypeOK
    <2>4. \A v \in Workers :
              \/ pc'[v] = pc[v] /\ trade'[v] = trade[v] /\ error'[v] = error[v]
              \/ pc'[v] \notin {"dvp", "failing"}
      BY <2>2 DEF IndInv, TypeOK
    <2> QED
      BY <1>0, <2>2, <2>3, <2>4, CausesKept
  <1>9. ASSUME NEW w \in Workers, RefuseDvp(w) PROVE Causes'
    <2>1. PICK t \in Trades : t = trade[w]
      BY <1>9 DEF RefuseDvp, IndInv, WorkersAreSound
    <2>2. status[t] # "FUNDED"
      BY <1>9, <2>1, LedgerTakesDvp DEF RefuseDvp, Causes
    <2>3. status[t] # "CREATED" /\ Throw(w, "WRONG_STATUS")
      BY <1>9, <2>1, <2>2 DEF RefuseDvp, Causes
    <2> QED
      BY <2>1, <2>2, <2>3, CausesThrown
  <1>10. ASSUME NEW w \in Workers, MarkFailed(w) PROVE Causes'
    <2>1. PICK t \in Trades : t = trade[w]
      BY <1>10 DEF MarkFailed, IndInv, WorkersAreSound
    <2>2. CASE status[t] \notin {"CREATED", "FUNDED"}
      BY <1>4, <1>10, <2>1, <2>2 DEF MarkFailed
    <2>3. CASE status[t] \in {"CREATED", "FUNDED"}
      <3>1. /\ status' = [status EXCEPT ![t] = "FAILED_BEFORE_FINALITY"]
            /\ failure' = [failure EXCEPT ![t] = error[w]]
            /\ pc[w] = "failing" /\ Return(w) /\ UNCHANGED opened
        BY <1>10, <2>1, <2>3 DEF MarkFailed
      <3>2. error[w] \in Cause
        BY <2>1, <2>3, <3>1 DEF Causes
      <3>3. /\ status'[t] = "FAILED_BEFORE_FINALITY" /\ failure'[t] \in Cause
            /\ \A u \in Trades : u # t => status'[u] = status[u] /\ failure'[u] = failure[u]
        BY <3>1, <3>2 DEF IndInv, TypeOK
      <3>4. FailureHasCause'
        BY <3>3 DEF Causes, FailureHasCause, Cause
      <3>5. (\A u \in Trades : status[u] = "FUNDED" => SettlementAccounts(u) \subseteq opened)'
        BY <3>1, <3>3 DEF Causes, SettlementAccounts
      <3>6. ASSUME NEW v \in Workers, pc'[v] \in {"dvp", "failing"}
            PROVE  /\ v # w /\ pc'[v] = pc[v] /\ trade'[v] = trade[v] /\ error'[v] = error[v]
                   /\ trade[v] \in Trades
        <4>1. v # w /\ pc'[v] = pc[v] /\ trade'[v] = trade[v] /\ error'[v] = error[v]
          BY <3>1, <3>6 DEF Return, IndInv, TypeOK
        <4> QED
          BY <3>6, <4>1 DEF IndInv, WorkersAreSound
      <3>7. ASSUME NEW v \in Workers
            PROVE  (/\ pc[v] = "dvp" => status[trade[v]] # "CREATED"
                    /\ pc[v] = "failing" =>
                         error[v] \in Cause \/ status[trade[v]] \notin {"CREATED", "FUNDED"})'
        <4>1. CASE pc'[v] \notin {"dvp", "failing"}
          BY <4>1
        <4>2. CASE pc'[v] \in {"dvp", "failing"} /\ trade[v] = t
          BY <3>3, <3>6, <4>2
        <4>3. CASE pc'[v] \in {"dvp", "failing"} /\ trade[v] # t
          BY <3>3, <3>6, <4>3 DEF Causes
        <4> QED
          BY <4>1, <4>2, <4>3
      <3> QED
        BY <3>4, <3>5, <3>7 DEF Causes
    <2> QED
      BY <2>2, <2>3
  <1>11. ASSUME NEW w \in Workers, Interrupt(w) PROVE Causes'
    BY <1>11, CausesThrown DEF Interrupt, Cause
  <1>12. ASSUME NEW w \in Workers, SkipDvp(w) \/ Answer(w) \/ Crash(w) PROVE Causes'
    BY <1>4, <1>12 DEF SkipDvp, Answer, Crash
  <1> QED
    BY <1>1, <1>2, <1>3, <1>5, <1>6, <1>7, <1>8, <1>9, <1>10, <1>11, <1>12 DEF Next, Work

\* If OMS leaves something to both sides of every trade and all trades together fit the
\* column, a trade fails only for a missing account or an error of the infrastructure:
\* neither the funding check nor the ledger ever refuses what OMS committed, whatever
\* other deliveries and trades do.
THEOREM SettlementFailureHasCause ==
    ASSUME TermsPay, AllFits
    PROVE  Spec => []FailureHasCause
  <1>1. Init => Causes
    BY DEF Init, Causes, FailureHasCause
  <1>2. Causes => FailureHasCause
    BY DEF Causes
  <1>3. IndInv /\ BalancesFollowFinality /\ Causes /\ [Next]_vars => Causes'
    BY CausesStep
  <1> QED
    BY <1>1, <1>2, <1>3, SettlementInvariant, SettlementBalances, PTL DEF Spec

=============================================================================
