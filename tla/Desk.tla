---------------------------------- MODULE Desk ----------------------------------
(***************************************************************************)
(* OrderTicket.tsx and OrdersTable.tsx, from which traders place and cancel *)
(* orders, together with oms.service.ts for several instruments.  Commands  *)
(* of one instrument come one after the other; those of different           *)
(* instruments run at the same time and meet at the cash accounts that      *)
(* their parties use for all instruments.  A transaction locks the accounts *)
(* of each posting in the order of their ids, posting by posting, and keeps *)
(* them.  Orders have one price here, and reserve one unit of cash for each *)
(* token they buy; parties buy or sell; tokens always suffice.  Oms has     *)
(* prices, fees and tokens for one instrument.                              *)
(***************************************************************************)
EXTENDS Integers, FiniteSets, Sequences, SequencesExt

CONSTANTS
    Instruments, Parties,
    Tabs,         \* open tickets
    Wants,        \* the order that each ticket describes
    Resting,      \* ids of the orders that rest in the books at the start
    AtStart,      \* the books at the start
    Cash,         \* available cash of each party at the start
    GetsBack,     \* whether a buyer's fills cost less than was reserved for them
    AccountIds,   \* the cash accounts in the order of their ids
    MaxTrouble,   \* bound on lost calls, crashes, changes of mind and halts
    None

Answers == {"accepted", "refused"}
Purposes == {"AVAILABLE", "RESERVED"}
Accounts == Parties \X Purposes
Sides == {"BUY", "SELL"}

\* What the ticket lets through, as place does; lots and limits are kept.
ValidOrders ==
    [party : Parties, instrument : Instruments, side : Sides, quantity : Nat \ {0}]

ASSUME DeskAssumption ==
    /\ Wants \in [Tabs -> ValidOrders]
    /\ Cash \in [Parties -> Nat] /\ GetsBack \in [Parties -> BOOLEAN]
    /\ Range(AccountIds) = Accounts /\ IsInjective(AccountIds)
    /\ MaxTrouble \in Nat
    /\ None \notin Answers

\* clientOrderId and idempotencyKey of a ticket, renewed with every change of it.
Identities == Tabs \X (1..MaxTrouble + 1)

VARIABLES
    ticket,     \* per tab: how often it has changed, and what it waits for
    sent,       \* requests that no transaction has taken up
    tx,         \* per instrument: the transaction under way
    book,       \* per instrument and side: resting orders, one entry for each token
    cash,       \* balances of the cash accounts
    trading,    \* whether the status of the instrument admits orders
    stored,     \* order_commands: the answer for each identity
    orders,     \* rows of orders with each identity
    heard,      \* history: the answers each identity has got
    trouble     \* how much has gone wrong so far

ledger == <<book, cash, stored, orders>>
vars == <<ticket, sent, tx, ledger, trading, heard, trouble>>

Unit(order, party) == [order |-> order, party |-> party]
Identity(t) == <<t, ticket[t].changes>>
Place(t) == [kind |-> "PLACE", order |-> Identity(t), instrument |-> Wants[t].instrument,
             party |-> Wants[t].party, live |-> TRUE]
Want(r) == Wants[r.order[1]]

Init ==
    /\ ticket = [t \in Tabs |-> [changes |-> 1, phase |-> "ready"]]
    /\ sent = {}
    /\ tx = [i \in Instruments |-> None]
    /\ book = AtStart
    /\ cash = [a \in Accounts |-> IF a[2] = "AVAILABLE" THEN Cash[a[1]] ELSE
           LET bids(i) == SelectSeq(AtStart[i].BUY, LAMBDA u : u.party = a[1]) IN
           FoldSet(LAMBDA i, n : n + Len(bids(i)), 0, Instruments)]
    /\ trading = [i \in Instruments |-> TRUE]
    /\ stored = [d \in Identities |-> None]
    /\ orders = [d \in Identities |-> 0]
    /\ heard = [d \in Identities |-> {}]
    /\ trouble = 0

Trouble == trouble < MaxTrouble /\ trouble' = trouble + 1

-----------------------------------------------------------------------------
(* The browser *)

\* The button is disabled while a call is under way; the identity is kept over
\* errors and answers alike.
Submit(t) ==
    /\ ticket[t].phase # "waiting"
    /\ ticket[t].phase = "done" => trouble < MaxTrouble
    /\ trouble' = IF ticket[t].phase = "done" THEN trouble + 1 ELSE trouble
    /\ ticket' = [ticket EXCEPT ![t].phase = "waiting"]
    /\ sent' = sent \cup {Place(t)}
    /\ UNCHANGED <<tx, ledger, trading, heard>>

\* A field is changed, also while a call is under way, whose answer the ticket then
\* shows all the same.
Change(t) ==
    /\ Trouble
    /\ ticket' = [ticket EXCEPT ![t] = [changes |-> @.changes + 1,
                      phase |-> IF @.phase = "waiting" THEN "waiting" ELSE "ready"]]
    /\ UNCHANGED <<sent, tx, ledger, trading, heard>>

\* The connection breaks: the request may be lost, or go on without its caller.
Forgotten(r, t) == IF r.order[1] = t THEN [r EXCEPT !.live = FALSE] ELSE r
LoseCall(t) ==
    /\ ticket[t].phase = "waiting" /\ Trouble
    /\ ticket' = [ticket EXCEPT ![t].phase = "failed"]
    /\ \/ /\ sent' = {Forgotten(r, t) : r \in sent}
          /\ tx' = [i \in Instruments |-> IF tx[i] = None THEN None
                        ELSE [tx[i] EXCEPT !.request = Forgotten(@, t)]]
       \/ /\ \E r \in sent : r.live /\ r.order[1] = t /\ sent' = sent \ {r}
          /\ UNCHANGED tx
    /\ UNCHANGED <<ledger, trading, heard>>

\* OrdersTable offers to cancel what is still open.
Rests(o, i) == \E u \in Range(book[i].BUY) : u.order = o
AskCancel(i, u) ==
    LET r == [kind |-> "CANCEL", order |-> u.order, instrument |-> i, party |-> u.party,
              live |-> FALSE] IN
    /\ u.order \in Resting /\ u \in Range(book[i].BUY)
    /\ r \notin sent
    /\ \A j \in Instruments : tx[j] # None => tx[j].request # r
    /\ sent' = sent \cup {r}
    /\ UNCHANGED <<ticket, tx, ledger, trading, heard, trouble>>

-----------------------------------------------------------------------------
(* A transaction *)

\* The instrument is in PRIMARY or ACTIVE, and has book, fees and accounts.
Admits(i) == trading[i]

\* The accounts of one posting, in the order in which the ledger locks them.
InIdOrder(A) == SelectSeq(AccountIds, LAMBDA a : a \in A)
Pair(p) == InIdOrder({<<p, "AVAILABLE">>, <<p, "RESERVED">>})

\* The orders that an order of quantity n meets.
Makers(i, side, n) ==
    LET opposite == book[i][IF side = "BUY" THEN "SELL" ELSE "BUY"] IN
    SubSeq(opposite, 1, IF n < Len(opposite) THEN n ELSE Len(opposite))

\* One posting for each fill: the buyer's reserve, and his available cash if some
\* comes back.
FillLocks(p) == IF GetsBack[p] THEN Pair(p) ELSE <<<<p, "RESERVED">>>>

\* What a command locks: a buyer's reserve is his own, and so are the fills of a
\* buy; a sell pays from the reserves of those it meets, one after the other.
LocksOf(i, r) ==
    IF r.kind = "CANCEL" THEN IF Rests(r.order, i) THEN Pair(r.party) ELSE <<>>
    ELSE IF stored[r.order] # None \/ ~Admits(i) THEN <<>>
    ELSE IF Want(r).side = "BUY" THEN Pair(r.party)
    ELSE LET makers == Makers(i, "SELL", Want(r).quantity) IN
         FlattenSeq([k \in DOMAIN makers |-> FillLocks(makers[k].party)])

Begin(i) ==
    /\ tx[i] = None
    /\ \E r \in {r \in sent : r.instrument = i} :
          /\ sent' = sent \ {r}
          /\ tx' = [tx EXCEPT ![i] =
                 [request |-> r, locks |-> LocksOf(i, r), holds |-> {}, queued |-> FALSE]]
    /\ UNCHANGED <<ticket, ledger, trading, heard, trouble>>

Needs(i, a) == tx[i] # None /\ tx[i].locks # <<>> /\ Head(tx[i].locks) = a
IsHeld(a, S) == \E j \in S : tx[j] # None /\ a \in tx[j].holds

\* A lock that is held is waited for, and goes to who waits before anybody else.
Queue(i) ==
    /\ \E a \in Accounts : Needs(i, a) /\ IsHeld(a, Instruments \ {i}) /\ ~tx[i].queued
    /\ tx' = [tx EXCEPT ![i].queued = TRUE]
    /\ UNCHANGED <<ticket, sent, ledger, trading, heard, trouble>>

Lock(i) ==
    /\ \E a \in Accounts :
          /\ Needs(i, a) /\ ~IsHeld(a, Instruments \ {i})
          /\ tx[i].queued \/ \A j \in Instruments : Needs(j, a) => ~tx[j].queued
          /\ tx' = [tx EXCEPT ![i].locks = Tail(@), ![i].holds = @ \cup {a}, ![i].queued = FALSE]
    /\ UNCHANGED <<ticket, sent, ledger, trading, heard, trouble>>

\* Who waits for whom in a circle.
Circle(S) == \A i \in S : \E a \in Accounts :
    Needs(i, a) /\ tx[i].queued /\ IsHeld(a, S \ {i})

\* The answer reaches the ticket if it still waits for it; a failure is not stored.
Tell(r, phase) ==
    ticket' = IF r.live THEN [ticket EXCEPT ![r.order[1]].phase = phase] ELSE ticket

\* Seeded fault: no ROLLBACK, so the connection keeps its locks.
AbortWithoutRollback(i) ==
    /\ \E S \in SUBSET Instruments : i \in S /\ Circle(S)
    /\ Tell(tx[i].request, "failed")
    /\ tx' = [tx EXCEPT ![i].request.live = FALSE]
    /\ UNCHANGED <<sent, ledger, trading, heard, trouble>>

\* Postgres ends one transaction of a circle, which rolls back: 500.
Abort(i) ==
    /\ \E S \in SUBSET Instruments : i \in S /\ Circle(S)
    /\ tx' = [tx EXCEPT ![i] = None]
    /\ Tell(tx[i].request, "failed")
    /\ UNCHANGED <<sent, ledger, trading, heard, trouble>>

-----------------------------------------------------------------------------
(* Its end *)

Commit(i, r) ==
    /\ tx[i] # None /\ tx[i].locks = <<>> /\ tx[i].request = r
    /\ tx' = [tx EXCEPT ![i] = None]

Hear(r, answer) ==
    /\ Tell(r, "done")
    /\ heard' = IF r.live THEN [heard EXCEPT ![r.order] = @ \cup {answer}] ELSE heard

\* findStoredCommand and findClientOrder: ticket and key go together.
Replay(i, r) ==
    /\ r.kind = "PLACE" /\ stored[r.order] # None /\ Commit(i, r)
    /\ Hear(r, stored[r.order])
    /\ UNCHANGED <<sent, ledger, trading, trouble>>

Funded(r) == Want(r).side = "BUY" => cash[r.party, "AVAILABLE"] >= Want(r).quantity
MayPlace(i, r) == r.kind = "PLACE" /\ stored[r.order] = None /\ Commit(i, r)

\* Seeded fault: only orders are stored, so a refused command is tried again.
ForgetRefusal(r) == stored' = stored
StoreRefusal(r) == stored' = [stored EXCEPT ![r.order] = "refused"]

\* INSUFFICIENT_FUNDS, or a status of the instrument that admits no orders.
Refuse(i, r) ==
    /\ MayPlace(i, r) /\ ~(Admits(i) /\ Funded(r))
    /\ StoreRefusal(r) /\ Hear(r, "refused")
    /\ UNCHANGED <<sent, book, cash, orders, trading, trouble>>

\* Reserve, match and post.  The fills are paid from the reserves.
CashAfter(i, r) ==
    LET makers == Makers(i, Want(r).side, Want(r).quantity)
        paid(p) == IF Want(r).side = "BUY" THEN IF p = r.party THEN Len(makers) ELSE 0
                   ELSE Len(SelectSeq(makers, LAMBDA u : u.party = p))
        reserved(p) == IF Want(r).side = "BUY" /\ p = r.party THEN Want(r).quantity ELSE 0 IN
    [a \in Accounts |-> cash[a] +
        IF a[2] = "AVAILABLE" THEN -reserved(a[1]) ELSE reserved(a[1]) - paid(a[1])]

BookAfter(i, r) ==
    LET side == Want(r).side
        other == IF side = "BUY" THEN "SELL" ELSE "BUY"
        met == Len(Makers(i, side, Want(r).quantity))
        rest == [k \in 1..Want(r).quantity - met |-> Unit(r.order, r.party)] IN
    [book EXCEPT ![i][other] = SubSeq(@, met + 1, Len(@)), ![i][side] = @ \o rest]

Accept(i, r) ==
    /\ MayPlace(i, r) /\ Admits(i) /\ Funded(r)
    /\ cash' = CashAfter(i, r)
    /\ book' = BookAfter(i, r)
    /\ orders' = [orders EXCEPT ![r.order] = @ + 1]
    /\ stored' = [stored EXCEPT ![r.order] = "accepted"]
    /\ Hear(r, "accepted")
    /\ UNCHANGED <<sent, trading, trouble>>

\* What is left of the order is given back; without a rest nothing happens.
Cancel(i, r) ==
    /\ r.kind = "CANCEL" /\ Commit(i, r)
    /\ LET left == Len(SelectSeq(book[i].BUY, LAMBDA u : u.order = r.order)) IN
       cash' = [cash EXCEPT ![<<r.party, "AVAILABLE">>] = @ + left, ![<<r.party, "RESERVED">>] = @ - left]
    /\ book' = [book EXCEPT ![i].BUY = SelectSeq(@, LAMBDA u : u.order # r.order)]
    /\ UNCHANGED <<ticket, sent, stored, orders, trading, heard, trouble>>

End(i) == \E r \in {tx[i].request} : Replay(i, r) \/ Refuse(i, r) \/ Accept(i, r) \/ Cancel(i, r)

\* The process dies with all transactions and callers.
Crash ==
    /\ Trouble
    /\ sent' = {} /\ tx' = [i \in Instruments |-> None]
    /\ ticket' = [t \in Tabs |-> IF ticket[t].phase = "waiting"
                                 THEN [ticket[t] EXCEPT !.phase = "failed"] ELSE ticket[t]]
    /\ UNCHANGED <<ledger, trading, heard>>

\* The instrument is suspended or resumed; a transaction keeps its row shared.
Switch(i) ==
    /\ tx[i] = None /\ Trouble
    /\ trading' = [trading EXCEPT ![i] = ~@]
    /\ UNCHANGED <<ticket, sent, tx, ledger, heard>>

Run(i) ==
    \/ Begin(i) \/ Queue(i) \/ Lock(i) \/ Abort(i)
    \/ tx[i] # None /\ End(i)

Next ==
    \/ \E t \in Tabs : Submit(t) \/ Change(t) \/ LoseCall(t)
    \/ \E i \in Instruments : \/ Run(i) \/ Switch(i)
                              \/ \E u \in Range(book[i].BUY) : AskCancel(i, u)
    \/ Crash

\* The trader tries again after an error; the commands of an instrument go on, and
\* Postgres looks for circles.
Fairness ==
    /\ \A t \in Tabs : WF_vars(ticket[t].phase = "failed" /\ Submit(t))
    /\ \A i \in Instruments : WF_vars(Run(i))

Spec == Init /\ [][Next]_vars
FairSpec == Spec /\ Fairness

-----------------------------------------------------------------------------
(* Properties *)

\* openapi.yaml:1048: the key of a ticket gets one answer and has one effect,
\* however often it is sent, lost, aborted or overtaken by its own repetition: a
\* trader who was told of a refusal has no order and never will by this ticket,
\* though the money is there by now, and who was told of an order has that one.
AnswersAreFinal == \A d \in Identities :
    /\ Cardinality(heard[d]) <= 1 /\ orders[d] <= 1
    /\ "accepted" \in heard[d] => orders[d] = 1
    /\ "refused" \in heard[d] => orders[d] = 0

\* A trader who goes on trying is answered, though transactions of different
\* instruments wait for each other in circles: packages/ledger/README.md:5 rules
\* circles out for single postings only.
EveryTicketIsAnswered == []<>(\A t \in Tabs : ticket[t].phase \in {"done", "ready"})
=============================================================================
