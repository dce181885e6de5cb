----------------------------- MODULE OracleStream -----------------------------
(***************************************************************************)
(* The way of an event from the grain registry to the market:               *)
(* packages/adapters/src/ezr-registry-mock, which changes receipts, numbers *)
(* the changes and sends them from an outbox, and apps/core/src/            *)
(* oracle-gateway, which applies them in the order of their numbers.        *)
(*                                                                         *)
(* A caller is one call of issueReceipt, lockReceipt, releaseReceipt or     *)
(* drainOutbox.  Its transaction takes effect in one step, under the locks  *)
(* of the receipt and of the counter; but created_at of its outbox row is   *)
(* the time at which the transaction began, so BEGIN is a step of its own.  *)
(* The gateway judges a request in one transaction under the lock of the    *)
(* source.  Requests and answers may be lost; a request may be judged long  *)
(* after its sender gave up.                                                *)
(***************************************************************************)
EXTENDS Integers, Sequences

CONSTANTS
    Receipts,
    Redemptions,  \* ids a receipt is released for
    Callers,      \* concurrent calls of the registry
    MaxNonce,     \* MAX_SAFE_NONCE of the registry
    Troubles,     \* which of "LOSS", "CRASH", "OUTAGE", "REVOCATION" may happen
    MaxTroubles,  \* bound on how many of them happen
    None          \* no value

ASSUME StreamAssumption ==
    /\ MaxNonce \in Nat
    /\ MaxTroubles \in Nat
    /\ None \notin Redemptions /\ None \notin Receipts
    /\ Callers \cap Nat = {}

VARIABLES
    receipt,   \* mock_ezr_receipts: [status, redemption]
    outbox,    \* mock_ezr_http_outbox in the order of nonces; its length is the counter
    order,     \* transactions by created_at: callers while open, then nonces
    answer,    \* oracle_events: the stored outcome of each nonce judged so far
    trusted,   \* the key of the source is not revoked
    old,       \* events up to this nonce are outside the freshness window
    sent,      \* nonces of requests on their way to the gateway
    pc,        \* stage of each caller
    job,       \* the change a caller is about: [type, receipt, redemption]
    todo,      \* nonces a caller has read from the outbox and not dealt with
    troubles   \* failures so far

vars == <<receipt, outbox, order, answer, trusted, old, sent, pc, job, todo, troubles>>
registry == <<receipt, outbox, order>>
gateway == <<answer, trusted, old>>
callers == <<pc, job, todo>>

Types == {"STOCK_UPDATED", "RECEIPT_LOCKED", "GOODS_RELEASED"}
Stages == {"idle", "open", "committed", "drain", "waiting"}
Accepted == {"APPLIED", "QUARANTINED", "DUPLICATE"}   \* HTTP 202
Outcomes == Accepted \cup {"STALE", "REJECTED"}       \* HTTP 422

Init ==
    /\ receipt = [r \in Receipts |-> [status |-> "NONE", redemption |-> None]]
    /\ outbox = <<>>
    /\ order = <<>>
    /\ answer = [n \in {} |-> None]
    /\ trusted = TRUE
    /\ old = 0
    /\ sent = {}
    /\ pc = [c \in Callers |-> "idle"]
    /\ job = [c \in Callers |-> None]
    /\ todo = [c \in Callers |-> {}]
    /\ troubles = 0

------------------------------------------------------------------------------
\* The registry's transactions.

StatusBefore(type) ==
    CASE type = "STOCK_UPDATED" -> "NONE"
      [] type = "RECEIPT_LOCKED" -> "AVAILABLE"
      [] type = "GOODS_RELEASED" -> "LOCKED"

StatusAfter(type) ==
    CASE type = "STOCK_UPDATED" -> "AVAILABLE"
      [] type = "RECEIPT_LOCKED" -> "LOCKED"
      [] type = "GOODS_RELEASED" -> "RELEASED"

\* BEGIN of issueReceipt, lockReceipt or releaseReceipt.  Two calls never issue
\* the same receipt, whose id is random.
Begin(c) ==
    \E type \in Types, r \in Receipts, d \in Redemptions :
        /\ pc[c] = "idle"
        /\ type = "STOCK_UPDATED" =>
              /\ receipt[r].status = "NONE"
              /\ \A e \in Callers :
                    pc[e] = "open" => job[e].receipt # r \/ job[e].type # "STOCK_UPDATED"
        /\ type # "STOCK_UPDATED" => receipt[r].status # "NONE"
        /\ pc' = [pc EXCEPT ![c] = "open"]
        /\ job' = [job EXCEPT ![c] = [type |-> type, receipt |-> r,
                      redemption |-> IF type = "GOODS_RELEASED" THEN d ELSE None]]
        /\ order' = Append(order, c)
        /\ UNCHANGED <<receipt, outbox, gateway, sent, todo, troubles>>

Goto(c, stage) == pc' = [pc EXCEPT ![c] = stage]

\* The transaction leaves no row behind.
Forget(c) ==
    /\ \/ /\ \A i \in DOMAIN order : order[i] # c
          /\ UNCHANGED order
       \/ \E i \in DOMAIN order :
             /\ order[i] = c
             /\ order' = SubSeq(order, 1, i - 1) \o SubSeq(order, i + 1, Len(order))
    /\ job' = [job EXCEPT ![c] = None]

\* releaseReceipt was done before, for the same redemption.
AlreadyReleased(c) ==
    /\ job[c].type = "GOODS_RELEASED"
    /\ receipt[job[c].receipt] = [status |-> "RELEASED", redemption |-> job[c].redemption]

\* The receipt may change and the counter has a nonce left.
MayChange(c) ==
    /\ receipt[job[c].receipt].status = StatusBefore(job[c].type)
    /\ Len(outbox) < MaxNonce

\* Seeded fault: the status was checked before the row was locked.
ChangeAnyStatus(c) ==
    LET r == job[c].receipt IN
    /\ pc[c] = "open"
    /\ Len(outbox) < MaxNonce
    /\ receipt' = [receipt EXCEPT ![r] = [status |-> StatusAfter(job[c].type),
                                          redemption |-> job[c].redemption]]
    /\ outbox' = Append(outbox, [receipt |-> r, type |-> job[c].type, delivered |-> FALSE])
    /\ order' = [i \in DOMAIN order |-> IF order[i] = c THEN Len(outbox) + 1 ELSE order[i]]
    /\ job' = [job EXCEPT ![c] = None]
    /\ Goto(c, "committed")
    /\ UNCHANGED <<gateway, sent, todo, troubles>>

\* changeReceipt up to COMMIT: the receipt, the nonce and the outbox row.
Change(c) ==
    LET r == job[c].receipt IN
    /\ pc[c] = "open"
    /\ MayChange(c)
    /\ receipt' = [receipt EXCEPT ![r] = [status |-> StatusAfter(job[c].type),
                                          redemption |-> job[c].redemption]]
    /\ outbox' = Append(outbox, [receipt |-> r, type |-> job[c].type, delivered |-> FALSE])
    /\ order' = [i \in DOMAIN order |-> IF order[i] = c THEN Len(outbox) + 1 ELSE order[i]]
    /\ job' = [job EXCEPT ![c] = None]
    /\ Goto(c, "committed")
    /\ UNCHANGED <<gateway, sent, todo, troubles>>

\* A repeated release commits nothing but drains the outbox all the same.
RepeatRelease(c) ==
    /\ pc[c] = "open"
    /\ AlreadyReleased(c)
    /\ Forget(c)
    /\ Goto(c, "committed")
    /\ UNCHANGED <<receipt, outbox, gateway, sent, todo, troubles>>

\* ALREADY_ENCUMBERED or INVALID_STATE, and ROLLBACK.
RefuseChange(c) ==
    /\ pc[c] = "open"
    /\ ~MayChange(c) /\ ~AlreadyReleased(c)
    /\ Forget(c)
    /\ Goto(c, "idle")
    /\ UNCHANGED <<receipt, outbox, gateway, sent, todo, troubles>>

------------------------------------------------------------------------------
\* drainOutbox.

\* drainOutbox called by itself.
Drain(c) ==
    /\ pc[c] = "idle"
    /\ Goto(c, "committed")
    /\ UNCHANGED <<registry, gateway, sent, job, todo, troubles>>

ReadOutbox(c) ==
    /\ pc[c] = "committed"
    /\ todo' = [todo EXCEPT ![c] = {n \in DOMAIN outbox : ~outbox[n].delivered}]
    /\ Goto(c, "drain")
    /\ UNCHANGED <<registry, gateway, sent, job, troubles>>

BeganBefore(m, n) == \E i, j \in DOMAIN order : i < j /\ order[i] = m /\ order[j] = n

\* Seeded fault: the rows are read without ORDER BY.
AnyOf(c) == todo[c]

\* The row the caller deals with next: ORDER BY created_at.
NextOf(c) == {n \in todo[c] : \A m \in todo[c] \ {n} : BeganBefore(n, m)}

\* Another call has delivered the row meanwhile.
Skip(c) ==
    \E n \in NextOf(c) :
        /\ pc[c] = "drain"
        /\ outbox[n].delivered
        /\ todo' = [todo EXCEPT ![c] = @ \ {n}]
        /\ UNCHANGED <<registry, gateway, sent, pc, job, troubles>>

Send(c) ==
    \E n \in NextOf(c) :
        /\ pc[c] = "drain"
        /\ ~outbox[n].delivered
        /\ sent' = sent \cup {n}
        /\ Goto(c, "waiting")
        /\ UNCHANGED <<registry, gateway, job, todo, troubles>>

\* Seeded fault: any answer counts as success.
MarkDeliveredUnread(c) ==
    \E n \in NextOf(c) :
        /\ pc[c] = "waiting"
        /\ n \in DOMAIN answer
        /\ outbox' = [outbox EXCEPT ![n].delivered = TRUE]
        /\ todo' = [todo EXCEPT ![c] = @ \ {n}]
        /\ Goto(c, "drain")
        /\ UNCHANGED <<receipt, order, gateway, sent, job, troubles>>

\* HTTP 202: the row is delivered, whatever the receipt of the gateway says.
MarkDelivered(c) ==
    \E n \in NextOf(c) :
        /\ pc[c] = "waiting"
        /\ n \in DOMAIN answer /\ answer[n] \in Accepted
        /\ outbox' = [outbox EXCEPT ![n].delivered = TRUE]
        /\ todo' = [todo EXCEPT ![c] = @ \ {n}]
        /\ Goto(c, "drain")
        /\ UNCHANGED <<receipt, order, gateway, sent, job, troubles>>

\* HTTP 422: the row stays, and the drain ends with it.
KeepUndelivered(c) ==
    \E n \in NextOf(c) :
        /\ pc[c] = "waiting"
        /\ n \in DOMAIN answer /\ answer[n] \notin Accepted
        /\ todo' = [todo EXCEPT ![c] = {}]
        /\ Goto(c, "idle")
        /\ UNCHANGED <<registry, gateway, sent, job, troubles>>

FinishDrain(c) ==
    /\ pc[c] = "drain"
    /\ todo[c] = {}
    /\ Goto(c, "idle")
    /\ UNCHANGED <<registry, gateway, sent, job, todo, troubles>>

------------------------------------------------------------------------------
\* The gateway.

Applied == {n \in DOMAIN answer : answer[n] = "APPLIED"}
LastApplied ==
    IF Applied = {} THEN 0 ELSE CHOOSE n \in Applied : \A m \in Applied : m <= n

\* DUPLICATE is for events that are new under an old nonce, which this registry
\* does not send.
Verdict(n) ==
    CASE ~trusted            -> "REJECTED"
      [] n <= LastApplied    -> "DUPLICATE"
      [] n > LastApplied + 1 -> "QUARANTINED"
      [] n <= old            -> "STALE"
      [] OTHER               -> "APPLIED"

\* Seeded fault: a request under a known key is judged again.
AcceptAgain(n) ==
    /\ n \in sent
    /\ answer' = [m \in DOMAIN answer \cup {n} |-> IF m = n THEN Verdict(n) ELSE answer[m]]
    /\ sent' = sent \ {n}
    /\ UNCHANGED <<registry, trusted, old, callers, troubles>>

\* execute: the first request for an event is judged and its outcome stored; a
\* later one is told the stored outcome.
Accept(n) ==
    /\ n \in sent
    /\ answer' = [m \in DOMAIN answer \cup {n} |->
                     IF m \in DOMAIN answer THEN answer[m] ELSE Verdict(n)]
    /\ sent' = sent \ {n}
    /\ UNCHANGED <<registry, trusted, old, callers, troubles>>

------------------------------------------------------------------------------
\* What may go wrong.

Trouble(kind) ==
    /\ kind \in Troubles
    /\ troubles < MaxTroubles
    /\ troubles' = troubles + 1

\* Seeded fault: an event is given up after an HTTP attempt that failed.
LoseForGood(c) ==
    \E n \in NextOf(c) :
        /\ Trouble("LOSS")
        /\ pc[c] = "waiting"
        /\ sent' = sent \ {n}
        /\ outbox' = [outbox EXCEPT ![n].delivered = TRUE]
        /\ todo' = [todo EXCEPT ![c] = {}]
        /\ Goto(c, "idle")
        /\ UNCHANGED <<receipt, order, gateway, job>>

\* The request or its answer is lost, or fetch gives up while the request is still
\* on its way: publish throws and the drain ends.
Lose(c) ==
    /\ Trouble("LOSS")
    /\ pc[c] = "waiting"
    /\ sent' = sent \/ \E n \in NextOf(c) : sent' = sent \ {n}
    /\ todo' = [todo EXCEPT ![c] = {}]
    /\ Goto(c, "idle")
    /\ UNCHANGED <<registry, gateway, job>>

\* The process of the registry dies, or a query of the drain fails.
Crash(c) ==
    /\ Trouble("CRASH")
    /\ pc[c] # "idle"
    /\ Forget(c)
    /\ todo' = [todo EXCEPT ![c] = {}]
    /\ Goto(c, "idle")
    /\ UNCHANGED <<receipt, outbox, gateway, sent>>

\* The freshness window passes before the events so far are judged.
GrowOld ==
    /\ Trouble("OUTAGE")
    /\ old < Len(outbox)
    /\ old' = Len(outbox)
    /\ UNCHANGED <<registry, answer, trusted, sent, callers>>

RevokeKey ==
    /\ Trouble("REVOCATION")
    /\ trusted
    /\ trusted' = FALSE
    /\ UNCHANGED <<registry, answer, old, sent, callers>>

------------------------------------------------------------------------------
Step(c) ==
    \/ Change(c) \/ RepeatRelease(c) \/ RefuseChange(c)
    \/ ReadOutbox(c) \/ Skip(c) \/ Send(c) \/ MarkDelivered(c)
    \/ KeepUndelivered(c) \/ FinishDrain(c)

Next ==
    \/ \E c \in Callers : Begin(c) \/ Drain(c) \/ Step(c) \/ Lose(c) \/ Crash(c)
    \/ \E n \in sent : Accept(n)
    \/ GrowOld
    \/ RevokeKey

Spec == Init /\ [][Next]_vars

\* Calls go on, requests arrive unless they are lost, and somebody drains the
\* outbox again and again; README.md of the registry leaves that to its users.
Fairness ==
    /\ \A c \in Callers : WF_vars(Step(c)) /\ SF_vars(Drain(c))
    /\ \A n \in 1..MaxNonce : WF_vars(Accept(n))
FairSpec == Spec /\ Fairness

------------------------------------------------------------------------------
\* Properties.

\* Type invariant.
TypeOK ==
    /\ receipt \in [Receipts -> [status : {"NONE", "AVAILABLE", "LOCKED", "RELEASED"},
                                 redemption : Redemptions \cup {None}]]
    /\ outbox \in Seq([receipt : Receipts, type : Types, delivered : BOOLEAN])
    /\ Len(outbox) <= MaxNonce
    /\ DOMAIN answer \subseteq DOMAIN outbox
    /\ \A n \in DOMAIN answer : answer[n] \in Outcomes
    /\ trusted \in BOOLEAN
    /\ old \in 0..MaxNonce
    /\ sent \subseteq DOMAIN outbox
    /\ pc \in [Callers -> Stages]
    /\ \A c \in Callers : pc[c] = "open" =>
          job[c] \in [type : Types, receipt : Receipts, redemption : Redemptions \cup {None}]
    /\ todo \in [Callers -> SUBSET DOMAIN outbox]
    /\ troubles \in 0..MaxTroubles

\* However requests are lost, repeated or overtaken, the market has applied the
\* first so many events of the registry, without a gap.
AppliedIsPrefix == \E k \in 0..Len(outbox) : Applied = 1..k

Before(type) == CHOOSE t \in Types : StatusAfter(t) = StatusBefore(type)

\* What the market applies for a receipt is its life in order: each kind of event
\* once, locked only after issued, released only after locked, even when calls
\* on one receipt race.
ReceiptHistory ==
    \A n \in Applied :
        /\ \A m \in Applied \ {n} :
              outbox[m].receipt = outbox[n].receipt => outbox[m].type # outbox[n].type
        /\ outbox[n].type # "STOCK_UPDATED" =>
              \E m \in Applied :
                  /\ m < n
                  /\ outbox[m].receipt = outbox[n].receipt
                  /\ outbox[m].type = Before(outbox[n].type)

\* An event counts as delivered only if the gateway has stored an outcome for it
\* and answered 202.
DeliveredIsAccepted ==
    \A n \in DOMAIN outbox :
        outbox[n].delivered => n \in DOMAIN answer /\ answer[n] \in Accepted

\* README.md of the gateway: duplicate, stale, quarantined and rejected events are
\* terminal, as are applied ones; no retry changes an outcome.
OutcomesAreTerminal ==
    [][\A n \in DOMAIN answer : n \in DOMAIN answer' /\ answer'[n] = answer[n]]_vars

\* The registry numbers its own events and sends them in order, so the gateway
\* never finds a gap.
NothingIsQuarantined == \A n \in DOMAIN answer : answer[n] # "QUARANTINED"

\* Every change of a receipt reaches the market in the end.
EveryEventIsApplied == \A n \in 1..MaxNonce : n \in DOMAIN outbox ~> n \in Applied

\* Refinement.
Log == INSTANCE EventLog WITH
    status <- [r \in Receipts |-> receipt[r].status],
    log <- [n \in DOMAIN outbox |-> [receipt |-> outbox[n].receipt, type |-> outbox[n].type]],
    applied <- LastApplied
ImplementsEventLog == Log!Spec
=============================================================================
