-------------------------- MODULE OracleStreamProofs --------------------------
(***************************************************************************)
(* Proofs about OracleStream, for every set of receipts, redemptions and    *)
(* callers, every nonce limit and every kind and number of troubles.        *)
(***************************************************************************)
EXTENDS OracleStream, SequenceTheorems, TLAPS

Row == [receipt : Receipts, type : Types, delivered : BOOLEAN]

\* The variables that are functions are functions.
Shape ==
    /\ answer = [n \in DOMAIN answer |-> answer[n]]
    /\ job = [c \in Callers |-> job[c]]

\* Place of a type, and of the status it leads to, in the life of a receipt.
Rank(s) ==
    CASE s \in {"STOCK_UPDATED", "AVAILABLE"} -> 1
      [] s \in {"RECEIPT_LOCKED", "LOCKED"}   -> 2
      [] s \in {"GOODS_RELEASED", "RELEASED"} -> 3
      [] OTHER                                -> 0

\* The outbox tells the life of each receipt, up to its status, once and in order.
OutboxTellsLives ==
    /\ \A n \in DOMAIN outbox :
          Rank(outbox[n].type) <= Rank(receipt[outbox[n].receipt].status)
    /\ \A r \in Receipts, type \in Types :
          Rank(type) <= Rank(receipt[r].status) =>
              \E n \in DOMAIN outbox : outbox[n].receipt = r /\ outbox[n].type = type
    /\ \A m, n \in DOMAIN outbox :
          outbox[m].receipt = outbox[n].receipt =>
              /\ m # n => outbox[m].type # outbox[n].type
              /\ Rank(outbox[m].type) < Rank(outbox[n].type) => m < n

IndInv ==
    /\ Shape
    /\ TypeOK
    /\ OutboxTellsLives
    /\ AppliedIsPrefix
    /\ DeliveredIsAccepted

------------------------------------------------------------------------------
\* Facts about the helpers.

\* The two columns of the life of a receipt fit together.
LEMMA Lives ==
    ASSUME NEW type \in Types
    PROVE  /\ Rank(StatusAfter(type)) = Rank(type)
           /\ Rank(StatusBefore(type)) = Rank(type) - 1
           /\ Rank(type) \in 1..3
           /\ StatusAfter(type) \in {"AVAILABLE", "LOCKED", "RELEASED"}
           /\ type # "STOCK_UPDATED" =>
                 Before(type) \in Types /\ Rank(Before(type)) = Rank(type) - 1
  <1>1. CASE type = "STOCK_UPDATED"
    BY <1>1 DEF Rank, StatusAfter, StatusBefore, Types
  <1>2. CASE type = "RECEIPT_LOCKED"
    <2>1. Before(type) = "STOCK_UPDATED"
      BY <1>2 DEF Before, Types, StatusAfter, StatusBefore
    <2> QED
      BY <1>2, <2>1 DEF Rank, StatusAfter, StatusBefore, Types
  <1>3. CASE type = "GOODS_RELEASED"
    <2>1. Before(type) = "RECEIPT_LOCKED"
      BY <1>3 DEF Before, Types, StatusAfter, StatusBefore
    <2> QED
      BY <1>3, <2>1 DEF Rank, StatusAfter, StatusBefore, Types
  <1> QED
    BY <1>1, <1>2, <1>3 DEF Types

\* A type is known by its place.
LEMMA RankIsInjective ==
    ASSUME NEW s \in Types, NEW t \in Types, Rank(s) = Rank(t)
    PROVE  s = t
  BY DEF Rank, Types

\* Once the applied nonces are 1..k, k is the last of them.
LEMMA LastOfPrefix ==
    ASSUME NEW k \in Nat, Applied = 1..k
    PROVE  LastApplied = k
  <1>1. CASE k = 0
    BY <1>1 DEF LastApplied
  <1>2. CASE k # 0
    <2>1. k \in Applied /\ \A m \in Applied : m <= k
      BY <1>2
    <2>2. \A n \in Applied : (\A m \in Applied : m <= n) => n = k
      BY <2>1
    <2> QED
      BY <2>1, <2>2 DEF LastApplied
  <1> QED
    BY <1>1, <1>2

\* In a state of the invariant the last applied nonce is a nonce or zero.
LEMMA LastAppliedIsNonce ==
    ASSUME AppliedIsPrefix, TypeOK
    PROVE  LastApplied \in 0..Len(outbox) /\ Applied = 1..LastApplied
  <1>1. PICK k \in 0..Len(outbox) : Applied = 1..k
    BY DEF AppliedIsPrefix
  <1>2. Len(outbox) \in Nat
    BY DEF TypeOK
  <1> QED
    BY <1>1, <1>2, LastOfPrefix

\* The rows of the outbox have the type of rows.
LEMMA RowsAreTyped ==
    ASSUME TypeOK
    PROVE  /\ outbox \in Seq(Row)
           /\ DOMAIN outbox = 1..Len(outbox)
           /\ \A n \in DOMAIN outbox :
                 /\ outbox[n] \in Row
                 /\ outbox[n].receipt \in Receipts
                 /\ outbox[n].type \in Types
                 /\ outbox[n].delivered \in BOOLEAN
                 /\ outbox[n] = [receipt |-> outbox[n].receipt, type |-> outbox[n].type,
                                 delivered |-> outbox[n].delivered]
  <1>1. outbox \in Seq(Row)
    BY DEF TypeOK, Row
  <1>2. DOMAIN outbox = 1..Len(outbox)
    BY <1>1
  <1>3. \A n \in DOMAIN outbox : outbox[n] \in Row
    BY <1>1, <1>2, ElementOfSeq
  <1> QED
    BY <1>1, <1>2, <1>3 DEF Row

------------------------------------------------------------------------------
\* The inductive invariant.

\* The first state satisfies every part.
LEMMA InitInv == Init => IndInv
  <1> SUFFICES ASSUME Init PROVE IndInv
    OBVIOUS
  <1> USE StreamAssumption DEF Init
  <1>1. Shape
    BY DEF Shape
  <1>2. TypeOK
    BY DEF TypeOK, Stages
  <1>3. OutboxTellsLives
    BY DEF OutboxTellsLives, Rank, Types
  <1>4. AppliedIsPrefix
    BY DEF AppliedIsPrefix, LastApplied, Applied
  <1>5. DeliveredIsAccepted
    BY DEF DeliveredIsAccepted
  <1> QED
    BY <1>1, <1>2, <1>3, <1>4, <1>5 DEF IndInv

\* Steps that leave receipts, events and outcomes alone need only keep the types of
\* the rest.
LEMMA QuietStepInv ==
    ASSUME IndInv, UNCHANGED <<receipt, outbox, answer>>,
           job' = [c \in Callers |-> job'[c]], TypeOK'
    PROVE  IndInv'
  <1>1. Shape'
    BY DEF IndInv, Shape
  <1>2. OutboxTellsLives'
    BY DEF IndInv, OutboxTellsLives
  <1>3. AppliedIsPrefix' /\ DeliveredIsAccepted'
    BY DEF IndInv, AppliedIsPrefix, DeliveredIsAccepted, Applied
  <1> QED
    BY <1>1, <1>2, <1>3 DEF IndInv

\* Committing a change adds the next event in the life of its receipt.
LEMMA ChangeInv ==
    ASSUME IndInv, NEW c \in Callers, Change(c)
    PROVE  IndInv'
  <1> DEFINE r == job[c].receipt
             type == job[c].type
             row == [receipt |-> r, type |-> type, delivered |-> FALSE]
  <1>1. r \in Receipts /\ type \in Types /\ row \in Row
    BY DEF Change, IndInv, TypeOK, Row
  <1>2. outbox \in Seq(Row) /\ Len(outbox) < MaxNonce
    BY DEF Change, MayChange, IndInv, TypeOK, Row
  <1>3. /\ outbox' = Append(outbox, row)
        /\ outbox' \in Seq(Row)
        /\ DOMAIN outbox = 1..Len(outbox)
        /\ Len(outbox') = Len(outbox) + 1
        /\ DOMAIN outbox' = 1..(Len(outbox) + 1)
        /\ \A n \in DOMAIN outbox : outbox'[n] = outbox[n]
        /\ outbox'[Len(outbox) + 1] = row
    BY <1>1, <1>2 DEF Change
  <1>4. /\ receipt[r].status = StatusBefore(type)
        /\ receipt'[r].status = StatusAfter(type)
        /\ \A q \in Receipts : q # r => receipt'[q] = receipt[q]
        /\ UNCHANGED answer
    BY <1>1 DEF Change, MayChange, gateway, IndInv, TypeOK
  <1>5. Shape'
    BY DEF Change, IndInv, Shape, gateway
  <1>6. TypeOK'
    <2>1. receipt' \in [Receipts -> [status : {"NONE", "AVAILABLE", "LOCKED", "RELEASED"},
                                     redemption : Redemptions \cup {None}]]
      BY <1>1, Lives DEF Change, IndInv, TypeOK
    <2>2. pc' \in [Callers -> Stages]
      BY DEF Change, Goto, Stages, IndInv, TypeOK
    <2>3. \A d \in Callers : pc'[d] = "open" =>
              pc[d] = "open" /\ job'[d] = job[d]
      BY DEF Change, Goto, IndInv, TypeOK, Shape
    <2>4. todo' \in [Callers -> SUBSET DOMAIN outbox']
      BY <1>3 DEF Change, IndInv, TypeOK
    <2> QED
      BY <1>2, <1>3, <2>1, <2>2, <2>3, <2>4, StreamAssumption
         DEF Change, gateway, IndInv, TypeOK, Row
  <1>7. OutboxTellsLives'
    <2>2. \A n \in DOMAIN outbox : outbox[n].receipt \in Receipts /\ outbox[n].type \in Types
      BY RowsAreTyped DEF IndInv
    <2>1. \A n \in DOMAIN outbox : outbox[n].receipt = r => Rank(outbox[n].type) < Rank(type)
      BY <1>1, <1>4, <2>2, Lives DEF IndInv, OutboxTellsLives
    <2>3. \A t \in Types : Rank(t) \in 1..3
      BY Lives
    <2>4. \A n \in DOMAIN outbox' :
              Rank(outbox'[n].type) <= Rank(receipt'[outbox'[n].receipt].status)
      <3> SUFFICES ASSUME NEW n \in DOMAIN outbox'
                   PROVE  Rank(outbox'[n].type) <= Rank(receipt'[outbox'[n].receipt].status)
        OBVIOUS
      <3>1. CASE n = Len(outbox) + 1
        BY <1>1, <1>3, <1>4, <3>1, Lives
      <3>2. CASE n \in DOMAIN outbox /\ outbox[n].receipt = r
        BY <1>1, <1>3, <1>4, <2>1, <2>2, <2>3, <3>2, Lives
      <3>3. CASE n \in DOMAIN outbox /\ outbox[n].receipt # r
        BY <1>3, <1>4, <2>2, <3>3 DEF IndInv, OutboxTellsLives
      <3> QED
        BY <1>3, <3>1, <3>2, <3>3
    <2>5. \A q \in Receipts, t \in Types :
              Rank(t) <= Rank(receipt'[q].status) =>
                  \E n \in DOMAIN outbox' : outbox'[n].receipt = q /\ outbox'[n].type = t
      <3> SUFFICES ASSUME NEW q \in Receipts, NEW t \in Types,
                          Rank(t) <= Rank(receipt'[q].status)
                   PROVE  \E n \in DOMAIN outbox' :
                              outbox'[n].receipt = q /\ outbox'[n].type = t
        OBVIOUS
      <3>1. CASE q = r /\ t = type
        BY <1>3, <1>2, <3>1
      <3>2. CASE q = r /\ t # type
        <4>1. Rank(t) <= Rank(type) /\ Rank(t) # Rank(type)
          BY <1>1, <1>4, <3>2, Lives, RankIsInjective
        <4>2. Rank(t) <= Rank(receipt[r].status)
          BY <1>1, <1>4, <2>3, <4>1, Lives
        <4>3. PICK n \in DOMAIN outbox : outbox[n].receipt = r /\ outbox[n].type = t
          BY <1>1, <4>2 DEF IndInv, OutboxTellsLives
        <4> QED
          BY <1>3, <1>2, <3>2, <4>3
      <3>3. CASE q # r
        <4>1. PICK n \in DOMAIN outbox : outbox[n].receipt = q /\ outbox[n].type = t
          BY <1>4, <3>3 DEF IndInv, OutboxTellsLives
        <4> QED
          BY <1>3, <1>2, <4>1
      <3> QED
        BY <3>1, <3>2, <3>3
    <2>6. \A m, n \in DOMAIN outbox' :
              outbox'[m].receipt = outbox'[n].receipt =>
                  /\ m # n => outbox'[m].type # outbox'[n].type
                  /\ Rank(outbox'[m].type) < Rank(outbox'[n].type) => m < n
      <3> SUFFICES ASSUME NEW m \in DOMAIN outbox', NEW n \in DOMAIN outbox',
                          outbox'[m].receipt = outbox'[n].receipt
                   PROVE  /\ m # n => outbox'[m].type # outbox'[n].type
                          /\ Rank(outbox'[m].type) < Rank(outbox'[n].type) => m < n
        OBVIOUS
      <3>1. CASE m \in DOMAIN outbox /\ n \in DOMAIN outbox
        BY <1>3, <3>1 DEF IndInv, OutboxTellsLives
      <3>2. CASE m \in DOMAIN outbox /\ n = Len(outbox) + 1
        BY <1>1, <1>2, <1>3, <2>1, <2>2, <2>3, <3>2
      <3>3. CASE m = Len(outbox) + 1 /\ n \in DOMAIN outbox
        BY <1>1, <1>2, <1>3, <2>1, <2>2, <2>3, <3>3
      <3>4. CASE m = Len(outbox) + 1 /\ n = Len(outbox) + 1
        BY <1>1, <1>3, <2>3, <3>4
      <3> QED
        BY <1>3, <3>1, <3>2, <3>3, <3>4
    <2> QED
      BY <2>4, <2>5, <2>6 DEF OutboxTellsLives
  <1>8. AppliedIsPrefix'
    BY <1>2, <1>3, <1>4 DEF IndInv, AppliedIsPrefix, Applied
  <1>9. DeliveredIsAccepted'
    BY <1>3, <1>4 DEF IndInv, DeliveredIsAccepted
  <1> QED
    BY <1>5, <1>6, <1>7, <1>8, <1>9 DEF IndInv

\* Marking an event delivered changes nothing else of the outbox.
LEMMA MarkDeliveredInv ==
    ASSUME IndInv, NEW c \in Callers, MarkDelivered(c)
    PROVE  IndInv'
  <1>1. PICK n \in NextOf(c) :
            /\ n \in DOMAIN answer /\ answer[n] \in Accepted
            /\ outbox' = [outbox EXCEPT ![n].delivered = TRUE]
            /\ todo' = [todo EXCEPT ![c] = @ \ {n}]
            /\ Goto(c, "drain")
            /\ UNCHANGED <<receipt, order, gateway, sent, job, troubles>>
    BY DEF MarkDelivered
  <1>2. outbox \in Seq(Row) /\ n \in 1..Len(outbox)
    BY <1>1 DEF IndInv, TypeOK, Row
  <1>3. [outbox[n] EXCEPT !.delivered = TRUE] \in Row
    BY <1>2, RowsAreTyped DEF IndInv, Row
  <1>4. /\ outbox' \in Seq(Row)
        /\ Len(outbox') = Len(outbox)
        /\ DOMAIN outbox' = DOMAIN outbox
        /\ \A m \in DOMAIN outbox :
              /\ outbox'[m].receipt = outbox[m].receipt
              /\ outbox'[m].type = outbox[m].type
              /\ outbox'[m].delivered => m = n \/ outbox[m].delivered
    <2>1. outbox' = [outbox EXCEPT ![n] = [outbox[n] EXCEPT !.delivered = TRUE]]
      BY <1>1
    <2>2. outbox' \in Seq(Row) /\ Len(outbox') = Len(outbox)
      BY <1>2, <1>3, <2>1, ExceptSeq
    <2> QED
      BY <1>2, <1>3, <2>1, <2>2, RowsAreTyped DEF IndInv, Row
  <1>5. Shape'
    BY <1>1 DEF IndInv, Shape, gateway
  <1>6. TypeOK'
    <2>1. pc' \in [Callers -> Stages] /\ \A d \in Callers : pc'[d] = "open" => pc[d] = "open"
      BY <1>1 DEF Goto, Stages, IndInv, TypeOK
    <2>2. todo' \in [Callers -> SUBSET DOMAIN outbox']
      BY <1>1, <1>4 DEF IndInv, TypeOK
    <2> QED
      BY <1>1, <1>4, <2>1, <2>2 DEF gateway, IndInv, TypeOK, Row
  <1>7. OutboxTellsLives'
    BY <1>1, <1>4 DEF IndInv, OutboxTellsLives
  <1>8. AppliedIsPrefix'
    BY <1>1, <1>4 DEF IndInv, AppliedIsPrefix, Applied, gateway
  <1>9. DeliveredIsAccepted'
    BY <1>1, <1>4 DEF IndInv, DeliveredIsAccepted, gateway
  <1> QED
    BY <1>5, <1>6, <1>7, <1>8, <1>9 DEF IndInv

\* What a judgement does to the set of applied nonces.
LEMMA AcceptApplies ==
    ASSUME IndInv, NEW n \in sent, Accept(n)
    PROVE  \/ Applied' = Applied /\ LastApplied' = LastApplied
           \/ /\ Applied' = 1..(LastApplied + 1)
              /\ LastApplied' = LastApplied + 1
              /\ n = LastApplied + 1
  <1>1. /\ n \in Nat
        /\ DOMAIN answer' = DOMAIN answer \cup {n}
        /\ \A m \in DOMAIN answer : answer'[m] = answer[m]
        /\ n \notin DOMAIN answer => answer'[n] = Verdict(n)
    BY DEF Accept, IndInv, TypeOK
  <1>2. LastApplied \in Nat /\ Applied = 1..LastApplied
    BY LastAppliedIsNonce DEF IndInv, TypeOK
  <1>3. CASE n \in DOMAIN answer \/ Verdict(n) # "APPLIED"
    <2>1. Applied' = Applied
      BY <1>1, <1>3 DEF Applied
    <2> QED
      BY <2>1 DEF LastApplied
  <1>4. CASE n \notin DOMAIN answer /\ Verdict(n) = "APPLIED"
    <2>1. n = LastApplied + 1
      BY <1>1, <1>2, <1>4 DEF Verdict
    <2>2. Applied' = Applied \cup {n}
      BY <1>1, <1>4 DEF Applied
    <2>3. Applied' = 1..(LastApplied + 1)
      BY <1>2, <2>1, <2>2
    <2>4. LastApplied' = LastApplied + 1
      <3> DEFINE k == LastApplied + 1
      <3>1. k \in Applied' /\ \A m \in Applied' : m <= k
        BY <1>2, <2>3
      <3>2. \A i \in Applied' : (\A m \in Applied' : m <= i) => i = k
        BY <1>2, <2>3, <3>1
      <3>3. LastApplied' = CHOOSE i \in Applied' : \A m \in Applied' : m <= i
        BY <3>1 DEF LastApplied
      <3> HIDE DEF k
      <3>4. LastApplied' = k
        BY <3>1, <3>2, <3>3
      <3> QED
        BY <3>4 DEF k
    <2> QED
      BY <2>1, <2>3, <2>4
  <1> QED
    BY <1>3, <1>4

\* A verdict is one of the outcomes.
LEMMA VerdictIsOutcome ==
    ASSUME NEW n
    PROVE  Verdict(n) \in Outcomes
  BY DEF Verdict, Outcomes, Accepted

\* Judging a request keeps the invariant.
LEMMA AcceptInv ==
    ASSUME IndInv, NEW n \in sent, Accept(n)
    PROVE  IndInv'
  <1>1. /\ UNCHANGED <<receipt, outbox, order, trusted, old, pc, job, todo, troubles>>
        /\ sent' \subseteq sent
        /\ n \in DOMAIN outbox
        /\ DOMAIN answer' = DOMAIN answer \cup {n}
        /\ \A m \in DOMAIN answer : answer'[m] = answer[m]
        /\ n \notin DOMAIN answer => answer'[n] = Verdict(n)
        /\ answer' = [m \in DOMAIN answer' |-> answer'[m]]
    BY DEF Accept, IndInv, TypeOK, registry, callers
  <1>2. Shape'
    BY <1>1 DEF IndInv, Shape
  <1>3. TypeOK'
    BY <1>1, VerdictIsOutcome DEF IndInv, TypeOK
  <1>4. OutboxTellsLives'
    BY <1>1 DEF IndInv, OutboxTellsLives
  <1>5. AppliedIsPrefix'
    <2>1. LastApplied \in 0..Len(outbox) /\ Applied = 1..LastApplied
      BY LastAppliedIsNonce DEF IndInv
    <2>2. n \in 1..Len(outbox) /\ Len(outbox) \in Nat
      BY <1>1 DEF IndInv, TypeOK
    <2> QED
      BY <1>1, <2>1, <2>2, AcceptApplies DEF AppliedIsPrefix
  <1>6. DeliveredIsAccepted'
    BY <1>1 DEF IndInv, DeliveredIsAccepted
  <1> QED
    BY <1>2, <1>3, <1>4, <1>5, <1>6 DEF IndInv

\* Every step keeps the invariant.  Only a change, a delivery and a judgement touch
\* receipts, events or outcomes; the other steps are quiet.
LEMMA NextInv == IndInv /\ [Next]_vars => IndInv'
  <1> SUFFICES ASSUME IndInv, [Next]_vars PROVE IndInv'
    OBVIOUS
  <1> DEFINE Quiet == /\ UNCHANGED <<receipt, outbox, answer>>
                      /\ job' = [c \in Callers |-> job'[c]]
                      /\ TypeOK'
  <1>0. ASSUME Quiet PROVE IndInv'
    BY <1>0, QuietStepInv
  <1>1. ASSUME NEW c \in Callers, Begin(c) PROVE IndInv'
    <2>1. PICK type \in Types, r \in Receipts, d \in Redemptions :
              /\ pc' = [pc EXCEPT ![c] = "open"]
              /\ job' = [job EXCEPT ![c] = [type |-> type, receipt |-> r,
                            redemption |-> IF type = "GOODS_RELEASED" THEN d ELSE None]]
              /\ UNCHANGED <<receipt, outbox, gateway, sent, todo, troubles>>
      BY <1>1 DEF Begin
    <2>2. job'[c] \in [type : Types, receipt : Receipts, redemption : Redemptions \cup {None}]
      BY <2>1 DEF IndInv, Shape
    <2>3. \A e \in Callers : e # c => job'[e] = job[e] /\ pc'[e] = pc[e]
      BY <2>1 DEF IndInv, Shape, TypeOK
    <2>4. TypeOK'
      BY <2>1, <2>2, <2>3 DEF IndInv, TypeOK, Stages, gateway
    <2> QED
      BY <1>0, <2>1, <2>4 DEF IndInv, Shape, gateway
  <1>2. ASSUME NEW c \in Callers, RepeatRelease(c) \/ RefuseChange(c) PROVE IndInv'
    <2>1. /\ UNCHANGED <<receipt, outbox, gateway, sent, todo, troubles>>
          /\ job' = [job EXCEPT ![c] = None]
          /\ \E s \in {"committed", "idle"} : pc' = [pc EXCEPT ![c] = s]
      BY <1>2 DEF RepeatRelease, RefuseChange, Forget, Goto
    <2>2. \A e \in Callers : pc'[e] = "open" => pc[e] = "open" /\ job'[e] = job[e]
      BY <2>1 DEF IndInv, Shape, TypeOK
    <2>3. TypeOK'
      BY <2>1, <2>2 DEF IndInv, TypeOK, Stages, gateway
    <2> QED
      BY <1>0, <2>1, <2>3 DEF IndInv, Shape, gateway
  <1>3. ASSUME NEW c \in Callers, Crash(c) PROVE IndInv'
    <2>1. /\ UNCHANGED <<receipt, outbox, gateway, sent>>
          /\ job' = [job EXCEPT ![c] = None]
          /\ todo' = [todo EXCEPT ![c] = {}]
          /\ pc' = [pc EXCEPT ![c] = "idle"]
          /\ troubles < MaxTroubles /\ troubles' = troubles + 1
      BY <1>3 DEF Crash, Trouble, Forget, Goto
    <2>2. \A e \in Callers : pc'[e] = "open" => pc[e] = "open" /\ job'[e] = job[e]
      BY <2>1 DEF IndInv, Shape, TypeOK
    <2>3. TypeOK'
      BY <2>1, <2>2, StreamAssumption DEF IndInv, TypeOK, Stages, gateway
    <2> QED
      BY <1>0, <2>1, <2>3 DEF IndInv, Shape, gateway
  <1>4. ASSUME NEW c \in Callers,
               Drain(c) \/ ReadOutbox(c) \/ Skip(c) \/ Send(c) \/ KeepUndelivered(c)
                   \/ FinishDrain(c) \/ Lose(c)
        PROVE  IndInv'
    <2>1. /\ UNCHANGED <<receipt, outbox, gateway, job>>
          /\ pc' \in [Callers -> Stages]
          /\ \A e \in Callers : pc'[e] = "open" => pc[e] = "open"
      BY <1>4 DEF Drain, ReadOutbox, Skip, Send, KeepUndelivered, FinishDrain, Lose, Goto,
                  registry, gateway, IndInv, TypeOK, Stages
    <2>2. NextOf(c) \subseteq DOMAIN outbox
      BY DEF NextOf, IndInv, TypeOK
    <2>3. todo' \in [Callers -> SUBSET DOMAIN outbox] /\ sent' \subseteq DOMAIN outbox
      BY <1>4, <2>2 DEF Drain, ReadOutbox, Skip, Send, KeepUndelivered, FinishDrain, Lose,
                        registry, IndInv, TypeOK
    <2>4. troubles' \in 0..MaxTroubles
      BY <1>4, StreamAssumption DEF Drain, ReadOutbox, Skip, Send, KeepUndelivered,
             FinishDrain, Lose, Trouble, registry, gateway, IndInv, TypeOK
    <2>5. TypeOK'
      BY <2>1, <2>3, <2>4 DEF IndInv, TypeOK, gateway
    <2> QED
      BY <1>0, <2>1, <2>5 DEF IndInv, Shape, gateway
  <1>5. ASSUME GrowOld \/ RevokeKey PROVE IndInv'
    <2>1. /\ UNCHANGED <<receipt, outbox, answer, sent, pc, job, todo>>
          /\ troubles < MaxTroubles /\ troubles' = troubles + 1
          /\ trusted' \in BOOLEAN
          /\ old' = old \/ old' = Len(outbox)
      BY <1>5 DEF GrowOld, RevokeKey, Trouble, registry, callers, IndInv, TypeOK
    <2>2. Len(outbox) \in 0..MaxNonce
      BY StreamAssumption DEF IndInv, TypeOK
    <2>3. TypeOK'
      BY <2>1, <2>2, StreamAssumption DEF IndInv, TypeOK
    <2> QED
      BY <1>0, <2>1, <2>3 DEF IndInv, Shape
  <1>6. CASE UNCHANGED vars
    <2>1. TypeOK' /\ Shape'
      BY <1>6 DEF vars, registry, gateway, callers, IndInv, TypeOK, Shape
    <2> QED
      BY <1>0, <1>6, <2>1 DEF vars, Shape
  <1> QED
    BY <1>1, <1>2, <1>3, <1>4, <1>5, <1>6, ChangeInv, MarkDeliveredInv, AcceptInv
       DEF Next, Step

\* Whatever the registry, the network and the gateway do, the invariant holds.
THEOREM StreamInvariant == Spec => []IndInv
  BY InitInv, NextInv, PTL DEF Spec

\* The variables keep their types: no more rows than nonces, no outcome and no request
\* without its row.
THEOREM StreamTypeOK == Spec => []TypeOK
  BY StreamInvariant, PTL DEF IndInv

\* The gateway has applied the first so many events of the registry, without a gap.
THEOREM StreamAppliedIsPrefix == Spec => []AppliedIsPrefix
  BY StreamInvariant, PTL DEF IndInv

\* A row marked delivered has an outcome that was answered with 202.
THEOREM StreamDeliveredIsAccepted == Spec => []DeliveredIsAccepted
  BY StreamInvariant, PTL DEF IndInv

\* The applied events of a receipt are its life in order, because the outbox tells it in
\* order and what is applied is a prefix of the outbox.
THEOREM StreamReceiptHistory == Spec => []ReceiptHistory
  <1>1. IndInv => ReceiptHistory
    <2> SUFFICES ASSUME IndInv, NEW n \in Applied
                 PROVE  /\ \A m \in Applied \ {n} :
                              outbox[m].receipt = outbox[n].receipt =>
                                  outbox[m].type # outbox[n].type
                        /\ outbox[n].type # "STOCK_UPDATED" =>
                              \E m \in Applied :
                                  /\ m < n
                                  /\ outbox[m].receipt = outbox[n].receipt
                                  /\ outbox[m].type = Before(outbox[n].type)
      BY DEF ReceiptHistory
    <2>1. Applied = 1..LastApplied /\ LastApplied \in 0..Len(outbox)
      BY LastAppliedIsNonce DEF IndInv
    <2>2. DOMAIN outbox = 1..Len(outbox) /\ Len(outbox) \in Nat
      BY RowsAreTyped DEF IndInv, TypeOK
    <2>3. Applied \subseteq DOMAIN outbox
      BY <2>1, <2>2
    <2>4. outbox[n].receipt \in Receipts /\ outbox[n].type \in Types
      BY <2>3, RowsAreTyped DEF IndInv
    <2>5. \A m \in Applied \ {n} :
              outbox[m].receipt = outbox[n].receipt => outbox[m].type # outbox[n].type
      BY <2>3 DEF IndInv, OutboxTellsLives
    <2>6. ASSUME outbox[n].type # "STOCK_UPDATED"
          PROVE  \E m \in Applied :
                    /\ m < n
                    /\ outbox[m].receipt = outbox[n].receipt
                    /\ outbox[m].type = Before(outbox[n].type)
      <3> DEFINE t == Before(outbox[n].type)
      <3>1. t \in Types /\ Rank(t) = Rank(outbox[n].type) - 1 /\ Rank(outbox[n].type) \in 1..3
        BY <2>4, <2>6, Lives
      <3>2. Rank(outbox[n].type) <= Rank(receipt[outbox[n].receipt].status)
        BY <2>3 DEF IndInv, OutboxTellsLives
      <3>3. Rank(receipt[outbox[n].receipt].status) \in 0..3
        BY DEF Rank
      <3>4. Rank(t) <= Rank(receipt[outbox[n].receipt].status)
        BY <3>1, <3>2, <3>3
      <3>5. PICK m \in DOMAIN outbox :
                outbox[m].receipt = outbox[n].receipt /\ outbox[m].type = t
        BY <2>4, <3>1, <3>4 DEF IndInv, OutboxTellsLives
      <3>6. m < n
        BY <2>3, <3>1, <3>5 DEF IndInv, OutboxTellsLives
      <3>7. m \in Applied
        BY <2>1, <2>2, <3>5, <3>6
      <3> QED
        BY <3>5, <3>6, <3>7
    <2> QED
      BY <2>5, <2>6
  <1> QED
    BY <1>1, StreamInvariant, PTL

\* No step changes or forgets an outcome: a repeated request is told the first answer.
THEOREM StreamOutcomesAreTerminal == Spec => OutcomesAreTerminal
  <1>1. IndInv /\ [Next]_vars =>
            [\A n \in DOMAIN answer : n \in DOMAIN answer' /\ answer'[n] = answer[n]]_vars
    <2> SUFFICES ASSUME Next
                 PROVE  \A n \in DOMAIN answer : n \in DOMAIN answer' /\ answer'[n] = answer[n]
      OBVIOUS
    <2>1. answer' = answer \/ \E n \in sent : Accept(n)
      BY DEF Next, Step, Begin, Drain, Change, RepeatRelease, RefuseChange, ReadOutbox, Skip,
             Send, MarkDelivered, KeepUndelivered, FinishDrain, Lose, Crash, GrowOld, RevokeKey,
             gateway
    <2>2. ASSUME NEW n \in sent, Accept(n)
          PROVE  \A m \in DOMAIN answer : m \in DOMAIN answer' /\ answer'[m] = answer[m]
      BY <2>2 DEF Accept
    <2> QED
      BY <2>1, <2>2
  <1> QED
    BY <1>1, StreamInvariant, PTL DEF Spec, OutcomesAreTerminal

\* The registry and the gateway together implement one log that is applied in order: a
\* change is a Record, a judgement that applies is an Apply, every other step stutters.
THEOREM StreamImplementsEventLog == Spec => ImplementsEventLog
  <1>1. Init => Log!Init
    <2> SUFFICES ASSUME Init PROVE Log!Init
      OBVIOUS
    <2>1. LastApplied = 0
      BY DEF Init, Applied, LastApplied
    <2>2. [n \in DOMAIN outbox |-> [receipt |-> outbox[n].receipt, type |-> outbox[n].type]] = <<>>
      BY DEF Init
    <2> QED
      BY <2>1, <2>2 DEF Init, Log!Init
  <1>2. IndInv /\ [Next]_vars => [Log!Next]_(Log!vars)
    <2> SUFFICES ASSUME IndInv, [Next]_vars PROVE [Log!Next]_(Log!vars)
      OBVIOUS
    <2> DEFINE Told(o) == [n \in DOMAIN o |-> [receipt |-> o[n].receipt, type |-> o[n].type]]
               Statuses(q) == [r \in Receipts |-> q[r].status]
    <2>1. ASSUME NEW c \in Callers, Change(c) PROVE Log!Next
      <3> DEFINE r == job[c].receipt
                 type == job[c].type
                 row == [receipt |-> r, type |-> type, delivered |-> FALSE]
      <3>1. r \in Receipts /\ type \in Types /\ outbox \in Seq(Row) /\ row \in Row
        BY <2>1 DEF Change, IndInv, TypeOK, Row
      <3>2. /\ outbox' = Append(outbox, row)
            /\ receipt' = [receipt EXCEPT ![r] = [status |-> StatusAfter(type),
                                                  redemption |-> job[c].redemption]]
            /\ receipt[r].status = StatusBefore(type)
            /\ answer' = answer
        BY <2>1 DEF Change, MayChange, gateway
      <3>3. Statuses(receipt') = [Statuses(receipt) EXCEPT ![r] = StatusAfter(type)]
        BY <3>1, <3>2 DEF IndInv, TypeOK
      <3>4. Told(outbox') = Append(Told(outbox), [receipt |-> r, type |-> type])
        BY <3>1, <3>2
      <3>5. LastApplied' = LastApplied
        BY <3>2 DEF LastApplied, Applied
      <3> HIDE DEF r, type
      <3>6. \E q \in Receipts, t \in Types : Log!Record(q, t)
        BY <3>1, <3>2, <3>3, <3>4, <3>5 DEF Log!Record
      <3> QED
        BY <3>6 DEF Log!Next, Types
    <2>2. ASSUME NEW n \in sent, Accept(n) PROVE [Log!Next]_(Log!vars)
      <3>1. UNCHANGED <<receipt, outbox>>
        BY <2>2 DEF Accept, registry
      <3>2. CASE LastApplied' = LastApplied
        BY <3>1, <3>2 DEF Log!vars
      <3>3. CASE LastApplied' = LastApplied + 1 /\ n = LastApplied + 1
        <4>1. n \in 1..Len(outbox)
          BY DEF IndInv, TypeOK
        <4>2. Len(Told(outbox)) = Len(outbox)
          BY DEF IndInv, TypeOK
        <4>3. LastApplied \in Nat
          BY LastAppliedIsNonce DEF IndInv, TypeOK
        <4> QED
          BY <3>1, <3>3, <4>1, <4>2, <4>3 DEF Log!Next, Log!Apply
      <3> QED
        BY <2>2, <3>2, <3>3, AcceptApplies
    <2>3. ASSUME NEW c \in Callers, MarkDelivered(c) PROVE UNCHANGED Log!vars
      <3>1. PICK n \in NextOf(c) : outbox' = [outbox EXCEPT ![n].delivered = TRUE]
        BY <2>3 DEF MarkDelivered
      <3>2. n \in DOMAIN outbox
        BY DEF NextOf, IndInv, TypeOK
      <3>3. outbox[n] \in Row
        BY <3>2, RowsAreTyped DEF IndInv
      <3>4. Told(outbox') = Told(outbox)
        BY <3>1, <3>2, <3>3 DEF Row
      <3>5. UNCHANGED <<receipt, answer>>
        BY <2>3 DEF MarkDelivered, gateway
      <3> QED
        BY <3>4, <3>5 DEF Log!vars, LastApplied, Applied
    <2>4. ASSUME UNCHANGED <<receipt, outbox, answer>> PROVE UNCHANGED Log!vars
      BY <2>4 DEF Log!vars, LastApplied, Applied
    <2>5. \/ \E c \in Callers : Change(c) \/ MarkDelivered(c)
          \/ \E n \in sent : Accept(n)
          \/ UNCHANGED <<receipt, outbox, answer>>
      BY DEF Next, Step, Begin, Drain, RepeatRelease, RefuseChange, ReadOutbox, Skip, Send,
             KeepUndelivered, FinishDrain, Lose, Crash, GrowOld, RevokeKey, registry, gateway,
             vars
    <2> QED
      BY <2>1, <2>2, <2>3, <2>4, <2>5
  <1> QED
    BY <1>1, <1>2, StreamInvariant, PTL DEF Spec, ImplementsEventLog, Log!Spec

------------------------------------------------------------------------------
\* One caller.

\* While the transactions do not overlap, created_at follows the nonces: behind the
\* events there is at most the transaction that is open.
Numbered ==
    /\ order \in Seq(Nat \cup Callers)
    /\ Len(order) = Len(outbox) + IF \E c \in Callers : pc[c] = "open" THEN 1 ELSE 0
    /\ \A i \in DOMAIN order :
          /\ i <= Len(outbox) => order[i] = i
          /\ i > Len(outbox) => order[i] \in Callers

Earlier(n) == 1..(n - 1)

\* Nothing is sent, judged or delivered before all that comes before it is, and a drain
\* has read all that is missing before what it has read.
InOrder ==
    /\ \A n \in DOMAIN answer : answer[n] \notin {"QUARANTINED", "DUPLICATE"}
    /\ \A n \in DOMAIN outbox : outbox[n].delivered =>
          \A m \in Earlier(n) : outbox[m].delivered
    /\ \A n \in sent \cup DOMAIN answer : Earlier(n) \subseteq Applied
    /\ \A c \in Callers : \A n \in todo[c] : \A m \in Earlier(n) :
          m \in todo[c] \/ outbox[m].delivered

Alone == \A c, d \in Callers : c = d

\* No caller is a number: who comes after the events in the order is not an event.
LEMMA OnlyNoncesAreInOrder ==
    ASSUME IndInv, Numbered, NEW n \in DOMAIN outbox, NEW i \in DOMAIN order, order[i] = n
    PROVE  i = n /\ i \in Nat
  <1>1. DOMAIN order = 1..Len(order) /\ Len(order) \in Nat
    BY DEF Numbered
  <1>2. n \in Nat /\ Len(outbox) \in Nat
    BY RowsAreTyped DEF IndInv, TypeOK
  <1>3. n \notin Callers
    BY <1>2, StreamAssumption
  <1> QED
    BY <1>1, <1>2, <1>3 DEF Numbered

\* The row a caller deals with next is the first of those it has read, so everything
\* before it is delivered.
LEMMA NextIsFirst ==
    ASSUME IndInv, Numbered, InOrder, NEW c \in Callers, NEW n \in NextOf(c)
    PROVE  /\ n \in DOMAIN outbox /\ n \in todo[c] /\ n \in Nat
           /\ \A m \in Earlier(n) : m \in DOMAIN outbox /\ outbox[m].delivered
  <1>1. n \in todo[c] /\ todo[c] \subseteq DOMAIN outbox
    BY DEF NextOf, IndInv, TypeOK
  <1>2. DOMAIN outbox = 1..Len(outbox) /\ Len(outbox) \in Nat
    BY RowsAreTyped DEF IndInv, TypeOK
  <1>3. \A m \in Earlier(n) : m \in DOMAIN outbox
    BY <1>1, <1>2 DEF Earlier
  <1>4. \A m \in todo[c] \ {n} : n < m
    <2> SUFFICES ASSUME NEW m \in todo[c] \ {n} PROVE n < m
      OBVIOUS
    <2>1. PICK i \in DOMAIN order, j \in DOMAIN order : i < j /\ order[i] = n /\ order[j] = m
      BY DEF NextOf, BeganBefore
    <2>2. i = n /\ j = m
      BY <1>1, <2>1, OnlyNoncesAreInOrder
    <2> QED
      BY <2>1, <2>2
  <1>5. \A m \in Earlier(n) : m \notin todo[c]
    BY <1>1, <1>2, <1>4 DEF Earlier
  <1> QED
    BY <1>1, <1>2, <1>3, <1>5 DEF InOrder

\* Of what is delivered in order all is applied: no other answer is a 202.
LEMMA DeliveredIsApplied ==
    ASSUME IndInv, InOrder, NEW n \in DOMAIN outbox, outbox[n].delivered
    PROVE  n \in Applied
  BY DEF IndInv, DeliveredIsAccepted, InOrder, Applied, Accepted

\* The gateway finds no gap below an event that is sent in order, and no event above it.
LEMMA NoGap ==
    ASSUME IndInv, InOrder, NEW n \in sent, n \notin DOMAIN answer
    PROVE  Verdict(n) \notin {"QUARANTINED", "DUPLICATE"}
  <1>1. LastApplied \in Nat /\ Applied = 1..LastApplied
    BY LastAppliedIsNonce DEF IndInv, TypeOK
  <1>2. n \in Nat /\ n >= 1
    BY RowsAreTyped DEF IndInv, TypeOK
  <1>3. n \notin Applied
    BY DEF Applied
  <1>4. Earlier(n) \subseteq Applied
    BY DEF InOrder
  <1>5. n > LastApplied
    BY <1>1, <1>2, <1>3
  <1>6. n <= LastApplied + 1
    <2>1. CASE n = 1
      BY <1>1, <2>1
    <2>2. CASE n > 1
      <3>1. n - 1 \in Earlier(n)
        BY <1>2, <2>2 DEF Earlier
      <3> QED
        BY <1>1, <1>2, <1>4, <3>1
    <2> QED
      BY <1>2, <2>1, <2>2
  <1> QED
    BY <1>1, <1>2, <1>5, <1>6 DEF Verdict

\* A transaction that leaves no row leaves the order as its begin found it.
LEMMA ForgottenIsNumbered ==
    ASSUME Alone, IndInv, Numbered, NEW c \in Callers, Forget(c), UNCHANGED outbox,
           pc'[c] # "open", \A d \in Callers : d # c => pc'[d] = pc[d]
    PROVE  Numbered'
  <1> DEFINE k == Len(outbox)
  <1>1. k \in Nat /\ order \in Seq(Nat \cup Callers) /\ DOMAIN order = 1..Len(order)
    BY DEF IndInv, TypeOK, Numbered
  <1>2. ~(\E d \in Callers : pc'[d] = "open")
    BY DEF Alone
  <1>3. CASE pc[c] = "open"
    <2>1. Len(order) = k + 1 /\ order[k + 1] \in Callers
      BY <1>1, <1>3 DEF Numbered
    <2>2. order[k + 1] = c
      BY <2>1 DEF Alone
    <2>3. \A i \in DOMAIN order : order[i] = c => i = k + 1
      <3> SUFFICES ASSUME NEW i \in DOMAIN order, order[i] = c PROVE i = k + 1
        OBVIOUS
      <3>1. CASE i <= k
        <4>1. order[i] \in Nat
          BY <1>1, <3>1 DEF Numbered
        <4> QED
          BY <4>1, StreamAssumption
      <3> QED
        BY <1>1, <2>1, <3>1
    <2>4. order' = SubSeq(order, 1, k) \o SubSeq(order, k + 2, k + 1)
      <3>1. k + 1 \in DOMAIN order
        BY <1>1, <2>1
      <3>2. PICK i \in DOMAIN order :
                /\ order[i] = c
                /\ order' = SubSeq(order, 1, i - 1) \o SubSeq(order, i + 1, Len(order))
        BY <2>2, <3>1 DEF Forget
      <3>3. i = k + 1 /\ i - 1 = k /\ i + 1 = k + 2
        BY <1>1, <2>3, <3>2
      <3> QED
        BY <2>1, <3>2, <3>3
    <2>5. /\ SubSeq(order, 1, k) \in Seq(Nat \cup Callers) /\ Len(SubSeq(order, 1, k)) = k
          /\ \A i \in 1..k : SubSeq(order, 1, k)[i] = order[i]
      BY <1>1, <2>1, SubSeqProperties
    <2>6. SubSeq(order, k + 2, k + 1) = <<>>
      BY <1>1, SubSeqEmpty
    <2>7. order' = SubSeq(order, 1, k)
      BY <2>4, <2>5, <2>6, ConcatEmptySeq
    <2>8. \A i \in 1..k : order'[i] = i
      BY <1>1, <2>1, <2>5, <2>7 DEF Numbered
    <2>9. Len(order') = k /\ order' \in Seq(Nat \cup Callers) /\ DOMAIN order' = 1..k
      BY <2>5, <2>7
    <2> HIDE DEF k
    <2>10. Len(outbox') = k
      BY DEF k
    <2> QED
      BY <1>1, <1>2, <2>8, <2>9, <2>10 DEF Numbered
  <1>4. CASE pc[c] # "open"
    <2>1. Len(order) = k
      BY <1>1, <1>4 DEF Numbered, Alone
    <2>2. \A i \in DOMAIN order : order[i] # c
      BY <1>1, <2>1, StreamAssumption DEF Numbered
    <2>3. UNCHANGED order
      BY <2>2 DEF Forget
    <2> QED
      BY <1>1, <1>2, <2>1, <2>3 DEF Numbered
  <1> QED
    BY <1>3, <1>4

\* Steps by which nobody begins or ends a transaction.
LEMMA NumberedKept ==
    ASSUME Numbered, UNCHANGED order, Len(outbox') = Len(outbox),
           \A c \in Callers : pc'[c] = "open" <=> pc[c] = "open"
    PROVE  Numbered'
  BY DEF Numbered

LEMMA NumberedStep == Alone /\ IndInv /\ Numbered /\ [Next]_vars => Numbered'
  <1> SUFFICES ASSUME Alone, IndInv, Numbered, [Next]_vars PROVE Numbered'
    OBVIOUS
  <1>0. Len(outbox) \in Nat /\ order \in Seq(Nat \cup Callers) /\ DOMAIN order = 1..Len(order)
    BY DEF IndInv, TypeOK, Numbered
  <1>1. ASSUME NEW c \in Callers, Begin(c) PROVE Numbered'
    <2>1. /\ pc[c] = "idle" /\ pc' = [pc EXCEPT ![c] = "open"]
          /\ order' = Append(order, c) /\ UNCHANGED outbox
      BY <1>1 DEF Begin
    <2>2. Len(order) = Len(outbox)
      BY <1>0, <2>1 DEF Numbered, Alone
    <2>3. /\ order' \in Seq(Nat \cup Callers) /\ Len(order') = Len(outbox) + 1
          /\ DOMAIN order' = 1..(Len(outbox) + 1)
          /\ \A i \in DOMAIN order : order'[i] = order[i]
          /\ order'[Len(outbox) + 1] = c
      BY <1>0, <2>1, <2>2, AppendProperties
    <2>4. pc'[c] = "open"
      BY <2>1 DEF IndInv, TypeOK
    <2> QED
      BY <1>0, <2>1, <2>2, <2>3, <2>4 DEF Numbered
  <1>2. ASSUME NEW c \in Callers, Change(c) PROVE Numbered'
    <2> DEFINE k == Len(outbox)
    <2>1. /\ pc[c] = "open" /\ pc' = [pc EXCEPT ![c] = "committed"]
          /\ order' = [i \in DOMAIN order |-> IF order[i] = c THEN k + 1 ELSE order[i]]
          /\ Len(outbox') = k + 1
      BY <1>2 DEF Change, Goto, IndInv, TypeOK
    <2>2. Len(order) = k + 1 /\ order[k + 1] = c
      BY <1>0, <2>1 DEF Numbered, Alone
    <2>3. \A i \in 1..k : order[i] = i /\ order[i] # c
      BY <1>0, <2>2, StreamAssumption DEF Numbered
    <2>4. \A i \in 1..(k + 1) : order'[i] = i
      BY <1>0, <2>1, <2>2, <2>3
    <2>5. /\ order' \in Seq(Nat \cup Callers) /\ Len(order') = k + 1
          /\ DOMAIN order' = 1..(k + 1)
      <3>1. order' = [i \in 1..(k + 1) |-> order'[i]]
        BY <1>0, <2>1, <2>2
      <3>2. \A i \in 1..(k + 1) : order'[i] \in Nat \cup Callers
        BY <1>0, <2>4
      <3> QED
        BY <1>0, <3>1, <3>2
    <2>6. \A d \in Callers : pc'[d] # "open"
      BY <2>1 DEF Alone, IndInv, TypeOK
    <2>7. Len(outbox') = k + 1 /\ k \in Nat
      BY <1>0, <2>1
    <2> HIDE DEF k
    <2>8. /\ Len(order') = Len(outbox') + IF \E d \in Callers : pc'[d] = "open" THEN 1 ELSE 0
          /\ \A i \in DOMAIN order' : i <= Len(outbox') /\ order'[i] = i
      BY <2>4, <2>5, <2>6, <2>7
    <2>9. \A i \in DOMAIN order' : ~(i > Len(outbox'))
      BY <2>5, <2>7
    <2> QED
      BY <2>5, <2>8, <2>9 DEF Numbered
  <1>3. ASSUME NEW c \in Callers, RepeatRelease(c) \/ RefuseChange(c) \/ Crash(c)
        PROVE  Numbered'
    <2>1. Forget(c) /\ UNCHANGED outbox /\ \E s \in {"committed", "idle"} : Goto(c, s)
      BY <1>3 DEF RepeatRelease, RefuseChange, Crash
    <2>2. pc'[c] # "open" /\ \A d \in Callers : d # c => pc'[d] = pc[d]
      BY <2>1 DEF Goto, IndInv, TypeOK
    <2> QED
      BY <2>1, <2>2, ForgottenIsNumbered
  <1>4. ASSUME NEW c \in Callers, MarkDelivered(c) PROVE Numbered'
    <2>1. UNCHANGED order /\ pc[c] = "waiting" /\ pc' = [pc EXCEPT ![c] = "drain"]
      BY <1>4 DEF MarkDelivered, Goto
    <2>2. Len(outbox') = Len(outbox)
      BY <1>4, RowsAreTyped DEF MarkDelivered, IndInv
    <2>3. \A d \in Callers : pc'[d] = "open" <=> pc[d] = "open"
      BY <2>1 DEF IndInv, TypeOK
    <2> QED
      BY <2>1, <2>2, <2>3, NumberedKept
  <1>5. ASSUME NEW c \in Callers,
               Drain(c) \/ ReadOutbox(c) \/ Skip(c) \/ Send(c) \/ KeepUndelivered(c)
                   \/ FinishDrain(c) \/ Lose(c)
        PROVE  Numbered'
    <2>1. /\ UNCHANGED <<order, outbox>>
          /\ \A d \in Callers : pc'[d] = "open" <=> pc[d] = "open"
      BY <1>5 DEF Drain, ReadOutbox, Skip, Send, KeepUndelivered, FinishDrain, Lose, Goto,
                  registry, IndInv, TypeOK
    <2> QED
      BY <2>1, NumberedKept
  <1>6. CASE UNCHANGED <<order, outbox, pc>>
    BY <1>6, NumberedKept
  <1> QED
    BY <1>1, <1>2, <1>3, <1>4, <1>5, <1>6
       DEF Next, Step, Accept, GrowOld, RevokeKey, registry, callers, vars

\* Steps that neither judge nor send nor mark keep what is in order, if a drain has
\* read no more than it had.
LEMMA InOrderKept ==
    ASSUME InOrder, UNCHANGED <<outbox, answer>>, sent' \subseteq sent,
           \A c \in Callers : todo'[c] \in {todo[c], {}}
    PROVE  InOrder'
  <1>1. Applied' = Applied
    BY DEF Applied
  <1> QED
    BY <1>1 DEF InOrder

LEMMA InOrderStep == IndInv /\ Numbered /\ InOrder /\ [Next]_vars => InOrder'
  <1> SUFFICES ASSUME IndInv, Numbered, InOrder, [Next]_vars PROVE InOrder'
    OBVIOUS
  <1>0. DOMAIN outbox = 1..Len(outbox) /\ Len(outbox) \in Nat /\ todo \in [Callers -> SUBSET DOMAIN outbox]
    BY RowsAreTyped DEF IndInv, TypeOK
  <1>1. ASSUME NEW c \in Callers, Change(c) PROVE InOrder'
    <2>1. /\ UNCHANGED <<answer, sent, todo>>
          /\ DOMAIN outbox' = 1..(Len(outbox) + 1)
          /\ \A n \in DOMAIN outbox : outbox'[n] = outbox[n]
          /\ outbox'[Len(outbox) + 1].delivered = FALSE
      BY <1>0, <1>1 DEF Change, gateway, IndInv, TypeOK
    <2>2. Applied' = Applied
      BY <2>1 DEF Applied
    <2>3. \A n \in DOMAIN outbox : \A m \in Earlier(n) : m \in DOMAIN outbox
      BY <1>0 DEF Earlier
    <2>4. \A n \in DOMAIN outbox' : outbox'[n].delivered =>
              \A m \in Earlier(n) : outbox'[m].delivered
      BY <1>0, <2>1, <2>3 DEF InOrder
    <2>5. \A d \in Callers : \A n \in todo'[d] : \A m \in Earlier(n) :
              m \in todo'[d] \/ outbox'[m].delivered
      BY <1>0, <2>1, <2>3 DEF InOrder
    <2> QED
      BY <2>1, <2>2, <2>4, <2>5 DEF InOrder
  <1>2. ASSUME NEW c \in Callers, ReadOutbox(c) PROVE InOrder'
    <2>1. /\ UNCHANGED <<outbox, answer, sent>>
          /\ todo' = [todo EXCEPT ![c] = {n \in DOMAIN outbox : ~outbox[n].delivered}]
      BY <1>2 DEF ReadOutbox, registry, gateway
    <2>2. Applied' = Applied
      BY <2>1 DEF Applied
    <2>3. \A n \in DOMAIN outbox : \A m \in Earlier(n) : m \in DOMAIN outbox
      BY <1>0 DEF Earlier
    <2>4. ASSUME NEW d \in Callers, NEW n \in todo'[d], NEW m \in Earlier(n)
          PROVE  m \in todo'[d] \/ outbox'[m].delivered
      <3>1. CASE d = c
        BY <1>0, <2>1, <2>3, <2>4, <3>1
      <3>2. CASE d # c
        BY <1>0, <2>1, <2>4, <3>2 DEF InOrder
      <3> QED
        BY <3>1, <3>2
    <2> QED
      BY <2>1, <2>2, <2>4 DEF InOrder
  <1>3. ASSUME NEW c \in Callers, Skip(c) PROVE InOrder'
    <2>1. PICK n \in NextOf(c) :
              /\ outbox[n].delivered /\ todo' = [todo EXCEPT ![c] = @ \ {n}]
              /\ UNCHANGED <<outbox, answer, sent>>
      BY <1>3 DEF Skip, registry, gateway
    <2>2. Applied' = Applied
      BY <2>1 DEF Applied
    <2>3. ASSUME NEW d \in Callers, NEW l \in todo'[d], NEW m \in Earlier(l)
          PROVE  m \in todo'[d] \/ outbox'[m].delivered
      BY <1>0, <2>1, <2>3 DEF InOrder
    <2> QED
      BY <2>1, <2>2, <2>3 DEF InOrder
  <1>4. ASSUME NEW c \in Callers, Send(c) PROVE InOrder'
    <2>1. PICK n \in NextOf(c) : sent' = sent \cup {n} /\ UNCHANGED <<outbox, answer, todo>>
      BY <1>4 DEF Send, registry, gateway
    <2>2. Applied' = Applied
      BY <2>1 DEF Applied
    <2>3. Earlier(n) \subseteq Applied
      BY NextIsFirst, DeliveredIsApplied
    <2> QED
      BY <2>1, <2>2, <2>3 DEF InOrder
  <1>5. ASSUME NEW c \in Callers, MarkDelivered(c) PROVE InOrder'
    <2>1. PICK n \in NextOf(c) :
              /\ outbox' = [outbox EXCEPT ![n].delivered = TRUE]
              /\ todo' = [todo EXCEPT ![c] = @ \ {n}]
              /\ UNCHANGED <<answer, sent>>
      BY <1>5 DEF MarkDelivered, gateway
    <2>2. Applied' = Applied
      BY <2>1 DEF Applied
    <2>3. n \in DOMAIN outbox /\ \A m \in Earlier(n) : m \in DOMAIN outbox /\ outbox[m].delivered
      BY NextIsFirst
    <2>4. /\ DOMAIN outbox' = DOMAIN outbox
          /\ \A m \in DOMAIN outbox : outbox'[m].delivered <=> m = n \/ outbox[m].delivered
      BY <2>1, <2>3, RowsAreTyped DEF IndInv, Row
    <2>5. \A l \in DOMAIN outbox : \A m \in Earlier(l) : m \in DOMAIN outbox
      BY <1>0 DEF Earlier
    <2>6. \A l \in DOMAIN outbox' : outbox'[l].delivered =>
              \A m \in Earlier(l) : outbox'[m].delivered
      BY <2>3, <2>4, <2>5 DEF InOrder
    <2>7. ASSUME NEW d \in Callers, NEW l \in todo'[d], NEW m \in Earlier(l)
          PROVE  m \in todo'[d] \/ outbox'[m].delivered
      <3>1. l \in todo[d] /\ l \in DOMAIN outbox /\ m \in DOMAIN outbox
        BY <1>0, <2>1, <2>5, <2>7
      <3>2. m \in todo[d] \/ outbox[m].delivered
        BY <2>7, <3>1 DEF InOrder
      <3>3. CASE m = n
        BY <2>4, <3>1, <3>3
      <3>4. CASE m # n
        BY <1>0, <2>1, <2>4, <3>1, <3>2, <3>4
      <3> QED
        BY <3>3, <3>4
    <2> QED
      BY <2>1, <2>2, <2>6, <2>7 DEF InOrder
  <1>6. ASSUME NEW n \in sent, Accept(n) PROVE InOrder'
    <2>1. /\ UNCHANGED <<outbox, todo>> /\ sent' \subseteq sent
          /\ DOMAIN answer' = DOMAIN answer \cup {n}
          /\ \A m \in DOMAIN answer : answer'[m] = answer[m]
          /\ n \notin DOMAIN answer => answer'[n] = Verdict(n)
      BY <1>6 DEF Accept, registry, callers
    <2>2. Applied \subseteq Applied'
      BY <2>1 DEF Applied
    <2>3. \A m \in DOMAIN answer' : answer'[m] \notin {"QUARANTINED", "DUPLICATE"}
      BY <2>1, NoGap DEF InOrder
    <2>4. \A m \in sent' \cup DOMAIN answer' : Earlier(m) \subseteq Applied'
      BY <2>1, <2>2 DEF InOrder
    <2> QED
      BY <2>1, <2>3, <2>4 DEF InOrder
  <1>7. ASSUME NEW c \in Callers,
               Begin(c) \/ Drain(c) \/ RepeatRelease(c) \/ RefuseChange(c) \/ KeepUndelivered(c)
                   \/ FinishDrain(c) \/ Lose(c) \/ Crash(c)
        PROVE  InOrder'
    <2>1. /\ UNCHANGED <<outbox, answer>> /\ sent' \subseteq sent
          /\ \A d \in Callers : todo'[d] \in {todo[d], {}}
      BY <1>0, <1>7 DEF Begin, Drain, RepeatRelease, RefuseChange, KeepUndelivered, FinishDrain,
                  Lose, Crash, registry, gateway
    <2> QED
      BY <2>1, InOrderKept
  <1>8. CASE GrowOld \/ RevokeKey \/ UNCHANGED vars
    <2>1. /\ UNCHANGED <<outbox, answer>> /\ sent' \subseteq sent
          /\ \A d \in Callers : todo'[d] \in {todo[d], {}}
      BY <1>8 DEF GrowOld, RevokeKey, registry, callers, vars
    <2> QED
      BY <2>1, InOrderKept
  <1> QED
    BY <1>1, <1>2, <1>3, <1>4, <1>5, <1>6, <1>7, <1>8 DEF Next, Step

\* As long as calls of the registry do not overlap, the gateway never finds a gap,
\* whatever is lost, repeated, late, revoked or interrupted.
THEOREM StreamNothingIsQuarantined ==
    ASSUME Alone
    PROVE  Spec => []NothingIsQuarantined
  <1>1. Init => Numbered /\ InOrder
    BY DEF Init, Numbered, InOrder
  <1>2. IndInv /\ Numbered /\ [Next]_vars => Numbered'
    BY NumberedStep
  <1>3. InOrder => NothingIsQuarantined
    BY DEF InOrder, NothingIsQuarantined
  <1> QED
    BY <1>1, <1>2, <1>3, InOrderStep, StreamInvariant, PTL DEF Spec

=============================================================================
