------------------------------ MODULE DeskProofs ------------------------------
(***************************************************************************)
(* Proofs about Desk, for any number of tabs, instruments and parties and   *)
(* whatever goes wrong.  What a command locks, meets and pays stays opaque: *)
(* an answer depends on the key of the ticket and on nothing else.          *)
(***************************************************************************)
EXTENDS Desk, FiniteSetTheorems, TLAPS

\* A request to place an order carries an identity of a ticket, and nobody waits
\* for the answer to a cancellation.
IsRequest(r) ==
    /\ DOMAIN r = {"kind", "order", "instrument", "party", "live"}
    /\ r.kind \in {"PLACE", "CANCEL"} /\ r.live \in BOOLEAN
    /\ r.kind = "PLACE" => r.order \in Identities
    /\ r.live => r.kind = "PLACE"

\* What the tickets, requests and transactions look like; a ticket changes at most once
\* for each trouble.
Typed ==
    /\ trouble \in 0..MaxTrouble
    /\ ticket \in [Tabs -> [changes : 1..(MaxTrouble + 1),
                            phase : {"ready", "waiting", "failed", "done"}]]
    /\ \A t \in Tabs : ticket[t].changes <= trouble + 1
    /\ \A r \in sent : IsRequest(r)
    /\ \A i \in Instruments : tx[i] # None =>
          /\ DOMAIN tx[i] = {"request", "locks", "holds", "queued"}
          /\ IsRequest(tx[i].request)
    /\ tx = [i \in Instruments |-> tx[i]]

\* An identity has heard nothing but its stored answer, and has an order exactly if that
\* answer says so.
AnswersAreStored ==
    /\ stored \in [Identities -> Answers \cup {None}]
    /\ heard \in [Identities -> SUBSET Answers]
    /\ orders \in [Identities -> {0, 1}]
    /\ \A d \in Identities :
          /\ heard[d] \subseteq {stored[d]}
          /\ orders[d] = 1 <=> stored[d] = "accepted"

------------------------------------------------------------------------------
\* The inductive invariant.

\* Requests lose their caller and nothing else.
LEMMA ForgottenIsRequest ==
    ASSUME NEW r, IsRequest(r), NEW t
    PROVE  IsRequest(Forgotten(r, t))
  BY DEF Forgotten, IsRequest

\* A ticket sends what it describes under its identity.
LEMMA PlaceIsRequest ==
    ASSUME Typed, NEW t \in Tabs
    PROVE  IsRequest(Place(t))
  <1>1. Identity(t) \in Identities
    BY DEF Identity, Identities, Typed
  <1>2. Wants[t].instrument \in Instruments /\ Wants[t].party \in Parties
    BY DeskAssumption DEF ValidOrders
  <1> QED
    BY <1>1, <1>2 DEF Place, IsRequest

\* The first state satisfies every part.
LEMMA InitInv == Init => Typed /\ AnswersAreStored
  <1> SUFFICES ASSUME Init PROVE Typed /\ AnswersAreStored
    OBVIOUS
  <1>1. /\ ticket = [t \in Tabs |-> [changes |-> 1, phase |-> "ready"]]
        /\ sent = {} /\ tx = [i \in Instruments |-> None] /\ trouble = 0
    BY DEF Init
  <1>2. /\ stored = [d \in Identities |-> None] /\ orders = [d \in Identities |-> 0]
        /\ heard = [d \in Identities |-> {}]
    BY DEF Init
  <1>3. Typed
    BY <1>1, DeskAssumption DEF Typed
  <1>4. None # "accepted"
    BY DeskAssumption DEF Answers
  <1>5. AnswersAreStored
    BY <1>2, <1>4 DEF AnswersAreStored
  <1> QED
    BY <1>3, <1>5

\* A transaction that ends tells the ticket that waits, if any.
LEMMA ToldIsTyped ==
    ASSUME Typed, NEW r, IsRequest(r), NEW phase \in {"failed", "done"}, Tell(r, phase)
    PROVE  /\ ticket' \in [Tabs -> [changes : 1..(MaxTrouble + 1),
                                    phase : {"ready", "waiting", "failed", "done"}]]
           /\ \A t \in Tabs : ticket'[t].changes = ticket[t].changes
  <1> DEFINE Phases == {"ready", "waiting", "failed", "done"}
  <1> DEFINE Times == 1..(MaxTrouble + 1)
  <1>1. ticket \in [Tabs -> [changes : Times, phase : Phases]] /\ phase \in Phases
    BY DEF Typed
  <1> HIDE DEF Phases, Times
  <1>2. CASE ticket' = ticket
    BY <1>1, <1>2 DEF Phases, Times
  <1>3. CASE r.live /\ ticket' = [ticket EXCEPT ![r.order[1]].phase = phase]
    <2>1. PICK t : t = r.order[1]
      OBVIOUS
    <2>2. t \in Tabs
      BY <1>3, <2>1 DEF IsRequest, Identities
    <2>3. ticket' = [ticket EXCEPT ![t].phase = phase]
      BY <1>3, <2>1
    <2>4. ticket' \in [Tabs -> [changes : Times, phase : Phases]]
      BY <1>1, <2>2, <2>3
    <2>5. \A u \in Tabs : ticket'[u].changes = ticket[u].changes
      BY <1>1, <2>2, <2>3
    <2> QED
      BY <2>4, <2>5 DEF Phases, Times
  <1> QED
    BY <1>2, <1>3 DEF Tell

\* ... and is gone.
LEMMA EndIsTyped ==
    ASSUME Typed, NEW i \in Instruments, tx[i] # None, tx' = [tx EXCEPT ![i] = None],
           NEW phase \in {"failed", "done"},
           Tell(tx[i].request, phase) \/ UNCHANGED ticket, UNCHANGED <<sent, trouble>>
    PROVE  Typed'
  <1>1. /\ ticket' \in [Tabs -> [changes : 1..(MaxTrouble + 1),
                                 phase : {"ready", "waiting", "failed", "done"}]]
        /\ \A t \in Tabs : ticket'[t].changes = ticket[t].changes
    BY ToldIsTyped DEF Typed
  <1>2. \A j \in Instruments : tx'[j] # None => tx'[j] = tx[j]
    BY DEF Typed
  <1>3. tx' = [j \in Instruments |-> tx'[j]]
    BY DEF Typed
  <1> QED
    BY <1>1, <1>2, <1>3 DEF Typed

\* Every step keeps requests and tickets what they are.
LEMMA TypedStep == Typed /\ [Next]_vars => Typed'
  <1> SUFFICES ASSUME Typed, [Next]_vars PROVE Typed'
    OBVIOUS
  <1> USE DeskAssumption
  <1>1. ASSUME NEW t \in Tabs, Submit(t) PROVE Typed'
    <2>1. /\ ticket' = [ticket EXCEPT ![t].phase = "waiting"] /\ sent' = sent \cup {Place(t)}
          /\ UNCHANGED tx
          /\ \/ trouble' = trouble
             \/ trouble < MaxTrouble /\ trouble' = trouble + 1
      BY <1>1 DEF Submit
    <2>2. trouble' \in 0..MaxTrouble /\ trouble' >= trouble
      BY <2>1 DEF Typed
    <2>3. /\ ticket' \in [Tabs -> [changes : 1..(MaxTrouble + 1),
                                   phase : {"ready", "waiting", "failed", "done"}]]
          /\ \A u \in Tabs : ticket'[u].changes = ticket[u].changes
      BY <2>1 DEF Typed
    <2>4. \A u \in Tabs : ticket'[u].changes <= trouble' + 1
      BY <2>2, <2>3 DEF Typed
    <2>5. \A r \in sent' : IsRequest(r)
      BY <2>1, PlaceIsRequest DEF Typed
    <2> QED
      BY <2>1, <2>2, <2>3, <2>4, <2>5 DEF Typed
  <1>2. ASSUME NEW t \in Tabs, Change(t) PROVE Typed'
    <2>1. /\ trouble < MaxTrouble /\ trouble' = trouble + 1 /\ UNCHANGED <<sent, tx>>
          /\ ticket' = [ticket EXCEPT ![t] = [changes |-> ticket[t].changes + 1,
                            phase |-> IF ticket[t].phase = "waiting" THEN "waiting" ELSE "ready"]]
      BY <1>2 DEF Change, Trouble
    <2>2. /\ ticket' \in [Tabs -> [changes : 1..(MaxTrouble + 1),
                                   phase : {"ready", "waiting", "failed", "done"}]]
          /\ \A u \in Tabs : ticket'[u].changes <= trouble' + 1
      BY <2>1 DEF Typed
    <2> QED
      BY <2>1, <2>2 DEF Typed
  <1>3. ASSUME NEW t \in Tabs, LoseCall(t) PROVE Typed'
    <2>1. /\ trouble < MaxTrouble /\ trouble' = trouble + 1
          /\ ticket' = [ticket EXCEPT ![t].phase = "failed"]
      BY <1>3 DEF LoseCall, Trouble
    <2>2. /\ ticket' \in [Tabs -> [changes : 1..(MaxTrouble + 1),
                                   phase : {"ready", "waiting", "failed", "done"}]]
          /\ \A u \in Tabs : ticket'[u].changes <= trouble' + 1
          /\ trouble' \in 0..MaxTrouble
      BY <2>1 DEF Typed
    <2>3. CASE UNCHANGED tx /\ sent' \subseteq sent
      BY <2>2, <2>3 DEF Typed
    <2>4. CASE /\ sent' = {Forgotten(r, t) : r \in sent}
               /\ tx' = [i \in Instruments |-> IF tx[i] = None THEN None
                            ELSE [tx[i] EXCEPT !.request = Forgotten(@, t)]]
      <3>1. \A r \in sent' : IsRequest(r)
        BY <2>4, ForgottenIsRequest DEF Typed
      <3>2. ASSUME NEW i \in Instruments, tx'[i] # None
            PROVE  /\ DOMAIN tx'[i] = {"request", "locks", "holds", "queued"}
                   /\ IsRequest(tx'[i].request)
        <4>1. tx[i] # None /\ tx'[i] = [tx[i] EXCEPT !.request = Forgotten(@, t)]
          BY <2>4, <3>2
        <4>2. DOMAIN tx[i] = {"request", "locks", "holds", "queued"} /\ IsRequest(tx[i].request)
          BY <4>1 DEF Typed
        <4>3. tx'[i].request = Forgotten(tx[i].request, t) /\ DOMAIN tx'[i] = DOMAIN tx[i]
          BY <4>1, <4>2
        <4> QED
          BY <4>2, <4>3, ForgottenIsRequest
      <3>3. tx' = [i \in Instruments |-> tx'[i]]
        BY <2>4
      <3> QED
        BY <2>2, <3>1, <3>2, <3>3 DEF Typed
    <2> QED
      BY <1>3, <2>3, <2>4 DEF LoseCall
  <1>4. ASSUME NEW i \in Instruments, NEW u \in Range(book[i].BUY), AskCancel(i, u) PROVE Typed'
    <2> DEFINE r == [kind |-> "CANCEL", order |-> u.order, instrument |-> i, party |-> u.party,
                     live |-> FALSE]
    <2>1. sent' = sent \cup {r} /\ UNCHANGED <<ticket, tx, trouble>> /\ u.order \in Resting
      BY <1>4 DEF AskCancel
    <2>2. IsRequest(r)
      BY DEF IsRequest
    <2> QED
      BY <2>1, <2>2 DEF Typed
  <1>5. ASSUME NEW i \in Instruments, Begin(i) PROVE Typed'
    <2>1. PICK r \in sent : tx' = [tx EXCEPT ![i] =
              [request |-> r, locks |-> LocksOf(i, r), holds |-> {}, queued |-> FALSE]]
      BY <1>5 DEF Begin
    <2>2. UNCHANGED <<ticket, trouble>> /\ sent' \subseteq sent
      BY <1>5 DEF Begin
    <2>3. PICK L : L = LocksOf(i, r)
      OBVIOUS
    <2>4. tx' = [tx EXCEPT ![i] = [request |-> r, locks |-> L, holds |-> {}, queued |-> FALSE]]
      BY <2>1, <2>3
    <2>5. IsRequest(r)
      BY DEF Typed
    <2>6. ASSUME NEW j \in Instruments, tx'[j] # None
          PROVE  /\ DOMAIN tx'[j] = {"request", "locks", "holds", "queued"}
                 /\ IsRequest(tx'[j].request)
      <3>1. CASE j = i
        <4>1. tx'[i] = [request |-> r, locks |-> L, holds |-> {}, queued |-> FALSE]
          BY <2>4 DEF Typed
        <4>2. DOMAIN tx'[i] = {"request", "locks", "holds", "queued"} /\ tx'[i].request = r
          BY <4>1
        <4> QED
          BY <3>1, <4>2, <2>5
      <3>2. CASE j # i
        <4>1. tx'[j] = tx[j]
          BY <2>4, <3>2 DEF Typed
        <4> QED
          BY <4>1, <2>6 DEF Typed
      <3> QED
        BY <3>1, <3>2
    <2>7. tx' = [j \in Instruments |-> tx'[j]]
      BY <2>4 DEF Typed
    <2> QED
      BY <2>2, <2>6, <2>7 DEF Typed
  <1>6. ASSUME NEW i \in Instruments, Queue(i) \/ Lock(i) PROVE Typed'
    <2>1. UNCHANGED <<ticket, sent, trouble>> /\ tx[i] # None
      BY <1>6 DEF Queue, Lock, Needs
    <2>2. PICK L, H, q : tx' = [tx EXCEPT ![i] = [tx[i] EXCEPT !.locks = L, !.holds = H, !.queued = q]]
      <3>1. CASE Queue(i)
        <4>1. tx' = [tx EXCEPT ![i].queued = TRUE]
          BY <3>1 DEF Queue
        <4>2. tx' = [tx EXCEPT ![i] = [tx[i] EXCEPT !.locks = tx[i].locks, !.holds = tx[i].holds,
                                                   !.queued = TRUE]]
          BY <4>1, <2>1 DEF Typed
        <4> QED
          BY <4>2
      <3>2. CASE Lock(i)
        <4>1. PICK a \in Accounts : tx' = [tx EXCEPT ![i].locks = Tail(@), ![i].holds = @ \cup {a},
                                                     ![i].queued = FALSE]
          BY <3>2 DEF Lock
        <4>2. PICK L, H : L = Tail(tx[i].locks) /\ H = tx[i].holds \cup {a}
          OBVIOUS
        <4>3. tx' = [tx EXCEPT ![i] = [tx[i] EXCEPT !.locks = L, !.holds = H, !.queued = FALSE]]
          BY <4>1, <4>2, <2>1 DEF Typed
        <4> QED
          BY <4>3
      <3> QED
        BY <1>6, <3>1, <3>2
    <2>3. ASSUME NEW j \in Instruments, tx'[j] # None
          PROVE  /\ DOMAIN tx'[j] = {"request", "locks", "holds", "queued"}
                 /\ IsRequest(tx'[j].request)
      <3>1. CASE j = i
        <4>1. tx'[i] = [tx[i] EXCEPT !.locks = L, !.holds = H, !.queued = q]
          BY <2>2 DEF Typed
        <4>2. DOMAIN tx[i] = {"request", "locks", "holds", "queued"} /\ IsRequest(tx[i].request)
          BY <2>1 DEF Typed
        <4>3. DOMAIN tx'[i] = DOMAIN tx[i] /\ tx'[i].request = tx[i].request
          BY <4>1, <4>2
        <4> QED
          BY <3>1, <4>2, <4>3
      <3>2. CASE j # i
        <4>1. tx'[j] = tx[j]
          BY <2>2, <3>2 DEF Typed
        <4> QED
          BY <4>1, <2>3 DEF Typed
      <3> QED
        BY <3>1, <3>2
    <2>4. tx' = [j \in Instruments |-> tx'[j]]
      BY <2>2 DEF Typed
    <2> QED
      BY <2>1, <2>3, <2>4 DEF Typed
  <1>7. ASSUME NEW i \in Instruments, tx[i] # None, Abort(i) PROVE Typed'
    BY <1>7, EndIsTyped DEF Abort, ledger
  <1>8. ASSUME NEW i \in Instruments, tx[i] # None, End(i) PROVE Typed'
    <2>1. PICK r : /\ r = tx[i].request
                   /\ Replay(i, r) \/ Refuse(i, r) \/ Accept(i, r) \/ Cancel(i, r)
      BY <1>8 DEF End
    <2>2. /\ tx' = [tx EXCEPT ![i] = None] /\ UNCHANGED <<sent, trouble>>
          /\ Tell(r, "done") \/ UNCHANGED ticket
      BY <2>1 DEF Replay, Refuse, Accept, Cancel, MayPlace, Commit, Hear
    <2> QED
      BY <1>8, <2>1, <2>2, EndIsTyped
  <1>9. CASE Crash
    <2>1. /\ trouble < MaxTrouble /\ trouble' = trouble + 1
          /\ sent' = {} /\ tx' = [i \in Instruments |-> None]
          /\ ticket' = [t \in Tabs |-> IF ticket[t].phase = "waiting"
                                        THEN [ticket[t] EXCEPT !.phase = "failed"] ELSE ticket[t]]
      BY <1>9 DEF Crash, Trouble
    <2>2. /\ ticket' \in [Tabs -> [changes : 1..(MaxTrouble + 1),
                                   phase : {"ready", "waiting", "failed", "done"}]]
          /\ \A u \in Tabs : ticket'[u].changes <= trouble' + 1
          /\ trouble' \in 0..MaxTrouble
      BY <2>1 DEF Typed
    <2>3. \A r \in sent' : IsRequest(r)
      BY <2>1
    <2>4. (\A j \in Instruments : tx'[j] = None) /\ tx' = [j \in Instruments |-> tx'[j]]
      BY <2>1
    <2> QED
      BY <2>2, <2>3, <2>4 DEF Typed
  <1>10. ASSUME NEW i \in Instruments, Switch(i) PROVE Typed'
    <2>1. trouble < MaxTrouble /\ trouble' = trouble + 1 /\ UNCHANGED <<ticket, sent, tx>>
      BY <1>10 DEF Switch, Trouble
    <2>2. /\ \A t \in Tabs : ticket'[t].changes <= trouble' + 1
          /\ trouble' \in 0..MaxTrouble
      BY <2>1 DEF Typed
    <2> QED
      BY <2>1, <2>2 DEF Typed
  <1>11. CASE UNCHANGED vars
    BY <1>11 DEF vars, Typed
  <1>12. ASSUME NEW i \in Instruments, Abort(i) PROVE tx[i] # None
    BY <1>12 DEF Abort, Circle, Needs
  <1> QED
    BY <1>1, <1>2, <1>3, <1>4, <1>5, <1>6, <1>7, <1>8, <1>9, <1>10, <1>11, <1>12 DEF Next, Run

\* A command that ends changes nothing but what its own identity has in store: an answer
\* is stored once, with its order or without, and is what everybody is told from then on.
LEMMA AnswersAreStoredStep == Typed /\ AnswersAreStored /\ [Next]_vars => AnswersAreStored'
  <1> SUFFICES ASSUME Typed, AnswersAreStored, [Next]_vars PROVE AnswersAreStored'
    OBVIOUS
  <1>1. CASE UNCHANGED <<stored, heard, orders>>
    BY <1>1 DEF AnswersAreStored
  <1>2. ASSUME NEW i \in Instruments, tx[i] # None, End(i) PROVE AnswersAreStored'
    <2>1. PICK r : /\ r = tx[i].request
                   /\ Replay(i, r) \/ Refuse(i, r) \/ Accept(i, r) \/ Cancel(i, r)
      BY <1>2 DEF End
    <2>2. IsRequest(r)
      BY <1>2, <2>1 DEF Typed
    <2>3. ASSUME NEW answer \in Answers, Hear(r, answer), r.order \in Identities
          PROVE  /\ heard' \in [Identities -> SUBSET Answers]
                 /\ heard'[r.order] \subseteq heard[r.order] \cup {answer}
                 /\ \A d \in Identities \ {r.order} : heard'[d] = heard[d]
      BY <2>3 DEF Hear, AnswersAreStored
    <2>4. CASE Replay(i, r)
      <3>1. r.order \in Identities /\ stored[r.order] \in Answers
        BY <2>2, <2>4 DEF Replay, IsRequest, AnswersAreStored
      <3>2. Hear(r, stored[r.order]) /\ UNCHANGED <<stored, orders>>
        BY <2>4 DEF Replay, ledger
      <3> QED
        BY <3>1, <3>2, <2>3 DEF AnswersAreStored
    <2>5. ASSUME NEW answer \in Answers, NEW n \in {0, 1}, n = 1 <=> answer = "accepted",
                 r.order \in Identities, stored[r.order] = None, Hear(r, answer),
                 stored' = [stored EXCEPT ![r.order] = answer],
                 orders' = [orders EXCEPT ![r.order] = n]
          PROVE  AnswersAreStored'
      <3>1. /\ heard' \in [Identities -> SUBSET Answers]
            /\ heard'[r.order] \subseteq heard[r.order] \cup {answer}
            /\ \A d \in Identities \ {r.order} : heard'[d] = heard[d]
        BY <2>3, <2>5
      <3>2. heard[r.order] = {}
        <4>1. heard[r.order] \subseteq {None} /\ heard[r.order] \subseteq Answers
          BY <2>5 DEF AnswersAreStored
        <4> QED
          BY <4>1, DeskAssumption
      <3>3. stored' \in [Identities -> Answers \cup {None}] /\ orders' \in [Identities -> {0, 1}]
        BY <2>5 DEF AnswersAreStored
      <3>4. ASSUME NEW d \in Identities
            PROVE  heard'[d] \subseteq {stored'[d]} /\ (orders'[d] = 1 <=> stored'[d] = "accepted")
        <4>1. CASE d = r.order
          <5>1. stored'[d] = answer /\ orders'[d] = n
            BY <2>5, <4>1 DEF AnswersAreStored
          <5> QED
            BY <3>1, <3>2, <4>1, <5>1, <2>5
        <4>2. CASE d # r.order
          <5>1. stored'[d] = stored[d] /\ orders'[d] = orders[d] /\ heard'[d] = heard[d]
            BY <2>5, <3>1, <4>2 DEF AnswersAreStored
          <5> QED
            BY <5>1 DEF AnswersAreStored
        <4> QED
          BY <4>1, <4>2
      <3> QED
        BY <3>1, <3>3, <3>4 DEF AnswersAreStored
    <2>6. ASSUME MayPlace(i, r)
          PROVE  r.order \in Identities /\ stored[r.order] = None /\ orders[r.order] = 0
      <3>1. r.order \in Identities /\ stored[r.order] = None
        BY <2>2, <2>6 DEF MayPlace, IsRequest
      <3>2. None # "accepted"
        BY DeskAssumption DEF Answers
      <3> QED
        BY <3>1, <3>2 DEF AnswersAreStored
    <2>7. CASE Refuse(i, r)
      <3>1. /\ stored' = [stored EXCEPT ![r.order] = "refused"] /\ Hear(r, "refused")
            /\ UNCHANGED orders /\ MayPlace(i, r)
        BY <2>7 DEF Refuse, StoreRefusal
      <3>2. orders' = [orders EXCEPT ![r.order] = 0]
        BY <3>1, <2>6 DEF AnswersAreStored
      <3>3. "refused" \in Answers /\ "refused" # "accepted"
        BY DEF Answers
      <3>4. (0 = 1 <=> "refused" = "accepted") /\ 0 \in {0, 1}
        BY <3>3
      <3>5. r.order \in Identities /\ stored[r.order] = None
        BY <3>1, <2>6
      <3> QED
        BY <3>1, <3>2, <3>3, <3>4, <3>5, <2>5
    <2>8. CASE Accept(i, r)
      <3>1. /\ stored' = [stored EXCEPT ![r.order] = "accepted"] /\ Hear(r, "accepted")
            /\ orders' = [orders EXCEPT ![r.order] = @ + 1] /\ MayPlace(i, r)
        BY <2>8 DEF Accept
      <3>2. orders' = [orders EXCEPT ![r.order] = 1]
        <4>1. orders[r.order] = 0
          BY <3>1, <2>6
        <4>2. orders' = [orders EXCEPT ![r.order] = orders[r.order] + 1]
          BY <3>1
        <4> QED
          BY <4>1, <4>2
      <3>3. "accepted" \in Answers
        BY DEF Answers
      <3>4. (1 = 1 <=> "accepted" = "accepted") /\ 1 \in {0, 1}
        OBVIOUS
      <3>5. r.order \in Identities /\ stored[r.order] = None
        BY <3>1, <2>6
      <3> QED
        BY <3>1, <3>2, <3>3, <3>4, <3>5, <2>5
    <2>9. CASE Cancel(i, r)
      BY <2>9, <1>1 DEF Cancel
    <2> QED
      BY <2>1, <2>4, <2>7, <2>8, <2>9
  <1>3. ASSUME NEW t \in Tabs, Submit(t) \/ Change(t) \/ LoseCall(t) PROVE AnswersAreStored'
    BY <1>3, <1>1 DEF Submit, Change, LoseCall, ledger
  <1>4. ASSUME NEW i \in Instruments, Begin(i) \/ Queue(i) \/ Lock(i) \/ Abort(i) \/ Switch(i)
        PROVE  AnswersAreStored'
    BY <1>4, <1>1 DEF Begin, Queue, Lock, Abort, Switch, ledger
  <1>5. ASSUME NEW i \in Instruments, NEW u, AskCancel(i, u) PROVE AnswersAreStored'
    BY <1>5, <1>1 DEF AskCancel, ledger
  <1>6. CASE Crash
    BY <1>6, <1>1 DEF Crash, ledger
  <1>7. CASE UNCHANGED vars
    BY <1>7, <1>1 DEF vars, ledger
  <1> QED
    BY <1>2, <1>3, <1>4, <1>5, <1>6, <1>7 DEF Next, Run

\* Every state has both parts.
LEMMA Invariants == Spec => [](Typed /\ AnswersAreStored)
  <1>1. Init => Typed /\ AnswersAreStored
    BY InitInv
  <1>2. (Typed /\ AnswersAreStored) /\ [Next]_vars => (Typed /\ AnswersAreStored)'
    BY TypedStep, AnswersAreStoredStep
  <1> QED
    BY <1>1, <1>2, PTL DEF Spec

------------------------------------------------------------------------------
\* Whatever is lost, sent again, aborted or overtaken: the key of a ticket hears one
\* answer at most, and has its one order exactly if that answer was yes.
THEOREM DeskAnswersAreFinal == Spec => []AnswersAreFinal
  <1>1. Typed /\ AnswersAreStored => AnswersAreFinal
    <2> SUFFICES ASSUME AnswersAreStored, NEW d \in Identities
                 PROVE  /\ Cardinality(heard[d]) <= 1 /\ orders[d] <= 1
                        /\ "accepted" \in heard[d] => orders[d] = 1
                        /\ "refused" \in heard[d] => orders[d] = 0
      BY DEF AnswersAreFinal
    <2>1. heard[d] \subseteq {stored[d]} /\ (orders[d] = 1 <=> stored[d] = "accepted")
          /\ orders[d] \in {0, 1}
      BY DEF AnswersAreStored
    <2>2. Cardinality(heard[d]) <= 1
      <3>1. heard[d] = {} \/ heard[d] = {stored[d]}
        BY <2>1
      <3>2. Cardinality({}) = 0 /\ Cardinality({stored[d]}) = 1
        BY FS_EmptySet, FS_Singleton
      <3> QED
        BY <3>1, <3>2
    <2>3. orders[d] <= 1
      BY <2>1
    <2>4. "accepted" \in heard[d] => orders[d] = 1
      BY <2>1
    <2>5. "refused" \in heard[d] => orders[d] = 0
      BY <2>1
    <2> QED
      BY <2>2, <2>3, <2>4, <2>5
  <1> QED
    BY <1>1, Invariants, PTL
===============================================================================
