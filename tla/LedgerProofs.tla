----------------------------- MODULE LedgerProofs -----------------------------
(***************************************************************************)
(* Proofs about Ledger, for every set of workers, keys and accounts and for *)
(* every input.  IndInv is about keys, locks and reads and treats amounts   *)
(* as opaque; Entries adds what the balances are sums of.                   *)
(***************************************************************************)
EXTENDS Ledger, SumTheorems

\* The variables that are functions are functions.
Shape ==
    /\ postings = [k \in DOMAIN postings |-> postings[k]]
    /\ balance = [a \in Accounts |-> balance[a]]
    /\ keyLock \in [Keys -> Workers \cup {None}]
    /\ rowLock \in [Accounts -> Workers \cup {None}]
    /\ pc \in [Workers -> Stages]
    /\ req = [w \in Workers |-> req[w]]
    /\ seen = [w \in Workers |-> seen[w]]

\* What a request in flight asks for: its input passed the guards, and if it
\* reverses a posting, that posting is stored and the legs are its inverse.
RequestsAreSound ==
    \A w \in Workers : pc[w] # "idle" =>
        /\ Key(w) \in Keys
        /\ WellFormed(Legs(w))
        /\ req[w].posting.reverses \in Keys \cup {None}
        /\ req[w].posting.reverses # None =>
              /\ Stored(req[w].posting.reverses)
              /\ Legs(w) = InverseLegs(postings[req[w].posting.reverses].legs)

\* A worker reads rows only while it is at the rows.
ReadsBelongToRows ==
    \A w \in Workers : pc[w] \in {"idle", "key", "reversal"} => DOMAIN seen[w] = {}

IndInv ==
    /\ Shape
    /\ TypeOK
    /\ RequestsAreSound
    /\ ReadsBelongToRows
    /\ LockedReadsStayTrue
    /\ OneReversalPerPosting
    /\ AcknowledgedIsStored

------------------------------------------------------------------------------
\* The first state satisfies every part.
LEMMA InitInv == Init => IndInv
  <1> SUFFICES ASSUME Init PROVE IndInv
    OBVIOUS
  <1> USE LedgerAssumption, AccountsAssumption DEF Init, Stored
  <1>1. Shape
    BY DEF Shape, Stages
  <1>2. TypeOK
    BY DEF TypeOK, Stages, NothingSeen
  <1>3. RequestsAreSound
    BY DEF RequestsAreSound
  <1>4. ReadsBelongToRows
    BY DEF ReadsBelongToRows, NothingSeen
  <1>5. LockedReadsStayTrue
    BY DEF LockedReadsStayTrue
  <1>6. OneReversalPerPosting /\ AcknowledgedIsStored
    BY DEF OneReversalPerPosting, AcknowledgedIsStored
  <1> QED
    BY <1>1, <1>2, <1>3, <1>4, <1>5, <1>6 DEF IndInv

\* Opening an account.
LEMMA OpenAccountInv ==
    ASSUME IndInv, NEW a \in Accounts, OpenAccount(a)
    PROVE  IndInv'
  <1> USE DEF OpenAccount, locks, IndInv, Stored
  <1>1. Shape'
    BY DEF Shape
  <1>2. TypeOK'
    BY DEF TypeOK, Stages
  <1>3. RequestsAreSound' /\ ReadsBelongToRows'
    BY DEF RequestsAreSound, ReadsBelongToRows, Key, Legs
  <1>4. LockedReadsStayTrue'
    BY DEF LockedReadsStayTrue, Key, Legs
  <1>5. OneReversalPerPosting' /\ AcknowledgedIsStored'
    BY DEF OneReversalPerPosting, AcknowledgedIsStored
  <1> QED
    BY <1>1, <1>2, <1>3, <1>4, <1>5

\* Steps that leave the tables and the answers alone keep what is said of them
\* and of the other workers' requests.
LEMMA StartInv ==
    ASSUME IndInv, NEW w \in Workers, NEW key \in Keys, NEW legs,
           NEW reverses \in Keys \cup {None},
           reverses # None => Stored(reverses)
                              /\ legs = InverseLegs(postings[reverses].legs),
           Start(w, key, legs, reverses)
    PROVE  IndInv'
  <1> USE DEF Start, Goto, tables, locks, IndInv, Stored
  <1>1. Shape'
    BY DEF Shape, Stages
  <1>2. TypeOK'
    BY DEF TypeOK, Stages, Shape
  <1>3. RequestsAreSound'
    BY DEF RequestsAreSound, Key, Legs, Shape
  <1>4. ReadsBelongToRows'
    BY DEF ReadsBelongToRows, Shape
  <1>5. LockedReadsStayTrue'
    BY DEF LockedReadsStayTrue, Key, Legs, Shape
  <1>6. OneReversalPerPosting' /\ AcknowledgedIsStored'
    BY DEF OneReversalPerPosting, AcknowledgedIsStored
  <1> QED
    BY <1>1, <1>2, <1>3, <1>4, <1>5, <1>6

\* A call of post, reserve, release or reverse is a Start with sound input: a
\* reversal has found its original stored.
LEMMA CallInv ==
    ASSUME IndInv, NEW w \in Workers, Call(w)
    PROVE  IndInv'
  <1>1. CASE CallPost(w)
    <2>1. PICK c \in Posts : Start(w, c.key, c.legs, None)
      BY <1>1 DEF CallPost
    <2>2. c.key \in Keys
      BY LedgerAssumption
    <2> QED
      BY <2>1, <2>2, StartInv
  <1>2. CASE CallMove(w)
    <2>1. PICK c \in Moves : \E legs : Start(w, c.key, legs, None)
      BY <1>2 DEF CallMove
    <2>2. c.key \in Keys
      BY LedgerAssumption
    <2> QED
      BY <2>1, <2>2, StartInv
  <1>3. CASE CallReverse(w)
    <2>1. PICK c \in Reversals :
              /\ Stored(c.target)
              /\ Start(w, c.key, InverseLegs(postings[c.target].legs), c.target)
      BY <1>3 DEF CallReverse
    <2>2. c.key \in Keys /\ c.target \in Keys
      BY LedgerAssumption
    <2> QED
      BY <2>1, <2>2, StartInv
  <1> QED
    BY <1>1, <1>2, <1>3 DEF Call

\* Leaving a call, with or without an answer: the locks of the worker go, and so
\* does everything said of its request.
LEMMA GiveUpInv ==
    ASSUME IndInv, NEW w \in Workers, GiveUp(w)
    PROVE  IndInv'
  <1> USE LedgerAssumption DEF GiveUp, DropLocks, tables, IndInv, Stored
  <1>1. Shape'
    BY DEF Shape, Stages
  <1>2. TypeOK'
    BY DEF TypeOK, Stages, Shape, NothingSeen
  <1>3. RequestsAreSound'
    BY DEF RequestsAreSound, Key, Legs, Shape
  <1>4. ReadsBelongToRows'
    BY DEF ReadsBelongToRows, Shape, NothingSeen
  <1>5. LockedReadsStayTrue'
    <2> SUFFICES ASSUME NEW v \in Workers
                 PROVE  LockedReadsStayTrue!(v)'
      BY DEF LockedReadsStayTrue
    <2>1. CASE v = w
      BY <2>1 DEF LockedReadsStayTrue, Key, Legs, Shape, NothingSeen
    <2>2. CASE v # w
      <3>1. pc'[v] = pc[v] /\ req'[v] = req[v] /\ seen'[v] = seen[v]
        BY <2>2 DEF Shape
      <3>2. /\ \A k \in Keys : keyLock'[k] = v <=> keyLock[k] = v
            /\ \A a \in Accounts : rowLock'[a] = v <=> rowLock[a] = v
        BY <2>2
      <3> QED
        BY <3>1, <3>2 DEF LockedReadsStayTrue, Key, Legs
    <2> QED
      BY <2>1, <2>2
  <1>6. OneReversalPerPosting' /\ AcknowledgedIsStored'
    BY DEF OneReversalPerPosting, AcknowledgedIsStored
  <1> QED
    BY <1>1, <1>2, <1>3, <1>4, <1>5, <1>6

------------------------------------------------------------------------------
\* The steps of the transaction.

\* Taking the advisory lock: nobody else holds the key, and no posting has it.
LEMMA TakeKeyInv ==
    ASSUME IndInv, NEW w \in Workers, TakeKey(w)
    PROVE  IndInv'
  <1> USE LedgerAssumption DEF TakeKey, Goto, tables, IndInv, Stored
  <1>1. Shape'
    BY DEF Shape, Stages
  <1>2. TypeOK'
    BY DEF TypeOK, Stages, Shape, Key
  <1>3. RequestsAreSound'
    BY DEF RequestsAreSound, Key, Legs, Shape
  <1>4. ReadsBelongToRows'
    BY DEF ReadsBelongToRows, Shape
  <1>5. LockedReadsStayTrue'
    <2>1. DOMAIN seen[w] = {}
      BY DEF ReadsBelongToRows
    <2> SUFFICES ASSUME NEW v \in Workers
                 PROVE  LockedReadsStayTrue!(v)'
      BY DEF LockedReadsStayTrue
    <2>2. CASE v = w
      <3>1. pc'[w] \in {"reversal", "rows"}
        BY DEF Shape
      <3> QED
        BY <2>1, <2>2, <3>1 DEF LockedReadsStayTrue, Key, Legs, Shape, RequestsAreSound
    <2>3. CASE v # w
      <3>1. pc'[v] = pc[v]
        BY <2>3 DEF Shape
      <3>2. \A k \in Keys : keyLock'[k] = v <=> keyLock[k] = v
        BY <2>3 DEF Shape
      <3> QED
        BY <3>1, <3>2 DEF LockedReadsStayTrue, Key, Legs
    <2> QED
      BY <2>2, <2>3
  <1>6. OneReversalPerPosting' /\ AcknowledgedIsStored'
    BY DEF OneReversalPerPosting, AcknowledgedIsStored
  <1> QED
    BY <1>1, <1>2, <1>3, <1>4, <1>5, <1>6

\* The answer to a repeated request is the posting stored for it.
LEMMA ReplayStoredInv ==
    ASSUME IndInv, NEW w \in Workers, ReplayStored(w)
    PROVE  IndInv'
  <1> USE DEF ReplayStored, Goto, tables, locks, IndInv, Stored
  <1>1. Shape'
    BY DEF Shape, Stages
  <1>2. TypeOK'
    BY DEF TypeOK, Stages, Shape
  <1>3. RequestsAreSound'
    BY DEF RequestsAreSound, Key, Legs, Shape
  <1>4. ReadsBelongToRows'
    BY DEF ReadsBelongToRows, Shape
  <1>5. LockedReadsStayTrue'
    BY DEF LockedReadsStayTrue, Key, Legs, Shape
  <1>6. OneReversalPerPosting' /\ AcknowledgedIsStored'
    BY DEF OneReversalPerPosting, AcknowledgedIsStored
  <1> QED
    BY <1>1, <1>2, <1>3, <1>4, <1>5, <1>6

\* The look for an earlier reversal writes nothing.
LEMMA LookForReversalInv ==
    ASSUME IndInv, NEW w \in Workers, LookForReversal(w)
    PROVE  IndInv'
  <1> USE DEF LookForReversal, Goto, tables, locks, IndInv, Stored
  <1>1. Shape'
    BY DEF Shape, Stages
  <1>2. TypeOK'
    BY DEF TypeOK, Stages, Shape
  <1>3. RequestsAreSound'
    BY DEF RequestsAreSound, Key, Legs, Shape
  <1>4. ReadsBelongToRows'
    BY DEF ReadsBelongToRows, Shape
  <1>5. LockedReadsStayTrue'
    BY DEF LockedReadsStayTrue, ReadsBelongToRows, Key, Legs, Shape
  <1>6. OneReversalPerPosting' /\ AcknowledgedIsStored'
    BY DEF OneReversalPerPosting, AcknowledgedIsStored
  <1> QED
    BY <1>1, <1>2, <1>3, <1>4, <1>5, <1>6

\* Locking a row: the balance read is the balance of the row.
LEMMA LockRowInv ==
    ASSUME IndInv, NEW w \in Workers, LockRow(w)
    PROVE  IndInv'
  <1> USE DEF LockRow, tables, IndInv, Stored
  <1>0. PICK a \in NextRows(w) :
           /\ rowLock[a] = None
           /\ rowLock' = [rowLock EXCEPT ![a] = w]
           /\ Read(w, a)
    BY DEF LockRow
  <1>a. a \in Touched(Legs(w)) /\ a \in opened /\ a \in Accounts
    BY DEF NextRows, RowsToRead, Touched
  <1>b. seen'[w] = [b \in DOMAIN seen[w] \cup {a} |->
                       IF b = a THEN balance[a] ELSE seen[w][b]]
    BY <1>0 DEF Read, Shape
  <1>c. \A v \in Workers : v # w => seen'[v] = seen[v]
    BY <1>0 DEF Read, Shape
  <1>1. Shape'
    BY <1>0, <1>a DEF Shape, Read
  <1>2. TypeOK'
    <2>1. \A v \in Workers : DOMAIN seen'[v] \subseteq Accounts
      BY <1>a, <1>b, <1>c DEF TypeOK
    <2>2. rowLock' \in [Accounts -> Workers \cup {None}]
      BY <1>1 DEF Shape
    <2> QED
      BY <2>1, <2>2, <1>0 DEF TypeOK, Key
  <1>3. RequestsAreSound'
    BY DEF RequestsAreSound, Key, Legs
  <1>4. ReadsBelongToRows'
    BY <1>c DEF ReadsBelongToRows
  <1>5. LockedReadsStayTrue'
    <2> SUFFICES ASSUME NEW v \in Workers
                 PROVE  LockedReadsStayTrue!(v)'
      BY DEF LockedReadsStayTrue
    <2>1. CASE v = w
      <3>1. \A b \in Accounts : rowLock'[b] = w <=> b \in DOMAIN seen'[w]
        BY <1>0, <1>a, <1>b DEF LockedReadsStayTrue, Shape
      <3>2. DOMAIN seen'[w] \subseteq Touched(Legs(w)) \cap opened
        BY <1>a, <1>b DEF LockedReadsStayTrue
      <3>3. \A b \in DOMAIN seen'[w] : seen'[w][b] = balance[b]
        BY <1>b DEF LockedReadsStayTrue
      <3> QED
        BY <2>1, <3>1, <3>2, <3>3 DEF LockedReadsStayTrue, Key, Legs
    <2>2. CASE v # w
      <3>1. \A b \in Accounts : rowLock'[b] = v <=> rowLock[b] = v
        BY <1>0, <1>a, <2>2, LedgerAssumption DEF Shape
      <3> QED
        BY <3>1, <2>2, <1>c DEF LockedReadsStayTrue, Key, Legs
    <2> QED
      BY <2>1, <2>2
  <1>6. OneReversalPerPosting' /\ AcknowledgedIsStored'
    BY DEF OneReversalPerPosting, AcknowledgedIsStored
  <1> QED
    BY <1>1, <1>2, <1>3, <1>4, <1>5, <1>6

\* The answer adds the stored posting to what callers have been told.
LEMMA ReplyInv ==
    ASSUME IndInv, NEW w \in Workers, Reply(w)
    PROVE  IndInv'
  <1> USE LedgerAssumption DEF Reply, tables, locks, IndInv, Stored
  <1>1. Shape'
    BY DEF Shape, Stages
  <1>2. TypeOK'
    <2>1. Key(w) \in Keys
      BY DEF RequestsAreSound
    <2>2. \A v \in Workers : DOMAIN seen'[v] \subseteq Accounts
      BY DEF TypeOK, Shape, NothingSeen
    <2>3. pc' \in [Workers -> Stages]
      BY DEF Shape, Stages
    <2>4. \A v \in Workers : pc'[v] # "idle" => Key(v)' \in Keys
      BY DEF TypeOK, Shape, Key
    <2> QED
      BY <2>1, <2>2, <2>3, <2>4 DEF TypeOK, Key
  <1>3. RequestsAreSound'
    BY DEF RequestsAreSound, Key, Legs, Shape
  <1>4. ReadsBelongToRows'
    BY DEF ReadsBelongToRows, Shape, NothingSeen
  <1>5. LockedReadsStayTrue'
    <2> SUFFICES ASSUME NEW v \in Workers
                 PROVE  LockedReadsStayTrue!(v)'
      BY DEF LockedReadsStayTrue
    <2>1. CASE v = w
      BY <2>1 DEF LockedReadsStayTrue, Key, Legs, Shape
    <2>2. CASE v # w
      <3>1. pc'[v] = pc[v] /\ req'[v] = req[v] /\ seen'[v] = seen[v]
        BY <2>2 DEF Shape
      <3> QED
        BY <3>1 DEF LockedReadsStayTrue, Key, Legs
    <2> QED
      BY <2>1, <2>2
  <1>6. OneReversalPerPosting'
    BY DEF OneReversalPerPosting
  <1>7. AcknowledgedIsStored'
    BY DEF AcknowledgedIsStored, LockedReadsStayTrue, RequestsAreSound
  <1> QED
    BY <1>1, <1>2, <1>3, <1>4, <1>5, <1>6, <1>7

\* The commit: the balances the worker read are still those of the rows, so what
\* it writes is the old balance with the effect of its legs.
LEMMA CommitPostingInv ==
    ASSUME IndInv, NEW w \in Workers, CommitPosting(w)
    PROVE  IndInv'
  <1> DEFINE p == req[w].posting
  <1> USE LedgerAssumption DEF CommitPosting, Goto, IndInv, Stored
  <1>a. /\ pc[w] = "rows" /\ Key(w) \in Keys
        /\ Key(w) \notin DOMAIN postings
    BY DEF LockedReadsStayTrue, RequestsAreSound
  <1>b. /\ DOMAIN postings' = DOMAIN postings \cup {Key(w)}
        /\ \A k \in DOMAIN postings : postings'[k] = postings[k]
        /\ postings'[Key(w)] = p
    BY <1>a DEF InsertPosting
  <1>c. /\ pc'[w] = "reply"
        /\ \A v \in Workers : v # w => pc'[v] = pc[v]
    BY DEF Shape
  <1>1. Shape'
    <2>1. postings' = [k \in DOMAIN postings' |-> postings'[k]]
      BY DEF InsertPosting
    <2> QED
      BY <2>1 DEF Shape, Stages, DropLocks
  <1>2. TypeOK'
    <2>1. balance' \in [Accounts -> 0..MaxNumeric]
      BY DEF MayInsert, MayApply, TypeOK
    <2>2. \A k \in DOMAIN postings' : postings'[k].reverses \in Keys \cup {None}
      BY <1>a, <1>b DEF TypeOK, RequestsAreSound
    <2>3. \A v \in Workers : pc'[v] # "idle" => Key(v)' \in Keys
      BY <1>a, <1>c DEF TypeOK, Key
    <2> QED
      BY <1>1, <1>a, <1>b, <2>1, <2>2, <2>3 DEF TypeOK, Shape, Key
  <1>3. RequestsAreSound'
    <2> SUFFICES ASSUME NEW v \in Workers, pc'[v] # "idle"
                 PROVE  RequestsAreSound!(v)!2'
      BY DEF RequestsAreSound
    <2>1. pc[v] # "idle"
      BY <1>a, <1>c
    <2> QED
      BY <2>1, <1>b DEF RequestsAreSound, Key, Legs
  <1>4. ReadsBelongToRows'
    BY <1>c DEF ReadsBelongToRows
  <1>5. LockedReadsStayTrue'
    <2> SUFFICES ASSUME NEW v \in Workers
                 PROVE  LockedReadsStayTrue!(v)'
      BY DEF LockedReadsStayTrue
    <2>1. CASE v = w
      <3>1. /\ \A k \in Keys : keyLock'[k] # w
            /\ \A a \in Accounts : rowLock'[a] # w
        BY DEF DropLocks
      <3> QED
        BY <2>1, <3>1, <1>b, <1>c DEF Key
    <2>2. CASE v # w
      <3>1. /\ \A k \in Keys : keyLock'[k] = v <=> keyLock[k] = v
            /\ \A a \in Accounts : rowLock'[a] = v <=> rowLock[a] = v
        BY <2>2 DEF DropLocks
      <3>2. pc[v] \in {"reversal", "rows"} => Key(v) # Key(w)
        BY <1>a, <2>2 DEF LockedReadsStayTrue, RequestsAreSound
      <3>3. ASSUME pc[v] = "rows", NEW a \in DOMAIN seen[v]
            PROVE  balance'[a] = balance[a]
        <4>1. a \in Accounts /\ rowLock[a] = v
          BY <3>3 DEF LockedReadsStayTrue, TypeOK
        <4>2. a \notin Touched(Legs(w))
          BY <4>1, <2>2, <1>a DEF LockedReadsStayTrue, MayInsert, MayApply
        <4> QED
          BY <4>1, <4>2
      <3> QED
        BY <3>1, <3>2, <3>3, <2>2, <1>b, <1>c DEF LockedReadsStayTrue, Key, Legs
    <2> QED
      BY <2>1, <2>2
  <1>6. OneReversalPerPosting'
    BY <1>b DEF OneReversalPerPosting, MayInsert, Reversed
  <1>7. AcknowledgedIsStored'
    BY <1>b DEF AcknowledgedIsStored
  <1> QED
    BY <1>1, <1>2, <1>3, <1>4, <1>5, <1>6, <1>7

\* Every step of the ledger keeps the invariant.
LEMMA NextInv == IndInv /\ [Next]_vars => IndInv'
  <1> SUFFICES ASSUME IndInv, [Next]_vars PROVE IndInv'
    OBVIOUS
  <1>1. CASE UNCHANGED vars
    <2>1. Shape' /\ TypeOK' /\ RequestsAreSound' /\ ReadsBelongToRows'
      BY <1>1 DEF vars, IndInv, Shape, TypeOK, RequestsAreSound, ReadsBelongToRows,
                  Key, Legs, Stored
    <2>2. LockedReadsStayTrue'
      BY <1>1 DEF vars, IndInv, LockedReadsStayTrue, Key, Legs, Stored
    <2>3. OneReversalPerPosting' /\ AcknowledgedIsStored'
      BY <1>1 DEF vars, IndInv, OneReversalPerPosting, AcknowledgedIsStored, Stored
    <2> QED
      BY <2>1, <2>2, <2>3 DEF IndInv
  <1>2. ASSUME NEW a \in Accounts, OpenAccount(a) PROVE IndInv'
    BY <1>2, OpenAccountInv
  <1>3. ASSUME NEW w \in Workers, Call(w) PROVE IndInv'
    BY <1>3, CallInv
  <1>4. ASSUME NEW w \in Workers, Step(w) PROVE IndInv'
    <2>1. CASE RefuseConflict(w) \/ RefuseReversed(w) \/ RefuseInsert(w)
      BY <2>1, GiveUpInv DEF RefuseConflict, RefuseReversed, RefuseInsert
    <2> QED
      BY <1>4, <2>1, TakeKeyInv, ReplayStoredInv, LookForReversalInv, LockRowInv,
         CommitPostingInv, ReplyInv DEF Step
  <1>5. ASSUME NEW w \in Workers, Fail(w) PROVE IndInv'
    BY <1>5, GiveUpInv DEF Fail
  <1> QED
    BY <1>1, <1>2, <1>3, <1>4, <1>5 DEF Next

\* IndInv is an invariant of the ledger.
THEOREM LedgerInvariant == Spec => []IndInv
  <1> QED
    BY InitInv, NextInv, PTL DEF Spec

------------------------------------------------------------------------------
\* No balance goes below zero or above the column's width, whatever the calls.
THEOREM LedgerTypeOK == Spec => []TypeOK
  <1>1. IndInv => TypeOK
    BY DEF IndInv
  <1> QED
    BY <1>1, LedgerInvariant, PTL

\* Nobody's locked reads change under it.
THEOREM LedgerLockedReads == Spec => []LockedReadsStayTrue
  <1>1. IndInv => LockedReadsStayTrue
    BY DEF IndInv
  <1> QED
    BY <1>1, LedgerInvariant, PTL

\* However many callers reverse a posting at once, one reversal is stored.
THEOREM LedgerOneReversal == Spec => []OneReversalPerPosting
  <1>1. IndInv => OneReversalPerPosting
    BY DEF IndInv
  <1> QED
    BY <1>1, LedgerInvariant, PTL

\* An answer is never contradicted: idempotency keys survive retries, conflicts
\* and crashes.
THEOREM LedgerAcknowledged == Spec => []AcknowledgedIsStored
  <1>1. IndInv => AcknowledgedIsStored
    BY DEF IndInv
  <1> QED
    BY <1>1, LedgerInvariant, PTL

------------------------------------------------------------------------------
\* The balances.  Every posting moves whole amounts between accounts of the
\* ledger, the stored ones and those in flight, and each balance is the sum of
\* the effects of the stored ones.
WholeLegs(legs) ==
    /\ DOMAIN legs \subseteq Sides
    /\ \A side \in DOMAIN legs : legs[side] \in Int

WholeEntries ==
    /\ IsFiniteSet(DOMAIN postings)
    /\ \A k \in DOMAIN postings : WholeLegs(postings[k].legs)
    /\ \A w \in Workers : pc[w] # "idle" => WholeLegs(Legs(w))

Entries == WholeEntries /\ BalanceIsSumOfEntries

\* What a posting adds to a balance is an integer, and 0 for other accounts.
LEMMA EffectInt ==
    ASSUME NEW legs, WholeLegs(legs), NEW a \in Accounts
    PROVE  /\ Effect(legs, a) \in Int
           /\ a \notin Touched(legs) => Effect(legs, a) = 0
  <1>1. \A d \in Directions : AmountOn(legs, a, d) \in Int
    BY DEF AmountOn, WholeLegs
  <1>2. a \notin Touched(legs) => \A d \in Directions : AmountOn(legs, a, d) = 0
    BY DEF AmountOn, Touched
  <1> QED
    BY <1>1, <1>2 DEF Effect, Directions

LEMMA InverseWhole ==
    ASSUME NEW legs, WholeLegs(legs)
    PROVE  WholeLegs(InverseLegs(legs))
  <1>1. \A s \in DOMAIN legs :
           /\ s \in Sides /\ s = <<s[1], s[2]>>
           /\ <<s[1], Opposite(s[2])>> \in Sides
           /\ Opposite(Opposite(s[2])) = s[2]
    BY DEF WholeLegs, Sides, Directions, Opposite
  <1> DEFINE D == {<<s[1], Opposite(s[2])>> : s \in DOMAIN legs}
  <1>2. /\ DOMAIN InverseLegs(legs) = D
        /\ \A side \in D : InverseLegs(legs)[side] = legs[<<side[1], Opposite(side[2])>>]
    BY DEF InverseLegs
  <1>3. \A side \in D : side \in Sides /\ <<side[1], Opposite(side[2])>> \in DOMAIN legs
    BY <1>1
  <1> HIDE DEF D
  <1> QED
    BY <1>2, <1>3 DEF WholeLegs

LEMMA MoveWhole ==
    ASSUME NEW c \in Moves
    PROVE  /\ WholeLegs(MoveLegs(c.available, c.reserved, c.amount))
           /\ WholeLegs(MoveLegs(c.reserved, c.available, c.amount))
  BY LedgerAssumption DEF WholeLegs, MoveLegs, Sides, Directions

\* A call begins with whole legs.
LEMMA CallEntries ==
    ASSUME IndInv, Entries, NEW w \in Workers, Call(w)
    PROVE  Entries'
  <1>1. PICK key, legs, reverses : WholeLegs(legs) /\ Start(w, key, legs, reverses)
    <2>1. CASE CallPost(w)
      <3>1. PICK c \in Posts : Start(w, c.key, c.legs, None)
        BY <2>1 DEF CallPost
      <3>2. WholeLegs(c.legs)
        BY LedgerAssumption DEF WholeLegs
      <3> QED
        BY <3>1, <3>2
    <2>2. CASE CallMove(w)
      BY <2>2, MoveWhole DEF CallMove
    <2>3. CASE CallReverse(w)
      <3>1. PICK c \in Reversals :
                /\ Stored(c.target)
                /\ Start(w, c.key, InverseLegs(postings[c.target].legs), c.target)
        BY <2>3 DEF CallReverse
      <3>2. WholeLegs(InverseLegs(postings[c.target].legs))
        BY <3>1, InverseWhole DEF Stored, Entries, WholeEntries
      <3> QED
        BY <3>1, <3>2
    <2> QED
      BY <2>1, <2>2, <2>3 DEF Call
  <1>2. /\ UNCHANGED <<balance, postings>>
        /\ \A v \in Workers : v # w => pc'[v] = pc[v] /\ req'[v] = req[v]
        /\ Legs(w)' = legs
    BY <1>1 DEF Start, Goto, tables, IndInv, Shape, Legs
  <1>3. WholeEntries'
    BY <1>1, <1>2 DEF Entries, WholeEntries, Legs
  <1>4. BalanceIsSumOfEntries'
    BY <1>2 DEF Entries, BalanceIsSumOfEntries
  <1> QED
    BY <1>3, <1>4 DEF Entries

\* The commit writes, for each account, the balance under lock and the effect of
\* the legs, and stores the legs.
LEMMA CommitEntries ==
    ASSUME IndInv, Entries, NEW w \in Workers, CommitPosting(w)
    PROVE  Entries'
  <1>1. /\ pc[w] = "rows" /\ Key(w) \in Keys
        /\ Key(w) \notin DOMAIN postings
        /\ WholeLegs(Legs(w))
    BY DEF CommitPosting, IndInv, LockedReadsStayTrue, RequestsAreSound, Stored,
           Entries, WholeEntries
  <1>2. /\ DOMAIN postings' = DOMAIN postings \cup {Key(w)}
        /\ \A k \in DOMAIN postings : postings'[k] = postings[k]
        /\ postings'[Key(w)].legs = Legs(w)
    BY <1>1 DEF CommitPosting, InsertPosting, Legs
  <1>3. WholeEntries'
    <2>1. IsFiniteSet(DOMAIN postings')
      BY <1>2, FS_AddElement DEF Entries, WholeEntries
    <2>2. \A v \in Workers : pc'[v] # "idle" => pc[v] # "idle" /\ Legs(v)' = Legs(v)
      BY <1>1 DEF CommitPosting, Goto, IndInv, Shape, Legs
    <2> QED
      BY <1>1, <1>2, <2>1, <2>2 DEF Entries, WholeEntries
  <1>4. BalanceIsSumOfEntries'
    <2> SUFFICES ASSUME NEW a \in Accounts
                 PROVE  balance'[a] = SumFunction([k \in DOMAIN postings' |->
                                                     Effect(postings'[k].legs, a)])
      BY DEF BalanceIsSumOfEntries
    <2> DEFINE f == [k \in DOMAIN postings |-> Effect(postings[k].legs, a)]
               g == [k \in DOMAIN postings' |-> Effect(postings'[k].legs, a)]
               S == DOMAIN postings
    <2>1. balance[a] = SumFunctionOnSet(f, S) /\ IsFiniteSet(S)
      BY DEF Entries, WholeEntries, BalanceIsSumOfEntries, SumFunction
    <2>2. /\ \A k \in S \cup {Key(w)} : g[k] \in Int
          /\ \A k \in S : g[k] = f[k]
          /\ g[Key(w)] = Effect(Legs(w), a)
      BY <1>1, <1>2, EffectInt DEF Entries, WholeEntries
    <2>3. DOMAIN g = S \cup {Key(w)} /\ Key(w) \notin S
      BY <1>1, <1>2
    <2> HIDE DEF f, g, S
    <2>4. SumFunctionOnSet(g, S \cup {Key(w)}) = g[Key(w)] + SumFunctionOnSet(f, S)
      <3>1. SumFunctionOnSet(g, S) = SumFunctionOnSet(f, S)
        BY <2>1, <2>2, SumSame
      <3>2. SumFunctionOnSet(g, S \cup {Key(w)}) = g[Key(w)] + SumFunctionOnSet(g, S)
        BY <2>1, <2>2, <2>3, SumAdd
      <3> QED
        BY <3>1, <3>2
    <2>5. balance'[a] = balance[a] + Effect(Legs(w), a)
      <3>1. balance[a] \in Int /\ Effect(Legs(w), a) \in Int
        BY <1>1, EffectInt, AccountsAssumption DEF IndInv, TypeOK
      <3>2. CASE a \in Touched(Legs(w))
        <4>1. seen[w][a] = balance[a]
          BY <1>1, <3>2 DEF CommitPosting, MayInsert, MayApply, IndInv, LockedReadsStayTrue
        <4> QED
          BY <3>2, <4>1 DEF CommitPosting
      <3>3. CASE a \notin Touched(Legs(w))
        <4>1. Effect(Legs(w), a) = 0
          BY <1>1, <3>3, EffectInt
        <4>2. balance'[a] = balance[a]
          BY <3>3 DEF CommitPosting
        <4> QED
          BY <3>1, <4>1, <4>2
      <3> QED
        BY <3>2, <3>3
    <2>6. balance[a] \in Int /\ Effect(Legs(w), a) \in Int
      BY <1>1, EffectInt, AccountsAssumption DEF IndInv, TypeOK
    <2>7. SumFunction(g) = SumFunctionOnSet(g, S \cup {Key(w)})
      BY <2>3 DEF SumFunction
    <2>8. balance'[a] = SumFunction(g)
      BY <2>1, <2>2, <2>4, <2>5, <2>6, <2>7
    <2> QED
      BY <2>8 DEF g
  <1> QED
    BY <1>3, <1>4 DEF Entries

\* Every other step leaves balances and postings alone and starts no request.
LEMMA NextEntries == IndInv /\ Entries /\ [Next]_vars => Entries'
  <1> SUFFICES ASSUME IndInv, Entries, [Next]_vars PROVE Entries'
    OBVIOUS
  <1>1. ASSUME /\ UNCHANGED <<balance, postings>>
               /\ \A v \in Workers : pc'[v] # "idle" => pc[v] # "idle" /\ req'[v] = req[v]
        PROVE  Entries'
    BY <1>1 DEF Entries, WholeEntries, BalanceIsSumOfEntries, Legs
  <1>2. CASE UNCHANGED vars
    BY <1>1, <1>2 DEF vars
  <1>3. ASSUME NEW a \in Accounts, OpenAccount(a) PROVE Entries'
    BY <1>1, <1>3 DEF OpenAccount
  <1>4. ASSUME NEW w \in Workers, GiveUp(w) PROVE Entries'
    BY <1>1, <1>4 DEF GiveUp, tables, IndInv, Shape
  <1>5. ASSUME NEW w \in Workers, TakeKey(w) \/ ReplayStored(w) \/ LookForReversal(w)
        PROVE  Entries'
    BY <1>1, <1>5 DEF TakeKey, ReplayStored, LookForReversal, Goto, tables, IndInv, Shape
  <1>6. ASSUME NEW w \in Workers, LockRow(w) PROVE Entries'
    BY <1>1, <1>6 DEF LockRow, tables
  <1>7. ASSUME NEW w \in Workers, Reply(w) PROVE Entries'
    BY <1>1, <1>7 DEF Reply, tables, IndInv, Shape
  <1>8. ASSUME NEW w \in Workers, Step(w) PROVE Entries'
    <2>1. CASE RefuseConflict(w) \/ RefuseReversed(w) \/ RefuseInsert(w)
      BY <1>4, <2>1 DEF RefuseConflict, RefuseReversed, RefuseInsert
    <2> QED
      BY <1>5, <1>6, <1>7, <1>8, <2>1, CommitEntries DEF Step
  <1>9. ASSUME NEW w \in Workers, Fail(w) PROVE Entries'
    BY <1>4, <1>9 DEF Fail
  <1> QED
    BY <1>2, <1>3, <1>8, <1>9, CallEntries DEF Next

\* No update of a balance is lost and none is applied twice, for any number of
\* callers and postings: the balance is the sum of the entries.
THEOREM LedgerBalances == Spec => []BalanceIsSumOfEntries
  <1>1. Init => Entries
    <2> SUFFICES ASSUME Init PROVE Entries
      OBVIOUS
    <2>1. WholeEntries
      BY FS_EmptySet DEF Init, WholeEntries
    <2>2. \A f : DOMAIN f = {} => SumFunction(f) = 0
      BY SumEmpty DEF SumFunction
    <2>3. BalanceIsSumOfEntries
      BY <2>2 DEF Init, BalanceIsSumOfEntries
    <2> QED
      BY <2>1, <2>3 DEF Entries
  <1>2. Entries => BalanceIsSumOfEntries
    BY DEF Entries
  <1> QED
    BY <1>1, <1>2, NextEntries, LedgerInvariant, PTL DEF Spec

------------------------------------------------------------------------------
\* Deadlock freedom.  A worker that waits for a row waits for a larger id than
\* any it holds, and a worker that waits for a key holds nothing.
LEMMA RowsInOrder ==
    ASSUME IndInv, NEW w \in Workers, NEW v \in Workers, NEW a \in NextRows(w),
           NEW b \in NextRows(v), pc[w] = "rows", rowLock[a] = v
    PROVE  a \in Accounts /\ b \in Accounts /\ a < b
  <1>1. a \in Accounts /\ b \in Accounts
    BY DEF NextRows, RowsToRead, Touched
  <1>2. a \in DOMAIN seen[v]
    BY <1>1 DEF IndInv, LockedReadsStayTrue
  <1> QED
    BY <1>1, <1>2 DEF NextRows, RowsToRead

\* Whoever holds an advisory lock that another worker waits for is past the wait
\* for keys itself.
LEMMA KeyHoldersAreAtRows ==
    ASSUME IndInv, NEW w \in Workers, NEW v \in Workers, NEW u \in Workers,
           WaitsFor(w, v), WaitsFor(v, u)
    PROVE  pc[v] = "rows" /\ \E b \in NextRows(v) : rowLock[b] = u
  <1>1. CASE pc[w] = "key"
    BY <1>1, LedgerAssumption
       DEF WaitsFor, IndInv, LockedReadsStayTrue, RequestsAreSound
  <1>2. CASE pc[w] = "rows"
    <2>1. PICK a \in NextRows(w) : rowLock[a] = v
      BY <1>2 DEF WaitsFor
    <2>2. a \in Accounts
      BY DEF NextRows, RowsToRead, Touched
    <2> QED
      BY <2>1, <2>2 DEF WaitsFor, IndInv, LockedReadsStayTrue
  <1> QED
    BY <1>1, <1>2 DEF WaitsFor

\* How far below the largest id the row lies that a worker waits for.  Along a
\* chain of waiting workers this number falls.
Depth(S) == {d \in Nat : \E w \in S : pc[w] = "rows" /\
                            \E a \in NextRows(w) : /\ d = MaxId - a
                                                   /\ rowLock[a] \in S}

\* In a set of workers that all wait for each other, the one that awaits the
\* largest row would have to wait for a larger one still.
LEMMA NoCycle == IndInv => NoWaitCycle
  <1> SUFFICES ASSUME IndInv, NEW S \in SUBSET Workers, S # {},
                      \A w \in S : \E v \in S : WaitsFor(w, v)
               PROVE  FALSE
    BY DEF NoWaitCycle
  <1> DEFINE Less == {ss \in Nat \X Nat : ss[1] < ss[2]}
  <1>1. \A a \in Accounts : MaxId - a \in Nat
    BY AccountsAssumption
  <1>2. Depth(S) # {}
    <2>1. PICK w \in S, v \in S, u \in S : WaitsFor(w, v) /\ WaitsFor(v, u)
      OBVIOUS
    <2>2. pc[v] = "rows"
      BY <2>1, KeyHoldersAreAtRows
    <2>3. PICK b \in NextRows(v) : rowLock[b] = u
      BY <2>1, KeyHoldersAreAtRows
    <2>4. b \in Accounts
      BY DEF NextRows, RowsToRead, Touched
    <2> QED
      BY <1>1, <2>1, <2>2, <2>3, <2>4 DEF Depth
  <1>3. IsWellFoundedOn(Less, Nat)
    BY NatLessThanWellFounded DEF OpToRel
  <1>4. PICK d \in Depth(S) : \A e \in Depth(S) : ~(<<e, d>> \in Less)
    <2>1. Depth(S) \subseteq Nat
      BY DEF Depth
    <2> HIDE DEF Less
    <2> QED
      BY <1>2, <1>3, <2>1, WFMin
  <1>a. PICK w \in S : pc[w] = "rows" /\ \E a \in NextRows(w) :
                          d = MaxId - a /\ rowLock[a] \in S
    BY DEF Depth
  <1>b. PICK a \in NextRows(w) : d = MaxId - a /\ rowLock[a] \in S
    BY <1>a
  <1>5. pc[w] = "rows" /\ d = MaxId - a /\ rowLock[a] \in S
    BY <1>a, <1>b
  <1> DEFINE v == rowLock[a]
  <1>6. PICK u \in S : WaitsFor(v, u)
    BY <1>5
  <1>7. WaitsFor(w, v)
    BY <1>5 DEF WaitsFor
  <1>8. pc[v] = "rows" /\ \E b \in NextRows(v) : rowLock[b] = u
    BY <1>5, <1>6, <1>7, KeyHoldersAreAtRows
  <1>9. PICK b \in NextRows(v) : rowLock[b] = u
    BY <1>8
  <1>10. a \in Accounts /\ b \in Accounts /\ a < b
    BY <1>5, RowsInOrder
  <1>11. MaxId - b \in Depth(S)
    BY <1>1, <1>5, <1>8, <1>9, <1>10 DEF Depth
  <1>12. a \in Int /\ b \in Int /\ MaxId \in Int /\ MaxId - b \in Nat /\ MaxId - a \in Nat
    BY <1>1, <1>10, AccountsAssumption
  <1>13. <<MaxId - b, d>> \in Less
    BY <1>5, <1>10, <1>12
  <1> QED
    BY <1>4, <1>11, <1>13

\* Any number of workers, any set of accounts: no circle of waiting.
THEOREM LedgerNoWaitCycle == Spec => []NoWaitCycle
  <1> QED
    BY NoCycle, LedgerInvariant, PTL

------------------------------------------------------------------------------
\* Refinement.  Only opening an account and the commit show in AtomicLedger;
\* every other step leaves its variables alone.

\* The commit is the atomic Post: the balances read under lock are current.
LEMMA CommitIsAtomicPost ==
    ASSUME IndInv, NEW w \in Workers, CommitPosting(w)
    PROVE  Atomic!Next
  <1>1. /\ pc[w] = "rows" /\ Key(w) \in Keys
        /\ Key(w) \notin DOMAIN postings
    BY DEF CommitPosting, IndInv, LockedReadsStayTrue, RequestsAreSound, Stored
  <1>2. /\ Key(w) \in DOMAIN postings'
        /\ postings'[Key(w)] = req[w].posting
        /\ postings' = [j \in DOMAIN postings \cup {Key(w)} |->
                           IF j = Key(w) THEN postings'[Key(w)] ELSE postings[j]]
    BY <1>1 DEF CommitPosting, InsertPosting
  <1>3. \A a \in Touched(Legs(w)) : seen[w][a] = balance[a] /\ a \in opened
    BY <1>1 DEF CommitPosting, MayInsert, MayApply, IndInv, LockedReadsStayTrue
  <1>4. Atomic!MayReverse(req[w].posting)
    BY <1>1 DEF CommitPosting, MayInsert, Reversed, IndInv, RequestsAreSound,
                Atomic!MayReverse, Legs, Stored
  <1>5. Admissible(Legs(w))
    BY <1>1 DEF CommitPosting, MayInsert, MayApply, IndInv, RequestsAreSound, Admissible
  <1>6. \A a \in Touched(Legs(w)) : balance[a] + Effect(Legs(w), a) \in 0..MaxNumeric
    BY <1>3 DEF CommitPosting, MayInsert, MayApply
  <1>7. /\ balance' = [a \in Accounts |-> IF a \in Touched(Legs(w))
                                           THEN balance[a] + Effect(Legs(w), a)
                                           ELSE balance[a]]
        /\ UNCHANGED opened
    BY <1>3 DEF CommitPosting
  <1>8. Atomic!Post(Key(w), postings'[Key(w)])
    BY <1>1, <1>2, <1>3, <1>4, <1>5, <1>6, <1>7 DEF Atomic!Post, Legs
  <1> QED
    BY <1>1, <1>2, <1>8 DEF Atomic!Next

\* Each step of the ledger is a step of AtomicLedger or leaves its variables.
LEMMA StepRefines == IndInv /\ [Next]_vars => [Atomic!Next]_(Atomic!vars)
  <1> SUFFICES ASSUME IndInv, [Next]_vars
               PROVE  Atomic!Next \/ UNCHANGED <<opened, postings, balance>>
    BY DEF Atomic!vars
  <1>1. CASE UNCHANGED vars
    BY <1>1 DEF vars
  <1>2. ASSUME NEW a \in Accounts, OpenAccount(a) PROVE Atomic!Next
    BY <1>2 DEF OpenAccount, Atomic!OpenAccount, Atomic!Next
  <1>3. ASSUME NEW w \in Workers, CommitPosting(w) PROVE Atomic!Next
    BY <1>3, CommitIsAtomicPost
  <1>4. ASSUME NEW w \in Workers, Call(w)
        PROVE  UNCHANGED <<opened, postings, balance>>
    BY <1>4 DEF Call, CallPost, CallMove, CallReverse, Start, tables
  <1>5. ASSUME NEW w \in Workers, GiveUp(w)
        PROVE  UNCHANGED <<opened, postings, balance>>
    BY <1>5 DEF GiveUp, tables
  <1>6. ASSUME NEW w \in Workers, Step(w)
        PROVE  Atomic!Next \/ UNCHANGED <<opened, postings, balance>>
    BY <1>3, <1>5, <1>6
       DEF Step, TakeKey, ReplayStored, RefuseConflict, LookForReversal, RefuseReversed,
           LockRow, RefuseInsert, Reply, tables
  <1>7. ASSUME NEW w \in Workers, Fail(w)
        PROVE  UNCHANGED <<opened, postings, balance>>
    BY <1>5, <1>7 DEF Fail
  <1> QED
    BY <1>1, <1>2, <1>4, <1>6, <1>7 DEF Next

\* With its locks, retries, crashes and races the ledger implements AtomicLedger.
THEOREM LedgerImplementsAtomicLedger == Spec => ImplementsAtomicLedger
  <1>1. Init => Atomic!Init
    BY DEF Init, Atomic!Init
  <1> QED
    BY <1>1, LedgerInvariant, StepRefines, PTL
       DEF Spec, ImplementsAtomicLedger, Atomic!Spec
=============================================================================
