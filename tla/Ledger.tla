-------------------------------- MODULE Ledger --------------------------------
(***************************************************************************)
(* PostgresLedger (packages/ledger/src/postgres-ledger.ts): several callers *)
(* post, reserve, release and reverse at the same time.  A worker is one    *)
(* call with its database transaction.  Its steps are the points where the  *)
(* transaction can wait or where what it has read can become old: the       *)
(* advisory lock on the idempotency key, the look for an earlier reversal,  *)
(* the row lock of each account, and the insert with its commit.  A worker  *)
(* may fail between any two steps; the database then drops its locks.       *)
(***************************************************************************)
EXTENDS LedgerPosting

CONSTANTS
    Workers,   \* concurrent calls
    Keys,      \* idempotency keys; a posting is known by its key, which is UNIQUE
    Posts,     \* inputs of post: [key, legs]
    Moves,     \* inputs of reserve and release: [key, op, available, reserved, amount]
    Reversals  \* inputs of reverse: [key, target]; the target is the key of a posting

ASSUME LedgerAssumption ==
    /\ None \notin Workers
    /\ \A c \in Posts :
          /\ c.key \in Keys
          /\ DOMAIN c.legs \subseteq Sides
          /\ c.legs \in [DOMAIN c.legs -> Int]
    /\ \A c \in Moves :
          /\ c.key \in Keys
          /\ c.op \in {"RESERVE", "RELEASE"}
          /\ c.available \in Accounts /\ c.reserved \in Accounts
          /\ c.amount \in Int
    /\ \A c \in Reversals : c.key \in Keys /\ c.target \in Keys

VARIABLES
    opened,    \* rows of ledger_accounts
    balance,   \* ledger_accounts.balance
    postings,  \* ledger_postings with their ledger_entries, by idempotency key
    keyLock,   \* holder of the advisory lock of each key
    rowLock,   \* holder of the row lock of each account
    pc,        \* stage of each worker
    req,       \* the posting each worker wants to store
    seen,      \* the balances a worker has read, by account
    acked      \* [key, posting] of every call answered so far (history)

vars == <<opened, balance, postings, keyLock, rowLock, pc, req, seen, acked>>
locks == <<keyLock, rowLock>>
tables == <<opened, balance, postings>>

NothingSeen == [a \in {} |-> 0]
Stages == {"idle", "key", "reversal", "rows", "reply"}

Init ==
    /\ opened = {}
    /\ balance = [a \in Accounts |-> 0]
    /\ postings = [k \in {} |-> None]
    /\ keyLock = [k \in Keys |-> None]
    /\ rowLock = [a \in Accounts |-> None]
    /\ pc = [w \in Workers |-> "idle"]
    /\ req = [w \in Workers |-> None]
    /\ seen = [w \in Workers |-> NothingSeen]
    /\ acked = {}

------------------------------------------------------------------------------
\* Helpers.

Legs(w) == req[w].posting.legs
Key(w) == req[w].key

\* The rows of ... ORDER BY id FOR UPDATE that are still to be read.  A row that
\* is opened meanwhile counts as found; had the statement missed it, the row
\* could as well have been opened after the refusal.
RowsToRead(w) ==
    {a \in Touched(Legs(w)) \cap opened : \A h \in DOMAIN seen[w] : h < a}

\* Seeded fault: rows are locked in any order.
NextRowsUnordered(w) == (Touched(Legs(w)) \cap opened) \ DOMAIN seen[w]

\* The row the worker reads next, if any.
NextRows(w) == {a \in RowsToRead(w) : \A b \in RowsToRead(w) : a <= b}

Stored(k) == k \in DOMAIN postings
Reversed(p) == \E k \in DOMAIN postings : postings[k].reverses = p

\* Seeded fault: the advisory lock belongs to the session, not the transaction.
DropRowLocksOnly(w) ==
    /\ rowLock' = [a \in Accounts |-> IF rowLock[a] = w THEN None ELSE rowLock[a]]
    /\ UNCHANGED keyLock

\* COMMIT and ROLLBACK both end the transaction's locks.
DropLocks(w) ==
    /\ keyLock' = [k \in Keys |-> IF keyLock[k] = w THEN None ELSE keyLock[k]]
    /\ rowLock' = [a \in Accounts |-> IF rowLock[a] = w THEN None ELSE rowLock[a]]

Goto(w, stage) == pc' = [pc EXCEPT ![w] = stage]

\* Leave the call with an error; nothing it did remains.
GiveUp(w) ==
    /\ DropLocks(w)
    /\ pc' = [pc EXCEPT ![w] = "idle"]
    /\ req' = [req EXCEPT ![w] = None]
    /\ seen' = [seen EXCEPT ![w] = NothingSeen]
    /\ UNCHANGED <<tables, acked>>

------------------------------------------------------------------------------
\* Calls.

\* openAccount: one insert of a row with balance 0.
OpenAccount(a) ==
    /\ a \notin opened
    /\ opened' = opened \cup {a}
    /\ UNCHANGED <<balance, postings, locks, pc, req, seen, acked>>

\* A call whose input passes assertPostInput opens its transaction.
Start(w, key, legs, reverses) ==
    /\ pc[w] = "idle"
    /\ WellFormed(legs)
    /\ Goto(w, "key")
    /\ req' = [req EXCEPT ![w] =
                  [key |-> key, posting |-> [legs |-> legs, reverses |-> reverses]]]
    /\ UNCHANGED <<tables, locks, seen, acked>>

CallPost(w) == \E c \in Posts : Start(w, c.key, c.legs, None)

\* reserve and release post two legs after validateMovementAccounts.
CallMove(w) ==
    \E c \in Moves :
        /\ {c.available, c.reserved} \subseteq opened
        /\ IsMovementPair(c.available, c.reserved)
        /\ LET legs == IF c.op = "RESERVE"
                       THEN MoveLegs(c.available, c.reserved, c.amount)
                       ELSE MoveLegs(c.reserved, c.available, c.amount)
           IN  Start(w, c.key, legs, None)

\* reverse reads the posting before the transaction begins and posts its
\* inverse legs under a key of its own.
CallReverse(w) ==
    \E c \in Reversals :
        /\ Stored(c.target)
        /\ Start(w, c.key, InverseLegs(postings[c.target].legs), c.target)

------------------------------------------------------------------------------
\* The transaction of postWithClient.

\* Seeded fault: the look for an existing posting is left out.
TakeKeyBlindly(w) ==
    /\ pc[w] = "key"
    /\ keyLock[Key(w)] = None
    /\ keyLock' = [keyLock EXCEPT ![Key(w)] = w]
    /\ Goto(w, IF req[w].posting.reverses = None THEN "rows" ELSE "reversal")
    /\ UNCHANGED <<tables, rowLock, req, seen, acked>>

\* The advisory lock is free and no posting has the key: go on with the lock.
TakeKey(w) ==
    /\ pc[w] = "key"
    /\ keyLock[Key(w)] = None
    /\ ~Stored(Key(w))
    /\ keyLock' = [keyLock EXCEPT ![Key(w)] = w]
    /\ Goto(w, IF req[w].posting.reverses = None THEN "rows" ELSE "reversal")
    /\ UNCHANGED <<tables, rowLock, req, seen, acked>>

\* The key is taken by the same request: answer with the stored posting.
ReplayStored(w) ==
    /\ pc[w] = "key"
    /\ keyLock[Key(w)] = None
    /\ Stored(Key(w)) /\ postings[Key(w)] = req[w].posting
    /\ Goto(w, "reply")
    /\ UNCHANGED <<tables, locks, req, seen, acked>>

\* The key is taken by another request: IdempotencyConflictError.
RefuseConflict(w) ==
    /\ pc[w] = "key"
    /\ keyLock[Key(w)] = None
    /\ Stored(Key(w)) /\ postings[Key(w)] # req[w].posting
    /\ GiveUp(w)

\* FOR SHARE on the original lets other reversals of it pass as well, so a
\* second reversal may get through this look before the first one commits.
LookForReversal(w) ==
    /\ pc[w] = "reversal"
    /\ ~Reversed(req[w].posting.reverses)
    /\ Goto(w, "rows")
    /\ UNCHANGED <<tables, locks, req, seen, acked>>

RefuseReversed(w) ==
    /\ pc[w] = "reversal"
    /\ Reversed(req[w].posting.reverses)
    /\ GiveUp(w)

Read(w, a) ==
    seen' = [seen EXCEPT ![w] = [b \in DOMAIN seen[w] \cup {a} |->
                                     IF b = a THEN balance[a] ELSE seen[w][b]]]

\* Seeded fault: SELECT without FOR UPDATE.
ReadRowUnlocked(w) ==
    /\ pc[w] = "rows"
    /\ \E a \in NextRows(w) : Read(w, a)
    /\ UNCHANGED <<tables, locks, pc, req, acked>>

\* One row of SELECT ... FOR UPDATE: wait for the row, then read its balance.
LockRow(w) ==
    /\ pc[w] = "rows"
    /\ \E a \in NextRows(w) :
        /\ rowLock[a] = None
        /\ rowLock' = [rowLock EXCEPT ![a] = w]
        /\ Read(w, a)
    /\ UNCHANGED <<tables, keyLock, pc, req, acked>>

InsertPosting(w) ==
    postings' = [k \in DOMAIN postings \cup {Key(w)} |->
                    IF k = Key(w) THEN req[w].posting ELSE postings[k]]

\* Seeded fault: the resulting balance is not checked.
MayOverdraw(w) ==
    /\ DOMAIN seen[w] = Touched(Legs(w))
    /\ BalancedByDenomination(Legs(w))

\* Every account found, each denomination balanced, no balance below zero or too
\* wide for its column.
MayApply(w) ==
    /\ DOMAIN seen[w] = Touched(Legs(w))
    /\ BalancedByDenomination(Legs(w))
    /\ \A a \in Touched(Legs(w)) : seen[w][a] + Effect(Legs(w), a) \in 0..MaxNumeric

\* What the code and the constraints of the tables demand of the insert;
\* reversal_of is UNIQUE.
MayInsert(w) ==
    /\ MayApply(w)
    /\ req[w].posting.reverses = None \/ ~Reversed(req[w].posting.reverses)

\* Insert posting and entries, write the balances, COMMIT.
CommitPosting(w) ==
    /\ pc[w] = "rows"
    /\ RowsToRead(w) = {}
    /\ MayInsert(w)
    /\ InsertPosting(w)
    /\ balance' = [a \in Accounts |-> IF a \in Touched(Legs(w))
                                      THEN seen[w][a] + Effect(Legs(w), a)
                                      ELSE balance[a]]
    /\ DropLocks(w)
    /\ Goto(w, "reply")
    /\ UNCHANGED <<opened, req, seen, acked>>

RefuseInsert(w) ==
    /\ pc[w] = "rows"
    /\ RowsToRead(w) = {}
    /\ ~MayInsert(w)
    /\ GiveUp(w)

\* The caller gets the posting.
Reply(w) ==
    /\ pc[w] = "reply"
    /\ acked' = acked \cup {[key |-> Key(w), posting |-> postings[Key(w)]]}
    /\ pc' = [pc EXCEPT ![w] = "idle"]
    /\ req' = [req EXCEPT ![w] = None]
    /\ seen' = [seen EXCEPT ![w] = NothingSeen]
    /\ UNCHANGED <<tables, locks>>

\* Seeded fault: the statements are not in one transaction, and the process dies
\* between the insert of the posting and the update of the balances.
FailHalfway(w) ==
    /\ pc[w] = "rows"
    /\ RowsToRead(w) = {}
    /\ MayInsert(w)
    /\ InsertPosting(w)
    /\ DropLocks(w)
    /\ Goto(w, "reply")
    /\ UNCHANGED <<opened, balance, req, seen, acked>>

\* The process dies, the connection breaks or a statement fails.  After the
\* commit only the answer is lost.
Fail(w) ==
    /\ pc[w] # "idle"
    /\ GiveUp(w)

------------------------------------------------------------------------------
Call(w) == CallPost(w) \/ CallMove(w) \/ CallReverse(w)

Step(w) ==
    \/ TakeKey(w) \/ ReplayStored(w) \/ RefuseConflict(w)
    \/ LookForReversal(w) \/ RefuseReversed(w)
    \/ LockRow(w) \/ CommitPosting(w) \/ RefuseInsert(w)
    \/ Reply(w)

Next ==
    \/ \E a \in Accounts : OpenAccount(a)
    \/ \E w \in Workers : Call(w) \/ Step(w) \/ Fail(w)

Spec == Init /\ [][Next]_vars

\* PostgreSQL runs every transaction that is not waiting, and hands a lock to
\* those who wait for it in the order they came.
Fairness == \A w \in Workers : SF_vars(Step(w))
FairSpec == Spec /\ Fairness

------------------------------------------------------------------------------
\* Properties.

\* Type invariant.  No balance is ever below zero or too wide for numeric(38,0).
TypeOK ==
    /\ opened \subseteq Accounts
    /\ balance \in [Accounts -> 0..MaxNumeric]
    /\ DOMAIN postings \subseteq Keys
    /\ \A k \in DOMAIN postings : postings[k].reverses \in Keys \cup {None}
    /\ keyLock \in [Keys -> Workers \cup {None}]
    /\ rowLock \in [Accounts -> Workers \cup {None}]
    /\ pc \in [Workers -> Stages]
    /\ \A w \in Workers : pc[w] # "idle" => req[w].key \in Keys
    /\ \A w \in Workers : DOMAIN seen[w] \subseteq Accounts
    /\ \A r \in acked : r.key \in Keys

\* The balance column, which concurrent transactions read, compute and write
\* back, always equals the sum of the immutable entries of the account: no
\* update of it is lost and none is applied twice.
BalanceIsSumOfEntries ==
    \A a \in Accounts :
        balance[a] = SumFunction([k \in DOMAIN postings |-> Effect(postings[k].legs, a)])

\* Two reversals of one posting, under two keys, never both take effect: the
\* look for a prior reversal is not serialised, so UNIQUE reversal_of decides.
OneReversalPerPosting ==
    \A j, k \in DOMAIN postings :
        j # k /\ postings[j].reverses # None
        => postings[j].reverses # postings[k].reverses

\* Every answer ever given under a key named one and the same posting, and that
\* posting is still the stored one: a retry after a lost answer neither posts
\* again nor is told another story.
AcknowledgedIsStored ==
    \A r \in acked : Stored(r.key) /\ postings[r.key] = r.posting

\* What a worker has read stays true for as long as it relies on it.  Between
\* the advisory lock and COMMIT nobody else posts under its key; between a row
\* lock and COMMIT the balance it read is the balance of the row; and the posting
\* it answers with is the one it was asked for.
LockedReadsStayTrue ==
    \A w \in Workers :
        /\ \A k \in Keys :
              keyLock[k] = w <=> pc[w] \in {"reversal", "rows"} /\ Key(w) = k
        /\ pc[w] \in {"reversal", "rows"} => ~Stored(Key(w))
        /\ \A a \in Accounts :
              rowLock[a] = w <=> pc[w] = "rows" /\ a \in DOMAIN seen[w]
        /\ pc[w] = "rows" =>
              /\ DOMAIN seen[w] \subseteq Touched(Legs(w)) \cap opened
              /\ \A a \in DOMAIN seen[w] : seen[w][a] = balance[a]
        /\ pc[w] = "reply" => Stored(Key(w)) /\ postings[Key(w)] = req[w].posting

\* w waits for a lock that v holds.
WaitsFor(w, v) ==
    \/ pc[w] = "key" /\ keyLock[Key(w)] = v
    \/ pc[w] = "rows" /\ \E a \in NextRows(w) : rowLock[a] = v

\* README.md of packages/ledger: stable UUID order prevents deadlocks between
\* postings.  No set of workers can wait for each other in a circle.
NoWaitCycle ==
    \A S \in (SUBSET Workers) \ {{}} : \E w \in S : \A v \in S : ~WaitsFor(w, v)

\* A call always ends, whatever the other callers hold.
EveryCallEnds == \A w \in Workers : pc[w] # "idle" ~> pc[w] = "idle"

\* Refinement: with its locks, retries and failures the ledger does what
\* AtomicLedger promises.
Admissible(legs) == WellFormed(legs) /\ BalancedByDenomination(legs)
Atomic == INSTANCE AtomicLedger
ImplementsAtomicLedger == Atomic!Spec
=============================================================================
