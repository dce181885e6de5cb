# Commodity Chain in TLA+

Commodity Chain turns warehouse receipts for grain into tokens, trades the tokens on an order
book, settles trades by delivery versus payment and redeems tokens for the goods. This directory
models the parts that keep the market's books, the double-entry ledger and everything that posts
to it, waits for it or depends on the order of messages, and the pages on which issuers and traders
start what changes them. Paths below are relative to the repository.

1. [Inventory](#inventory): components, state, interactions, hard behaviours
2. [Plan](#plan): modules, order, abstract specifications, theorems
3. [Modules](#modules): what is modelled and how it corresponds to the code
4. [Runs](#runs): what TLC checks, bounds, fairness
5. [Proofs](#proofs): what TLAPS checks, assumptions and argument
6. [Limits](#limits): what is only model-checked and what is not modelled

## Inventory

| component | source | state it keeps | operations |
|---|---|---|---|
| Ledger | `packages/ledger` | accounts with a balance column, immutable postings and entries | open, post, reserve, release, reverse |
| Matching engine | `packages/matching-core` | book, orders, command log of one instrument | place, cancel, as pure functions |
| OMS | `apps/core/src/oms` | orders with reservations, stored commands, trades, settlements in CREATED | place, cancel, replay |
| Settlement | `apps/core/src/settlement`, `ops/reconcile-settlements.ts` | status, account snapshot, posting of each settlement | consume a trade, nightly check |
| Instrument listing | `apps/core/src/instrument` | instrument status, passport versions, reviews | draft, submit, review, revise, suspend, resume, activate, promote when covered |
| Mint and supply | `apps/core/src/instrument/mint.service.ts`, `ops/reconcile-supply.ts` | mint requests, supply | mint, check supply |
| Collateral | `apps/core/src/collateral` | RESERVE and RELEASE entries per asset and position | apply an oracle event |
| Redemption | `apps/core/src/redemption`, `ops/process-redemption-timeouts.ts` | redemption status, ledger reservation, redemption postings | request, cancel, prepare, apply release of goods, time out |
| Elevator portal | `apps/core/src/elevator` | none of its own | reserve a receipt, confirm a shipment |
| Oracle gateway | `apps/core/src/oracle-gateway` | received events with their answers, last applied nonce per source | accept an event |
| EZR registry mock | `packages/adapters/src/ezr-registry-mock` | receipts, event counter, HTTP outbox | issue, lock, release, drain |
| Web client | `apps/web` | the issuer's form with the version it shows, the trader's ticket with its keys | type, save, submit; send, repeat, change, cancel an order |
| Contracts, external adapters, matching process, signatures | `packages/contracts`, `packages/adapters/src/{bank,blockchain,esign,kyc}`, `apps/matching` | none of the market's | not modelled |

How they interact:

* OMS, settlement, mint and redemption call the ledger inside their own database transactions
  (`withinTransaction`), so one posting commits with the rows it belongs to.
* OMS runs the matching engine in its transaction and writes a settlement and an outbox row for
  each trade. Whatever relays the outbox (it is not in the repository) calls the settlement
  consumer, possibly repeatedly.
* The registry publishes signed, numbered events over HTTP to the oracle gateway. Applied events
  reach collateral, listing and redemption through consumers.
* The web client calls listing and OMS over HTTP: a request or its answer may be lost, and the same
  page may be open twice.
* The elevator portal drives registry, gateway, collateral and redemption one after the other,
  each in a transaction of its own.

Hard behaviours, and what makes each component correct:

* **Ledger.** Concurrent transactions read balances, compute in the process and write absolute
  values; retries and conflicts under one idempotency key; rival reversals; locks on several rows.
  Correct if balances equal the sums of the entries, answers under a key never disagree, a posting
  is reversed once, nothing waits in a circle.
* **Settlement.** Three transactions with crashes, lost replies and other deliveries in between;
  clearing accounts shared by trades; a nightly check that compares rows, fee rows and entries, each written at
  another time. Correct if the posting and finality come together and for good, a failure has a cause
  outside, every trade is decided, and the check tells right from wrong.
* **OMS.** Commissions accumulated over partial fills; reserves reduced step by step; commands
  replayed; cash accounts shared by instruments whose commands run at the same time and lock each
  other out. Correct if a reservation always covers what may still be spent, everything not
  spent returns, and a ticket gets one answer and has one effect.
* **Matching engine.** Price-time priority, maker price, no crossed book, quantities conserved.
* **Oracle and registry.** Nonces given under one lock and sent in another order; terminal answers
  stored and replayed. Correct if each event is applied at most once and in order, and if what was
  published is applied in the end.
* **Listing and the issuer's page.** Four eyes, reviews bound to a version, suspension that
  remembers, coverage that is reported once; two tabs that write one draft, versions that do not rise
  with a save, lost answers. Correct if only what two operators read is published, what is covered is
  promoted, and what the issuer signed is what goes to review.
* **Collateral, mint, redemption.** Two instruments pledging one asset at the same time; supply
  against collateral in separate transactions; timeouts racing late events; one receipt claimed twice. Correct if supply is always backed, tokens burn
  exactly when goods leave.

## Plan

Modules in the order in which they are written, the most important behaviour first:

| step | modules | abstract specification | theorems |
|---|---|---|---|
| 1, done | `LedgerPosting`, `Ledger` | `AtomicLedger` | types, locked reads, one reversal, answers, balances are sums of entries, no circle of waiting, refinement |
| 2, done | `Settlement` (uses `LedgerPosting`) | `AtomicDvp` | types, posting with finality, irrevocability, balances, nightly check, causes of failure, refinement |
| 3, done | `OracleStream`: registry, outbox, drains, gateway | `EventLog` | types, applied events are a prefix, lives of receipts in order, terminal answers, no gap for a single caller, refinement |
| 4, done | `Redemption`: receipts, collateral, supply, mint, elevator, timeouts, for one instrument | `GoodsForTokens` | types, goods leave for frozen tokens, supply against ledger, collateral, mints and goods, positions, reserved tokens, refinement |
| 5, done | `MatchingEngine`, `Oms`: price-time matching, reservations and commissions over fills, cancel | | types, the reserve covers the rest of the order, accounts follow orders, book never crossed, nobody overtaken |
| 6, done | `Collateral`: several instruments on one asset, the lock steps of concurrent calls | `Pledges` | nothing pledged twice, refinement |
| 7, done | `InstrumentLifecycle`, `Passport`, `Listing` (extends `Collateral`), `IssuerWizard` (extends `Listing`) | | published is reviewed, covered is promoted, dead ends, submitted is shown, untouched text |
| 8, done | `Desk`: the trader's ticket, commands of several instruments, cash accounts locked posting by posting | | one answer for each ticket |
| 9, done | `SumTheorems`, used by the proofs of steps 1 to 7 | | sums over finite sets |
| 10 | the token accounts on which an order and a redemption of one holder meet, with their locks | | |

Runs stay small: two workers, two trades or orders, three or four accounts or events.

## Modules

### `LedgerPosting`, `Ledger`, `AtomicLedger`

`LedgerPosting` holds the pure part: what `guards.ts` accepts (`WellFormed`), the balance per
denomination, the effect of a posting on an account, the inverse legs of a reversal. The legs of a
posting are a function from account and direction to an amount.

`Ledger` is `PostgresLedger`. A worker is one call in its database transaction; `pc` says how far
it is. The steps are where the transaction may wait or where what it read may grow old:

| action | code (`postgres-ledger.ts`) |
|---|---|
| `OpenAccount` | `openAccount` |
| `CallPost`, `CallMove`, `CallReverse` | the public methods up to BEGIN; `reverse` reads the original before its transaction begins |
| `TakeKey`, `ReplayStored`, `RefuseConflict` | the advisory lock on the key and the look for a stored posting |
| `LookForReversal`, `RefuseReversed` | FOR SHARE on the original and the look for an earlier reversal |
| `LockRow` | one row of `SELECT ... ORDER BY id FOR UPDATE` |
| `CommitPosting`, `RefuseInsert` | checks, inserts, updates and COMMIT, or an error and ROLLBACK |
| `Reply` | the answer, also of a replay |
| `Fail` | process death, broken connection or failing statement at any stage; after COMMIT only the answer is lost |

The request hash stands for the request: equal hashes mean equal requests. Account ids are numbers
because their order matters. `AtomicLedger` says what callers may rely on: one key, one posting,
applied to all accounts in one step.

### `Settlement`, `AtomicDvp`

A worker is one call of `handleCreatedEvent`. `fund`, `executeDvp` and `markFailed` are one step
each, because each is one transaction under the row lock of the settlement; between them anything
may happen. The ledger appears through `LedgerPosting`: `LedgerAccepts` is what `postWithClient`
demands. `TradeExecuted` is the end of `applyTrade` of OMS, `Deliver` the external relay,
`Interrupt` an error that reaches the catch block (also after a commit whose reply was lost),
`Crash` the death of the process. `Reconcile` is a whole run of the nightly check, a single
REPEATABLE READ transaction, and `Clean` is `checkCandidate` with all that can set a settlement aside.

| what is compared | with | code (`ops/reconcile-settlements.ts`) |
|---|---|---|
| gross cash and tokens of the row | price and quantity of the trade | 156-162 |
| fees and residual of the row | sums over `settlement_fees` by component (`FeesAgree`, `FeeSums`) | 163-180 |
| entries of the posting | the legs the row calls for, written down a second time (`Expected`, `ExpectedLegs`) | 182-203 |

What is compared comes from different hands: `Terms` and `Charges` are what OMS writes into the row and the
fee rows for a fill (`oms.service.ts:722-890`, `rounding.ts`), `DvpLegs` what `executeDvp` posted of the
row as it then was. The price, quantity and rates of each trade are `Fills`; the buyer's fee is a
constant of its own, because it is what is due of the commission on the whole order, which `Oms` models.
`Edit` is an operator who changes amounts of a final row or its fee rows by SQL, or puts them back: the
trigger guards status, timestamp and posting only, and nothing guards the fee rows.

SUBMITTED and TECHNICALLY_CONFIRMED exist only inside the transaction of `executeDvp` and are not
states of the model.

### `OracleStream`, `EventLog`

A caller is one call of the registry mock. Its transaction (receipt, nonce, outbox row) takes
effect in one step under the locks of the receipt and the counter, but BEGIN (`Begin`) is a step of
its own, because `created_at` of the outbox row is the time at which the transaction began and
`drainOutbox` sends the rows in that order; `order` keeps it. The position of a row in `outbox` is
its nonce.

| action | code |
|---|---|
| `Begin`, `Change`, `RepeatRelease`, `RefuseChange` | `issueReceipt`, `lockReceipt`, `releaseReceipt` with `changeReceipt`, `updateReceipt`, `enqueueEvent` |
| `Drain`, `ReadOutbox`, `FinishDrain` | `drainOutbox`, by itself or after a change |
| `Skip`, `Send`, `MarkDelivered`, `KeepUndelivered` | `attemptDelivery` and `publish` |
| `Accept` with `Verdict` | `execute` of `accept-oracle-event.use-case.ts`, one transaction under the lock of the source |
| `Lose` | a request or answer lost, or `fetch` giving up while the request is still on its way |
| `Crash`, `GrowOld`, `RevokeKey` | the process dies; the freshness window passes; the key is revoked |

`EventLog` is the promise: one log of the changes of receipts, applied from its beginning, each
event once. The limit of 100 rows for a drain is left out: no run has as many.

### `Redemption`, `GoodsForTokens`

One instrument at one elevator, from the receipt that becomes collateral to the goods that leave.
Every action is one database transaction. A worker is a delivery call, of the portal's
`confirmShipment` or of `RedemptionTokensLockedConsumer`: between `prepareDelivery` and
`releaseReceipt` it carries receipt and redemption in `call`, and the world may change.

| action | code |
|---|---|
| `LockReceipt`, `ReleaseReceipt` | the registry changes a receipt and publishes the event |
| `Report` | another trusted oracle source says that goods left; it may be wrong |
| `Judge` | the gateway applies or refuses an event |
| `ApplyLocked`, `ApplyWithdrawal` | `changeWithinTransaction` of the collateral ledger, RESERVE and RELEASE |
| `Cover`, `Transition` | `applyCollateralReserved` and `transition` of the listing service |
| `Mint`, `RefuseMint` | `execute` of the mint service, also its stored refusals |
| `PlaceOrder`, `EndOrder` | the part of OMS that reserves a holder's tokens in the account redemption uses too |
| `Create`, `Cancel`, `Expire` | `create`, `cancel`, `expireOverdue` and the timeout job |
| `Prepare`, `PrepareAgain`, `EndCall` | `prepareDelivery` on a new and on a repeated call; the call ends or dies |
| `Complete`, `Quarantine` | `applyGoodsReleased`, called by the portal or by the relay |

The portal's two commands are sequences of these: `reserve` is `LockReceipt`, `ApplyLocked`,
`Cover`; `confirmShipment` is `Prepare` or `PrepareAgain`, `ReleaseReceipt`, `Complete`. Its early
return for a receipt that is already released changes nothing.

A stored row stands for a repeated call: `moved` are the events with a row in
`collateral_position_movements`, `minted` the answers under mint keys, `redemption[d]` the row under
an idempotency key. An event is identified by its content. Two sources that both confirm the lock of
one receipt, suspension, and trades (tokens that change hands) are left out; how the issuer hands out
tokens (`Allocate`) is not in the repository.

`GoodsForTokens` is the promise to holders and elevators: tokens are frozen for a redemption, they
come back only if no goods left for it and none ever will, goods leave against one redemption only,
and burned stays burned.

### `MatchingEngine`, `Oms`

`MatchingEngine` holds the engine's pure part: which open orders a new one may meet, who of them is
first, what the events do to the book. The loop of `place` is cut into its passes: `Maker` is the
order the next pass meets.

`Oms` is `oms.service.ts` for one instrument. A command holds the book, in the process by
`InstrumentCommandQueue` and in the database by an advisory lock, and is one transaction. `taker` is
the order whose command is being carried out; each event of the engine is a step, and what other
transactions see is the states in which there is none.

| action | code |
|---|---|
| `Place` | `place`: reservation in the ledger, row, `OrderAccepted` |
| `PlaceRejected` | the engine refuses a price off the tick or a quantity off the lot, `rejectPlacedOrder` |
| `Fill` with `Terms`, `Consistent`, `ApplyTrade` | `TradeExecuted` and `applyTrade`: amounts, both postings, both rows, the terms of the settlement |
| `PreventSelfTrade` | `OrderCancelled` of the rest of the new order, `closeOrder` |
| `Finish` | the answer is stored, COMMIT |
| `Cancel` | `cancel`, one event |
| `ChangeFees` | a new version of the fee schedule comes into force; nothing in the repository writes them |

`row` is what OMS stores, `book` what the engine knows after replaying `matching_events`; that the two
agree is part of the proof. Orders are named by party and client order id, so a repeated command
finds its row or its stored answer and changes nothing. A refusal before the reservation leaves no
row; a transaction that fails leaves nothing. An order's `made` and `taken` are what
`loadExecutedNotionalByRole` sums up from its trades. Sequence numbers count placed orders only: the
code also numbers cancellations, which keeps the order. The bound of NUMERIC(38) on products is left
out, as is what settlement does with the clearing accounts afterwards (`Settlement`).

### `Collateral`, `Pledges`

`collateral-ledger.service.ts` for several instruments and assets. A worker is one call of `reserve` or
`release`, made by the consumer of an applied oracle event. Its transaction takes an advisory lock on
the event, then the row of the instrument, then the row of the asset, and keeps them.

| action | code |
|---|---|
| `Begin`, `Replay` | the lock on the event, and the stored movement if the event has been applied before |
| `LockInstrument`, `LockAsset` | the two rows FOR UPDATE, and what is read once they are held (`Read`) |
| `Change` with `MayChange`, `WritePosition` | the limit of the asset or the supply behind the position, the position, the availability of every position on the asset, the encumbrance |
| `Refuse`, `End` | an error and ROLLBACK |

`reserved` and `available` are the columns of `collateral_position`; TLC decides whether what was read
under the locks is still true when it is written. `Pledges` is the promise: goods are pledged and
released in single steps, each for an event of its own, never more than there are and never from
under minted tokens.

### `InstrumentLifecycle`, `Passport`, `Listing`, `IssuerWizard`

`InstrumentLifecycle` is `instrument-state-machine.ts`: which status may follow which, and what a
suspension remembers. `Passport` is what the server makes of a passport (`Parses`, `IsComplete`, its
hash) and what the page makes of it (`BuildPassport` on the way out, `TextOf` on the way back). The
fields of a section are one text, `Absent` while `validateStep` finds one of them missing or not a
number: the page drops such a section from the draft, and what was typed is not stored. Three facts of
`wizardModel.ts` are kept, because what comes back is not what went out:

* the page appends the disclosure to the claim, and takes only the first line back (`:146`, `:214`);
* a claim passes `validateStep` if any of its lines is not blank (`:88`), so a first line that is blank
  is stored with the others, comes back alone, and then step 2 is not complete: a save of another step
  leaves `holderRights` out (`Filled`, `CompletedSteps`);
* the currency, typed in step 5, is written into the prices of step 4 (`:164`, `:167`) and read back
  from the instrument. `BuildPassport` takes it from the terms, and `ChooseTerms` changes it in the step
  `Trading` only; a page on which somebody changes it and saves changes `economics` too.

The disclosure comes back whole, from `transferRestrictions`, and so do the other fields of the drafts that
a page has made; of passports that reach the server in other ways (`revisePassport`) that is not so, but
those are under review and no page saves over them.

`Listing` is `instrument-listing.service.ts`. Every operation begins with FOR UPDATE on the instrument,
so it is one step, taken while no call of `Collateral` holds that row.

| action | code |
|---|---|
| `CreateDraft`, `UpdateDraft`, `Submit`, `RevisePassport` | the methods of the same names; a save compares the version but does not raise it |
| `Approve`, `Dismiss` | `review`: two operators, approvals of the current version only |
| `Transition` | `transition`, which refuses the targets UNDER_REVIEW, APPROVED and COLLATERALIZED |
| `ApplyCollateralReserved`, `Finish` | `applyCollateralReserved`, and the end of a call with nothing to report |
| `Crash` | the process dies, at worst between the reservation and the report of it |
| `Mint` | `execute` of the mint service, as far as collateral is concerned |

`missed` is history: a report that was lost with its process, or came before the approval or during a
suspension. A decision carries the hash of what the operator decided about (`hash`), which the row
does not store; `PublishedIsReviewed` uses it. Event-log and audit rows are left out.

`IssuerWizard` is `CreateTokenPage.tsx` in several tabs. `Open`, `Fetch` and `Hydrate` bring a stored
draft into the form, `Type`, `ChooseTerms` and `ChooseStep` are what the issuer does, `Save` and `Sign`
send a request that carries what the form held then. The server's side is `SaveNew`, `SaveAgain` and
`Submitted`, each with and without its answer, `SubmitIncomplete`, and `SaveFails` and `SubmitFails`
for a refusal or a loss. The page goes on while a request is under way: a draft that arrives during a save
replaces the form, so after the answer (`Written`) the page no longer knows that it shows what is stored. `edited`, `base`, `at`,
`saves` and `sent` are history that only the properties read.

### `Desk`

The trader's ticket (`OrderTicket.tsx`), the cancel button of `OrdersTable.tsx`, and `oms.service.ts` for
several instruments. A ticket has an identity, the pair of client order id and idempotency key, which
any change of the form renews and errors and answers keep. Commands of one instrument queue up
(`instrument-command-queue.ts`); those of different instruments run at the same time.

| action | code |
|---|---|
| `Submit`, `Change`, `AskCancel` | the ticket is sent, possibly again; a field is changed; an open order is cancelled |
| `LoseCall`, `Crash` | the connection breaks and the request is lost or goes on without its caller; the process dies |
| `Begin` | a transaction takes the next command of its instrument; `LocksOf` are the accounts it will lock |
| `Queue`, `Lock`, `Abort` | a row lock is waited for, obtained, or refused because of a circle (Postgres, external) |
| `Replay`, `Refuse`, `Accept`, `Cancel` | the stored answer; a stored refusal; reservation, fills and postings; the rest is given back |
| `Switch` | the instrument is suspended or resumed |

The ledger locks the accounts of one posting in the order of their ids, but a command makes one posting
for each fill and keeps all locks, so a sell that meets several bids takes their owners' cash accounts
in the order of the book. Left out: prices (there is one, and a token reserves one unit of cash; that
fills cost less than was reserved, which decides whether the available account is locked too, is the
constant `GetsBack`), fees, tokens, and the clearing and token accounts; `Oms` has them. The token accounts
belong to one instrument. A clearing cash account is meant to, but the schema does not enforce it: an
account is identified by party, currency and purpose, and `oms_clearing_accounts.cash_reserved_account_id`
is not unique. Where one party clears for two instruments in one currency, commands that fill a buy meet in
that account too and may be part of a circle of waiting. The model has no such circles; the conclusion of
`EveryTicketIsAnswered` needs only that Postgres aborts one command of each circle, as it does of those in
the model.

## Runs

| run | what it asks | bounds | size |
|---|---|---|---|
| `ledger` | balances, answers, reversals, waiting, every call ends; implements `AtomicLedger` | 2 workers, 4 accounts, 4 keys, amounts to 2, balances to 1 | 97 000 states |
| `settlement` | posting with finality, pooled clearing, causes of failure, nightly check, every trade decided; implements `AtomicDvp` | 2 workers, 2 trades, 7 accounts, 2 interruptions, 2 wrong rows and 2 wrong sets of fee rows | 59 000 states |
| `settlement_tiny` | finding: a trade whose price is eaten by the seller fee | one minor unit, no interruptions | stops at the violation |
| `oracle` | lives of receipts, what a delivered row has met, terminal answers; implements `EventLog` | 2 callers, 2 receipts, 3 nonces, 2 troubles | 525 000 states |
| `oracle_alone` | no gaps and every event applied when calls come one by one | 1 caller, 2 receipts, 4 nonces, 2 troubles | 13 000 states |
| `oracle_race` | finding: concurrent changes are sent in the wrong order | 2 callers, no troubles | stops at the violation |
| `redemption` | supply and goods, reserved tokens, evidence, goods behind the supply; implements `GoodsForTokens` | 2 receipts, 2 redemptions, 2 delivery calls, 1 mint key, 1 report | 68 000 states up to symmetry |
| `redemption_live` | goods that left are paid with the tokens | as `redemption`, 1 delivery call, no report | 2 100 states |
| `redemption_shared` | finding: two redemptions prepared with one receipt | as `redemption_live` | stops at the violation |
| `oms` | reservations, commissions, books of OMS and engine, price-time priority | 3 orders, 2 parties, 3 prices, quantities to 2, 2 fee schedules | 349 000 states up to symmetry |
| `listing` | nothing pledged twice, only what was reviewed is published, coverage promotes, what is signed is submitted, what is not touched survives a save, dead ends; implements `Pledges` | 3 instruments, 1 asset, 2 calls, 2 tabs, 2 operators, 4 edits and saves, 3 sections, 2 versions | 426 000 states up to symmetry |
| `desk` | one answer and one effect for each ticket, who goes on trying is answered | 2 instruments, 3 tickets, 4 parties, 5 orders in two books, 2 troubles | 248 000 states |

Bounds. Two workers are enough for every race that is pairwise, and the only one that could need
more, a circle of waiting, is proved for any number. In `ledger`, `MaxNumeric` is 1 so that both
ends of the column are reached; keys are shared between calls so that replays, conflicts, rival
reversals and a reversal of a reversal all occur. In `settlement` the two trades share clearing
cash, clearing tokens and the seller, so that one could be settled with the other's money; two of
the accounts may be opened late; two interruptions allow an error of each of two deliveries, or an
error and a crash. An operator may lower the gross amount, move a unit of fee from the buyer to the
seller in the row (the fee rows then still agree, and only the legs tell), turn a residual into a
fee, move a unit between fee rows, which no sum shows, and put everything back. In `oracle` one receipt can live its whole life (3 nonces) or two begin theirs,
two callers race for a receipt, for nonces and for the outbox, and two troubles make a request be
lost and then judged late, or a crash meet an outage. `oracle_alone` has one nonce more, so that a
receipt lives its whole life beside another one. In `redemption` both receipts are worth one token
and the cap is two, so that two redemptions compete for receipts that fit both, one delivery call can
be overtaken by another, and a redemption can time out while the goods of the other leave. The report
may name either receipt, any redemption or none, and a right or wrong quantity: quarantine, a
withdrawal that takes the collateral of goods already promised, and evidence from another source
than the registry all occur. Requests and delivery calls are interchangeable, so symmetry over them
is used there, with safety properties only; `redemption_live` uses none. In `oms` three orders are
enough for one that trades as maker and as taker, for fills at prices better than the limit, for a
self trade after a fill and for two makers in the order of price or of arrival; the rates are
high, so that commissions on single units differ, the second schedule turns them round, and there are
fills whose fee is cut to what is reserved for it. One price is off the tick, and each party can
run short of cash and of tokens. Orders are interchangeable names. A state in which all orders are closed is an
end, so deadlock is not checked there; that no command gets stuck half way is `FillsAreConsistent`.
In `listing` the run starts from three places: an empty market, where two tabs of one issuer write a draft
of three sections, in the order in which the page has them: the claim, the prices, and the step with the
currency; a stored draft, to which one tab comes back while the other has left, with a claim whose first line
is blank and without the last section, or complete; and a market with two instruments on one asset of three units,
one needing two of them and half way through its second review, the other suspended after its
approval. The events are two reservations for the first, one for the second and a release, so that
together they ask for more than there is, and one must not be released after a mint. Workers,
tabs and operators are alike, so symmetry over them is used, with safety properties only. Everything may come to
rest, so deadlock is not checked. In `desk` the two buyers have bids in both books in opposite
order, so that two sells which meet both bids lock each other out; the third ticket buys for a
party without cash, so that it is refused first and could be accepted once a cancelled bid is paid
back; two troubles are a lost answer and a crash, a change or a halt between two attempts. Nothing is
left to do when all tickets are answered, so deadlock is not checked.

Fairness. `FairSpec` of `Ledger` is strong fairness of each call's steps: PostgreSQL queues waiters
of a lock in order of arrival, so a waiter is not overtaken for ever. `FairSpec` of `Settlement` is
weak fairness of a worker's own steps and strong fairness of delivery, the promise of an
at-least-once relay; interruptions are bounded, not fair. `FairSpec` of `OracleStream` is weak
fairness of a call's own steps and of requests that were not lost, and strong fairness of
`drainOutbox`: README.md of the registry says that undelivered rows wait for it. `EveryEventIsApplied`
is checked with losses and crashes but without an outage or a revoked key, which stop the outbox for
good by design. `FairSpec` of `Redemption` is weak fairness of relaying the registry's events about
goods that left, once they are applied: the consumers are written for repeated delivery, but what
delivers to them is not in the repository. The run allows no reports, because a withdrawal of the same
goods by another source may use up the collateral that completion wants to release, and completion
is then refused for good. `FairSpec` of
`Desk` is weak fairness of sending a ticket again after an error, which is what the page offers, and of
the commands of each instrument: a row lock that was waited for goes to who waits (`queued`), and
Postgres looks for circles. No fairness is assumed of new calls, crashes, edits, the nightly check or opening accounts.

Finding (`settlement_tiny`). `executeDvp` always pushes the seller leg
(`apps/core/src/settlement/settlement.service.ts:190`), but a leg of zero is refused by
`packages/ledger/src/guards.ts:15`. A trade with a price of one minor unit and any seller rate
above zero passes OMS, funding (`:109`) and the fee check (`:184`), then fails for good with the
commitments of both sides left in clearing. The nightly check expects zero legs to be absent
(`ops/reconcile-settlements.ts:195-197`).

Finding (`oracle_race`). `drainOutbox` sends rows in the order of `created_at`
(`packages/adapters/src/ezr-registry-mock/postgres-ezr-registry.ts:187`), the time at which their
transactions began, but nonces are given later, under the lock of the counter (`:264-274`). If of two
concurrent changes the first to begin takes the second nonce, it is sent first; the gateway
quarantines it because of the gap and answers 202 (`accept-oracle-event.use-case.ts:189`), the row
is marked delivered (`:344`), and neither this event nor any later one is ever applied.
`oracle_alone` shows that nothing of the kind happens while calls come one by one.

Finding (`redemption_shared`). `prepareDelivery` takes the oldest locked receipt of the exact quantity
(`apps/core/src/redemption/redemption.service.ts:297-313`) and stores it in the redemption, but marks
the receipt in no way; `apps/core/src/redemption/README.md:22-23` speaks of one locked receipt for
each. The next redemption of the same quantity that is prepared before the registry has released the
receipt gets it too. Goods still leave only once (`ImplementsGoodsForTokens`),
so the other redemption is IN_DELIVERY with a receipt it can never have, cannot be cancelled, is given
the same receipt again on every call, and ends in the timeout, although another receipt may be free.

Finding (`listing`, a passing run). `transitionInstrument` restores the status from which an instrument
was suspended, as `apps/core/src/instrument/README.md:8` says, but the command that calls it refuses the
targets UNDER_REVIEW, APPROVED and COLLATERALIZED
(`apps/core/src/instrument/instrument-listing.service.ts:483-493`) whatever the instrument comes from. An
instrument suspended in one of these statuses stays suspended; `DeadEndsAreFinal` says so, and the same of
a rejected passport.

What `listing` shows besides: `SubmittedIsShown` needs its condition, as the version that guards against
stale updates does not rise with a save, so an issuer may submit what another tab has saved.
`UntouchedTextSurvives` excepts three things that the code does to text nobody has touched, and all three
happen in the run: a claim of several lines is cut to its first; a claim whose first line is blank is
lost, with the whole section, at the next save of another step (`wizardModel.ts:144`, `:214`); and prices
are restated in the currency of step 5. It also excepts a page
whose form was replaced while it saved: opened with `?id=` it may save before the stored draft has come
(`CreateTokenPage.tsx:454-478`), the draft then replaces the form (`:444-451`), and the next save puts the
old text back over what the first one wrote. The attempt to prove the property without this exception
failed there.
`CoveredIsPromoted` excepts reports that were lost or came too early, which nothing repeats.

## Proofs

`LedgerProofs`, `SettlementProofs`, `OracleStreamProofs`, `RedemptionProofs`, `OmsProofs`, `ListingProofs`
(of `Collateral`, `Listing` and `IssuerWizard`) and `DeskProofs` hold for every value of the constants that
satisfies the assumptions named in the modules: any number of workers, keys, accounts, trades, receipts,
callers, redemptions, holders, orders, parties, instruments, assets, operators, pages and tabs, any prices,
quantities, texts and rates up to 100 %.

The assumptions say what kind of value a constant is: amounts are whole numbers, sets that are summed over
are finite (trades, receipts, redemptions, mint keys, orders, parties, assets, instruments), the
four system accounts of settlement differ and cash and tokens have different denominations, and the value
`None`, SQL's NULL, is not also an amount, a row, a request or an answer. Callers of the registry
are not numbers, because `order` holds callers and nonces. Two theorems have hypotheses of their own,
stated below; the runs that check the same properties satisfy them.

**Sums.** Balances, positions and supplies are compared with sums over sets, which the community modules
define by recursion over the set. `SumTheorems` proves what is needed of `SumFunctionOnSet`: empty sum, one
element taken out or changed, equal, larger or zero summands, a set cut in two, multiples. The
induction theorems of the library cannot be used, as they take an operator; instead, the
subsets of a finite set for which a fact fails form a set, and if it is not empty it has a member without a
smaller one (`MinimalSubset`), for which the fact follows by taking out one element.

**Ledger.** The safety properties are not inductive by themselves: that a commit writes current
balances needs to know that what the worker read is still the row, which needs to know who holds
the lock. `IndInv` joins the types, `RequestsAreSound` (a request in flight passed the guards, and
a reversal has the inverse legs of a stored posting), `ReadsBelongToRows`, `LockedReadsStayTrue`,
`OneReversalPerPosting` and `AcknowledgedIsStored`. One lemma per action proves that it is kept.
`LedgerBalances` adds `Entries`, that stored and requested legs are whole and there are finitely many
postings: a commit adds to each balance exactly its own entry, because what it read is current.
`LedgerNoWaitCycle` then takes a set of workers that all wait for each other, shows that each waits
for a row and holds only smaller ones, and picks the worker whose awaited row is largest by
well-founded induction on the distance to `MaxId`. `LedgerImplementsAtomicLedger` maps the commit to
`Post`, using that locked reads are current, and every other step to a stutter.

**Settlement.** `IndInv` joins the types, `PostedExactlyWhenFinal` and `WorkersAreSound` (what a
delivery carries from one transaction to the next). From it follow irrevocability of every step and
the refinement of `AtomicDvp`: `Fund`, refusals, interruptions and crashes stutter, `Dvp` settles,
`MarkFailed` fails or stutters. `SettlementBalances` follows each trade's share of an account
(`MovedOn`): commitments when OMS executes it, legs when it becomes final. `SettlementVerdictIsRight`
compares the check with what OMS calculated, for any edits. That a correct settlement passes
(`DvpLegsAreExpected`) is where zeros matter: one side leaves out fees that are not positive, the other
whatever is zero, and legs the ledger accepted contain neither. That a changed one does not pass
(`LegsTellRow`) needs that gross cash and tokens were compared with the trade before: then three of the
six amounts determine the row, whether or not their legs were dropped. `SettlementFailureHasCause` is the hardest: that
neither the funding check nor the ledger refuses a trade because of the others. It adds up what the trades
on their way still have in the pooled accounts (`Causes`, with the balances), and needs two
hypotheses. `TermsPay`: the seller gets something for every trade; `settlement_tiny`
shows that the property is false without it. `AllFits`: cash, fees and tokens of all trades together fit
the column of 38 digits. `MCSettlement` satisfies both: 12 of 20, sellers get 3 twice.

**Oracle stream.** `AppliedIsPrefix` needs only the gap check of the gateway and the stored answers,
not the order in which requests arrive, so it survives every loss and reordering. That the market
applies the life of a receipt in order needs more: `OutboxTellsLives` says that the outbox contains,
for each receipt, exactly the events up to its status, once and in order of nonces (`ChangeInv`
keeps it when a change is committed); a prefix of such an outbox tells a prefix of each life. The
refinement maps a change to `Record`, a judgement that applies to `Apply`, the rest to stutters.
`StreamNothingIsQuarantined` has the hypothesis `Alone`, that there is at most one caller, which
`oracle_alone` satisfies and without which `oracle_race` refutes it. Then `created_at` follows the
nonces (`Numbered`), and nothing is sent, judged or marked delivered before all that precedes it has been
applied (`InOrder`), even when a drain was begun before rows it has not read.

**Redemption.** That goods leave only for tokens that stay frozen is not inductive: the delivery call
acts on what it read two transactions ago. `IndInv` adds `CallsAreSound` (what a call carries is what
its redemption stored, and that redemption is past cancelling), `DeliveriesNameReceipts`,
`StoredGoodsAreFree` (goods still in the elevator left for nobody) and `SupplyIsInLedger`. Since a
redemption never leaves the states after preparing except to COMPLETED, EXCEPTION or QUARANTINED and
never changes its receipt, a call keeps sound whatever happens meanwhile. The refinement has two step
lemmas: `MoveStep` for changes of a redemption and `ShipStep` for goods that leave; all other actions
stutter.

The sums come in layers on top of it. `Covered`: the verified collateral covers the supply. `BookedInv`,
`MintedLessBurned` and `Accounted`: positions, supply and RESERVED account are the sums of the movements,
of mints and completed redemptions, and of what orders and redemptions hold. For `BackedByGoods` two more
are needed. `Trail` says what an event proves: a lock that was reported happened, the registry reports no
release before its goods have left, a booked release that names a redemption completed it. `Stock` says
that a receipt is booked once with all its goods, that a redemption takes all of its receipt, and that
nothing is left of the position after it is completed. Then what the elevator holds of positions that
are still booked covers all tokens but those frozen for goods on their way out.

**OMS.** That applyTrade never finds a reservation too small (`FillsAreConsistent`) rests on
`ReservesAreExact`: an open order holds exactly what its open part may still cost at its limit, under
its own fee schedule, rounded up. `CostFalls` shows that a fill lowers this by at least the notional,
because the fee is monotone, so what is left for the fee is never negative; and what was charged so
far is never more than what is due, because both sums only grow. `IndInv` adds that rows and engine
agree (`BookAgrees`), that only the order being placed may reach the other side of the book
(`OnlyTakerCrosses`; `Finish` ends this), and that sequence numbers grow (`SequencesGrow`).
`MakerIsFirst` then shows that neither side of a trade passes an earlier order: the maker because
`Maker` takes the first, the taker because an earlier one that is as good would have crossed before it.
`OmsAccountsFollowOrders` needs `Balanced` besides: for cash and for tokens, RESERVED is the sum
over a party's orders, and what orders have spent is in clearing or, after a better price, came back. The trades
are a set, so that it sums to clearing needs `TradesUseUp`: each trade uses up one of its two orders,
and no later trade can equal it.

**Collateral, listing and the issuer's page.** The invariants come in layers. `Holdings`: one worker to
each lock, what was read under locks is still true (`Fresh`), and with it `NoDoublePledge`; the refinement
of `Pledges` maps `Change` to pledging or releasing, a mint to minting, the rest to stutters. `Paper`: what
rows of instruments, versions and decisions say of each other; in particular only the current version can
be in review, its decisions carry its hash, and whoever got past review has two approvals of what is
published. `Reports`: an instrument that is covered and not promoted has a call that will report it, or
one that did so in vain. `Forms`: what each page knows of the stored draft, as a version and a count of
saves that either is the present one or can never be again; a save or a submission that is under way keeps
that knowledge. What an untouched part of a form shows is stated for every currency (`Shows`), as
the currency may change between the form and the draft; and in a first version, which only a page
writes, the prices have the currency of the instrument (`PricesStay`), so that they change only with it.
`WizardSubmittedIsShown` and `WizardUntouchedTextSurvives` follow for any number of pages.
These are theorems of `Spec`, which begins with an empty market; the other two places in which the run begins
only save TLC the way there.

**Desk.** What an identity has heard is at most its stored answer, and it has an order exactly if that is
yes (`AnswersAreStored`); answers are only written where there is none. Locks, money and books stay
unexpanded: the answer depends on the key and not on them.

Proved only, and not among the properties of a run: the type invariants of `Settlement`, `OracleStream`,
`Redemption` and `Oms`, `LockedReadsStayTrue`, `FinalityIrrevocable`, `AppliedIsPrefix`,
`SupplyIsInLedger` and `GoodsLeaveForFrozenTokens`.

## Limits

Only model-checked: liveness under fairness, which the prover cannot do: `EveryCallEnds`,
`EveryTradeIsDecided`, `EveryEventIsApplied`, `GoodsGoneAreBurned` and `EveryTicketIsAnswered`. Every
invariant and action property and every refinement of a passing run is proved. The three findings that are
violations are counterexamples of TLC.

Not modelled:

* signatures and canonical JSON, and the HTTP layer beyond the answers that models of pages and
  consumers tell apart;
* the tables and dashboards of the web client and the elevator pages: they show what they fetch, and
  the commands they call are in `Redemption` and `OracleStream`;
* which field of a section is missing or wrong, and edits of the disclosure, which is one constant;
* lists and their cursors (`elevator.service.ts:697` keeps milliseconds of a time that the database
  has in microseconds), and other queries that change nothing;
* the account locks of a redemption, which come in the order of purposes and before those of the
  ledger (`redemption.service.ts:671`), against those of an order of the same holder;
* edits of rows that `VerdictIsRight` takes as given: the trade itself (price and quantity), the entries
  of a posting (a trigger forbids it) and settlements that are not final. The check adds up fee rows by
  component, so a fee moved from one fee row to another of its kind is not found by the code; the
  property compares the sums for that reason, not the rows;
* event-log, audit and transition rows that are written with the status they record;
* the API documents and the types generated from them, the matching process (a scaffold, as the engine
  runs inside OMS), and the adapters of bank, blockchain, e-sign and KYC (interfaces without behaviour).
