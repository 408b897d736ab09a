# Verification of goldex

TLA+ models of goldex, with the TLC runs that check them and TLAPS proofs of
what matters most. Source paths are relative to the repository; `p2p/` is
`goldex-backend/src/p2p/`.

## 1. The system

goldex is a gold trading platform: a NestJS backend (PostgreSQL through TypeORM,
Redis, RabbitMQ), a payment gateway service (`goldex-cbp`), a pricing engine that
talks to gold providers, Telegram services, and the panels. Several replicas of
each service run; they share state only through the database, Redis locks and
RabbitMQ.

| component | state it keeps | operations | interacts with | hard behaviour |
|---|---|---|---|---|
| rial p2p market (`p2p/`) | requests, parts, intents, matches, proofs, cases, rial wallets | services, cron workers, admin decisions | wallets, envelopes `deposit`/`withdraw`, bank accounts | concurrent handlers, unlocked reads, timeouts, crashes between transactions |
| company bank accounts (`admin-bank-account/`) | accounts, daily counters | `pickAccount`, `consumeHeadroom`, reset | matching, settlement | choice and charge are far apart |
| manual deposits, withdrawals (`deposit/`, `withdraw/`) | envelope rows, wallets | create, cancel, process | wallets, p2p envelopes | status checked outside the transaction |
| gateway payments (`payment-bus/`, `goldex-cbp/src/payments`) | envelope rows, payment rows | commands, events, callbacks, inquiry | RabbitMQ, gateway | lost, repeated and late messages, calls that time out after they worked |
| customer orders (`order/`, `wallet/`) | orders, wallets | place, settle, reconcile | pricing engine over RabbitMQ | the one settling message can be lost |
| provider orders (`goldex-pricing-engine`) | orders in memory, deals | place, track, report | providers, backend | restart forgets orders |
| customer-to-customer orders (`order/match.service.ts`, `order-book/`) | orders, four wallets | match | wallets | lock order |
| quote requests (`quote-request/`) | requests | answer, accept, expire | orders | answer against expiry |
| credit (`credit/`) | contracts, settlements | lifecycle, settlement workflow, cron | wallets | multi-step settlement |
| warehouse (`warehouse/`) | stock, packets, requests | allocate, move, deliver | wallets | allocation races |
| operation codes (`operation-otp/`) | codes | issue, verify | every money operation | one use |
| distributed lock (`redis/`) | keys with a TTL | `withLock` | all cron workers | a run longer than the TTL |
| notifications, reporting, Telegram, panels, OCR, tools | read models, external services | | | no state of the above |

**What makes each correct.** P2p: a part of a withdrawal is promised to one
depositor at a time, a payment is never dropped without a decision, rial is
neither made nor lost, every row tells the same story, and nothing waits for
ever. Bank accounts: no account exceeds its daily limit. Manual and gateway
payments: a row is paid at most once, and finally. Orders: the customer's lock is
settled or released exactly once. Quotes: one answer is accepted, in time.
Credit: a contract is settled once and its collateral returned. Warehouse: stock
is never allocated twice. Codes and locks: used or held once.

PROJECT.json lists every component with its sources and status, and under
"hazards" what is hard to test, at its line.

### The rial p2p market

A withdrawer locks rial (`P2pWithdrawService.createForWithdraw`); the request is
divided into *parts*. A depositor files an *intent*; `P2pMatchingService` reserves
one part of equal amount for it, or a company bank account, and makes a *match*.
The depositor pays by bank transfer, outside the platform, and submits a proof.
The withdrawer confirms or rejects; silence, rejection and a wrong amount open an
*escalation case*, which an admin decides. `P2pSettlementService` then moves the
withdrawer's locked rial to the depositor. Cron workers (each under a Redis lock)
expire reservations, time out withdrawers, retry unmatched intents and close
requests whose window has passed. Every request and intent has an *envelope* row
in `withdraw` or `deposit`, which the rest of the backend reads.

### Payments through a gateway, and by hand

A user files a `deposit` or a `withdraw` row. Types in `GATEWAY_BOUND_TYPES` ask
goldex-cbp for a payment over RabbitMQ: a deposit is charged at once, a withdrawal
waits for an admin's approval, which travels over the same queue. The pay page
brings the payer back to the backend, which relays the callback; goldex-cbp
verifies it and publishes `processing`, `succeeded`, `failed` or `rejected`.
`PaymentEventService` applies these to the row and books a succeeded one on the
wallet. Admins can process every open row by hand, users cancel pending ones.

### Customer orders

`createOrder` saves the order, locks its price (or its gold) in the wallet and
then does one of two things. A MARKET or QUOTE order goes to the pricing engine,
which submits it to a gold provider, polls the provider and reports the answer;
`OrderStatusConsumer` settles the order with it, and `StuckOrderReconciler` asks
again when none came. A QUOTE order may meanwhile be taken by another user
(`requestMatch`). A LIMIT order crosses the book in the backend's memory, rests what
is left there and settles each match in a transaction of its own. Orders can be
cancelled by their owner, an admin or the close of their market.

## 2. The modules

| module | what it is |
|---|---|
| `P2pStates` | the enums and the five transition tables (`p2p/state/transitions.ts`), with `assert`'s rule that a move to the same state passes |
| `P2pMarket` | the market: one action per transaction of the services and the workers |
| `P2pPromises` | the properties, the refinement mappings |
| `PartReservation` | abstract: how a part and a match may move |
| `RialLedger` | abstract: how a wallet may move |
| `P2pRaces` | the handlers that read without a lock and write later, split into those two steps |
| `GatewayPayments` | deposits and withdrawals of backend and goldex-cbp, the queue between them, the gateway and the payer |
| `PaymentPromises` | its properties |
| `OrderRows` | orders, their wallets, and what every kind of order goes through: placing, locking, tasks, unlocking |
| `ProviderDeals` | EXTENDS `OrderRows`: market and quote orders, the pricing engine, the queues, the provider |
| `LimitBook` | EXTENDS `OrderRows`: limit orders, the book, the settlement of a match |
| `CustomerOrders` | `ProviderDeals` and `LimitBook` over the same rows and wallets, cancellations, crashes, fairness |
| `OrderPromises` | its properties |
| `MCP2pMarket`, `MCP2pRaces`, `MCPayments`, `MCOrders` | instances for TLC |
| `SumTheorems` | lemmas about sums over finite sets |
| `P2pRows_proofs`, `P2pBooks_proofs`, `P2pSettled_proofs`, `Payments_proofs`, `Orders_proofs`, `OrderBooks_proofs`, `ProviderDeals_proofs` | the theorems |

### State and actions of `P2pMarket`

One variable per column that some handler decides on: `reqState`, `reqLocked`,
`reqCompleted` (`p2p_withdraw_request`), `partStatus`, `partRes`
(`p2p_withdraw_part.status`, `active_reservation_id`), `intentState`, `retries`
(`p2p_deposit_intent`), `matchStatus`, `matchIntent`, `matchPart` (`p2p_match`),
`caseState` (`p2p_escalation`), `withdrawRow`, `depositRow` (envelopes), `free`,
`held` (wallet balances). `windowOver` stands for `expires_at` in the past,
`owedOpen` and `owedMatching` for calls a handler has still to make after its
commit. `partRes` of a company match and `matchPart = NoPart` are the null columns.

| action | code |
|---|---|
| `CreateForWithdraw`, `Cancel`, `ConfirmPayment`, `RejectPayment` | `p2p-withdraw.service.ts` |
| `CreateForDeposit`, `AcceptMatch`, `CancelMatch`, `SubmitPaymentProof` | `p2p-deposit.service.ts` |
| `MatchNewIntent`, `MatchingRetry` (through `ReserveForIntent`) | `p2p-matching.service.ts` |
| `EscalateOwed`, `EscalateByAdmin`, `Assign`, `Resolve` (through `Decide`) | `p2p-escalation.service.ts` |
| `ReservationExpiry`, `WithdrawerResponseTimeout`, `SettlementTimeout`, `MoveToAdminSettlement`, `RequestExpiry` | `p2p-cron.service.ts` |
| `WindowElapses`, `LoseOpen`, `LoseMatching` | the clock; a replica that dies between two transactions |

Settlement is not an action: `Settle`, `SettlePartFromAdmin` and `ReleaseLock` run
in the transactions of their callers. A thrown assertion or an insufficient
balance rolls the transaction back, so it is a conjunct of the guard.

### Abstractions

* Deadlines other than the window are "may have passed": expiry and timeouts are
  enabled whenever the row's state allows them. This adds behaviours only.
* Matching may see any subset of the candidates (`SKIP LOCKED` hides rows another
  transaction holds), and the score may prefer any of those.
* `retryCount` saturates at `MaxRetry`; nothing else reads it.
* `pickAccount` answers from `AccountAnswers`; daily headroom is not modelled.
* Admin decisions are final: staging for a second admin is not modelled.
* Amounts are parameters. Matching wants equal amounts, so runs use parts and
  deposits of 1.
* Only the p2p handlers write the envelopes here. `process` and `cancel` of
  `GatewayPayments` can be called on those rows as well; the two are not composed.
* Audit, events, notifications, transaction records, the proof's file, OCR and
  idempotency key are left out (a second proof finds the match moved on).

`LateCancel` says whether a depositor may call `cancelMatch` on a match that is
no longer held. The user panel offers the button only while payment is awaited
(`goldex-user-panel/src/pages/P2pPage.jsx:437`), the server does not insist
(`p2p-deposit.service.ts:147`). The properties that this breaks are stated for
`~LateCancel`, and the break has a run of its own.

### `P2pRaces`

TypeORM's `save(entity)` writes every column in which the copy in memory differs
from the row, so a handler that loaded a row without a lock puts back what others
have written since. Four handlers do so, or check what they do not lock:
`escalations.open`, `escalations.resolve`, `settlementTimeout` and `cancel`
(reservations lock the part, `cancel` the request). Each is split into a reading
and a writing step, and whole steps of `P2pMarket` come in between. `Slow` names
the handlers that may be interrupted, at most one call of each per row. A match
can get a second open case, `secondCase`. `LockedRequestsStay` is the row lock
`cancel` does hold.

### `GatewayPayments`

| action | code |
|---|---|
| `Create`, `StartCancel`/`FinishCancel`, `StartSet`/`FinishSet`, `StartComplete`/`FinishComplete`/`RefuseComplete` | `deposit.service.ts`, `withdraw.service.ts`: `create`, `cancel`, `process` |
| `ApproveGatewayWithdraw`, `ForwardCallback` | `withdraw.service.ts`, `payment-callback.controller.ts` |
| `OnEvent`/`SaveEvent`, `OnSucceeded` | `payment-event.service.ts` |
| `StartCharge`/`FinishCharge`, `RefuseRequest`, `KeepWithdraw`, `OnApprove`/`DropApprove`, `FinishTransfer`, `OnUnpaid`, `OnPaid`/`FinishVerify` | `payments.service.ts` of goldex-cbp, at its consumers |
| `Take`, `Lose`, `BackendCrash`, `CbpCrash` | the two `rabbitmq.service.ts`; restarts |
| `PayCharge` | the payer (external) |

`task[r][t]` is the status a running handler has read: `Save` writes the row with a
status decided from it, whatever the row says by then, and counts in `stale` a save
over a status it had not read. `OnSucceeded` alone reads the row again under its
lock. `byEvent` and `byAdmin` count the transactions written for a row, `moved` how
often the gateway took or sent the money of a payment; neither is a column, they are
what the properties compare the rows with. A message is a member of a set: two equal
messages in flight are one, and `Take` may leave a message to be delivered again.
`pay[r]` has one place for each payment of a row: externalReference is not unique.

### `CustomerOrders`

| action | code |
|---|---|
| `Create`, `Freeze`, `RefuseFreeze`, `RefuseLink`, `Dispatch`, `FinishLimit`, `FailLeg` | `order.service.ts`: `createOrder`, `processLimitOrder` |
| `StartCancel`, `FinishCancel` (`Release`, `Unlock`) | `cancelOrder`, `cancelOrderAsAdmin`, `closePool`; `wallet-order.service.ts`: `rejectOrder`, `unlockOrder` |
| `OnPlaced`, `OnStatus`, `Link`, `Confirm`, `Reject` | `order-status.consumer.ts`, `confirmOrderExecution`, `rejectOrder` |
| `AskAgain` | `stuck-order-reconciler.service.ts` |
| `StartMatch`, `FinishMatch`, `RefuseMatch` | `match.service.ts` |
| `MatchBook`, `Evict`, `RestoreBook` | `order-book.service.ts` |
| `ReadMaker`, `SettleLeg` | `settleLimitMatch` |
| `OnPlace`, `Accepted`, `Refused`, `Poll`, `Report`, `OnQuery`, `FetchDeals` | `provider-order.service.ts`, `provider-account.service.ts` |
| `Answer`, `Matches` | the provider and the order book library (external) |
| `FailTask`, `Lose`, `BackendCrash`, `EngineCrash` | a rolled back transaction, the queues, restarts |

Every settling handler saves an order entity that its caller read before, and none
checks that the row is still what was read. So a row can say something else than
its wallets have been through, and the model names the ways (`Causes`): saved over
what was not read (`stale`), unlocked before it was locked or while its match is
settled (`early`), left half way by a crash, a failed leg or a failed credit link
(`halfway`), matched without its commission (`fee`), forgotten by a failed taker
or evicted by a failed cancellation (`dropped`). `blame[o]` collects the causes an
order has met. They are ghosts: no action's effect depends on them, except that an
order that has met one starts no new handlers (a bound, to keep damaged orders from
multiplying states). `lockedBy`, `usedBy` and `freedBy` keep per order what its
transactions record. Properties speak of orders without a cause (`Clear`), so each
says that nothing *else* goes wrong; `TradesConserve` holds for limit orders with
causes as well.

Abstractions: prices, quantities and fees are natural numbers and parameters
(rounding to eight digits is left out); limit trades carry 0% commission; what the
customer receives for a provider's fill is the parameter `Gets`; the credit rows of
a credit order are left out but for the failure that rejects the order; the time of
three minutes the reconciler waits is "may have passed".

## 3. The runs

Sizes of the main instance: two requests of two owners in three parts, two
deposits, one of them by an owner, company funds for one of them. Two parts are
what `PARTIALLY_MATCHED` needs, two deposits what a race for a part or a wallet
needs, and an owner who deposits is credited and debited on the same wallet. As many
matches as intents are enough where nobody races: an intent never gets a second
match (see 5, "never matched again"). Match ids are interchangeable (symmetry);
where deposits and parts are alike as well, so are they. `MaxRetry` is 1 or 0:
before and after the budget. No run looks for deadlock: a market in which every
request, payment or order is finished has stopped.

| run | question | answer |
|---|---|---|
| `P2p_safety` | rows, books, wallets, promises, both refinements, with crashes | hold |
| `P2p_liveness` | does everything end? | holds under the fairness below |
| `P2pRaces_stale` | `open`, `settlementTimeout` and `cancel` interrupted, two parts | rial is conserved, intents follow matches, the settled stays |
| `P2pRaces_late` | escalations, decisions and `cancel` interrupted, with late cancellations, one part | locks are backed, envelopes agree, the settled stays |
| `Payments` | one row, its payments and everybody who writes them | holds |
| `Orders` | customer orders with every handler interrupted | holds |
| `P2p_expiry`, `P2p_requeue`, `P2p_partial`, `P2p_twowinners`, `P2pRaces_twocases`, `P2pRaces_timeout` | documented promises | do not hold, see 5 |

The properties, in short: a live match and its part name each other
(`ReservationIsExclusive`); a part is paid once (`PartPaidOnce`); intents, cases
and envelopes agree with matches (`IntentFollowsMatch`, `CaseFollowsMatch`,
`EnvelopesAgree`); nobody pays into a cancelled request (`CancelledIsQuiet`);
locked balances, request amounts and confirmed parts sum up (`LocksAreBacked`,
`BooksBalance`, the reconciliation job's two queries); every customer's wealth is
explained by its settled payments (`LedgerExplained`); a paid match is only dropped
by a decision (`PaymentLeavesByDecision`), a credit needs an answer
(`CreditNeedsAnAnswer`), what is settled is final (`SettledIsFinal`).

`Payments` creates one row, a deposit or a withdrawal of a user whose wallet covers
it once, and allows two payments for it (the second needs a repeated request), one
of a cancellation, an admin's change and an admin's completion at a time beside any
number of event handlers, two approvals, one callback and one fault. The wallet
that covers one withdrawal only is what a second debit needs to be refused. Two
admins at once are beyond the bound of the run; theorem `BookedTwiceOnlyIfStale`
has them. The properties: a second booking of a row has a save over an unread
status behind it (`SecondBookingIsStale`, which is exactly how far the "terminal-state
guards" of `payment-event.service.ts:22` reach); a wallet is explained by its
transactions and never overdrawn (`WalletIsExplained`); an event's credit was paid
for (`CreditWasPaid`); no more transfers leave than approvals came
(`TransfersWereApproved`; two approvals may send two); a deposit's request is
answered and a success closes its row (`RequestsAreAnswered`).

`Orders` is three small worlds of one instance, chosen by `Together`: a quote that
the provider and another user both can settle, with two concurrent handlers and
overlapping polls; two limit orders that a balance does not cover together; a limit
order and two that cross it, one of which may rest before it or come while its
legs are settled. `Slots` says how many handlers hold an order at once, and which
orders are cancelled; two copies of a message may be in flight. One fault of any
kind. The properties: a settled or open row of a clear order tells its ledger
(`RowTellsLedger`); the book and running matches hold exactly what is open
(`BookFollowsRows`); no balance is overdrawn, a locked one only by an order with a
cause (`BalancesAreBacked`); a completed order was carried out by the provider, a
rejected one was not (`RowsFollowProvider`); limit trades, cancellations and
rejections conserve gold and rial (`TradesConserve`); an answer the engine recorded
arrives (`AnswersArrive`, stuck-order-reconciler's promise).

**Fairness.** Weak fairness of the five workers' actions, of the passing of the
window, and of the calls a handler makes after its commit. The workers run every
minute or five under a Redis lock that is released or expires; `P2p_liveness` sets
`MayCrash = FALSE` because a call lost in a crash is lost for good. `MatchingRetry`
is fair per intent, which the code grants while at most 100 are queued
(`take: 100`, oldest first), and `AccountAnswers = {TRUE}`: some company account is
eligible. Users and admins are not assumed to act.

`Payments` assumes weak fairness of the consumers and of the handlers they have
begun (`Delivery`): an event loop does not stop, and a crash or a loss is a fault
of its own after which the property promises nothing. `Orders` assumes it of the
reconciler's cron, of the engine's answer to a query and of handlers that have begun.
The consumer of answers is strongly fair, because it may find both task slots taken
again and again; the slots are a bound of the model and not of the code. Nothing is
assumed of providers, users, or the polls.

## 4. The proofs

Every safety invariant and every action property the passing runs check is also a
theorem; TLC has it for one small instance, TLAPS for every value of the constants
that satisfies the named assumptions. These say what the tables of the code say of
themselves: rows name existing users, requests and parts, amounts are natural
numbers, tables are finite (`FiniteTables`, and the last conjuncts of
`PaymentsAssumption` and `OrdersAssumption`), and a request's total is the sum of
its parts (`SplitAssumption`, `splitAmounts`).

| module | theorems |
|---|---|
| `SumTheorems` | lemmas about `SumFunctionOnSet` |
| `P2pRows_proofs` | `TypeCorrect`, `RowsAlwaysAgree`, `PartsAreTakenAlone`, `MarketReserves` |
| `P2pBooks_proofs` | `LocksStayBacked`, `RialStays`, `BooksAlwaysBalance`, `RequestsBalance`, `CancellationsAreQuiet`, `MarketKeepsLedger`, `WalletsAreExplained` |
| `P2pSettled_proofs` | `PartsArePaidOnce`, `CasesFollow`, `IntentsFollow`, `EnvelopesAlwaysAgree`, `SettledForGood`, `PaymentsAreKept`, `CreditsAreAnswered`; of `P2pRaces`: `RaceTypesCorrect`, `SettledIsSafe`, `RacesConserve`, `RacesKeepLocks`, `RacesKeepIntents`, `RacesKeepEnvelopes` |
| `Payments_proofs` | `PaymentTypes`, `BookedTwiceOnlyIfStale`, `CreditsArePaid`, `WalletsAreExplained`, `TransfersAreApproved` |
| `Orders_proofs` | `OrderTypes`, `RowsTellLedger` |
| `OrderBooks_proofs` | `BookStaysCounted`, `BalancesStayBacked`, `TradesStayConserved` |
| `ProviderDeals_proofs` | `OrdersFollowProvider` |

**Sums.** Balances, books and ledgers are sums over tables, and a sum is a fold: the
library's induction theorems take a predicate, which no installed prover can
instantiate. `SumTheorems` goes around that with sets: strict inclusion on the
subsets of a finite set is well-founded (`FS_StrictSubsetOrderingWellFounded`), so
among the subsets for which a statement about a sum fails there is a smallest one
(`SmallestSubset`), and removing an element of it gives the contradiction. From this
come `SumTake` (take one element out), `SumMove` and `SumTransfer` (one or two
entries change), `SumPlus`, `SumSplit`, `SumBelow` and the like, and every proof
below about money is one case of them for each action that moves some.

**The p2p market.**

* `TypeCorrect`: `TypeOK` is inductive by itself. It needs no `~LateCancel`.
* `RowsAlwaysAgree`: `RowsInv` is inductive while `~LateCancel`. None of its parts
  is inductive alone: that a confirmation finds its part pinned
  (`ReservationIsExclusive`) is what keeps `PartPaidOnce`; that an escalated match
  has exactly the escalated intent (`IntentFollowsMatch`) is what keeps a decision
  from moving somebody else's; `PartsAreNew` and `RowsAreLinked` say what fresh rows
  look like. The proof first classifies every step of a match by its shape
  (`MatchMoves`: it advances, submits, drops, confirms, attends to a case, or
  idles), then shows each shape preserves each part. `MarketReserves`: each shape maps
  to one abstract step of `PartReservation` or to a stutter.
* `BooksAlwaysBalance`: `MarketInv` adds the amounts to the rows: `CancelledIsQuiet`,
  `CompletedInFull`, `BooksBalance`, `LocksAreBacked`. They need each other: a settled
  part is paid from what its request has locked, which is at least the part because
  the confirmed parts and the lock make up the total. This is the invariant
  `P2p_safety` checks. Whatever the rows do, a step changes wallets and locks in one
  of five ways (`WalletMove`), from which `LocksStayBacked` and `RialStays` follow
  without `~LateCancel`, and `MarketKeepsLedger`, `WalletsAreExplained` with it.
* Late cancellations break rows, and `P2p_twowinners` shows it. What they cannot
  break is proved without `~LateCancel`: types, locks, rial, `EnvelopesAlwaysAgree`,
  `SettledForGood` (a match, intent or part that was settled can no longer change,
  because every transition out of it is refused), `CreditsAreAnswered` (only two
  actions write a credit) and `IntentsFollow`. The last needs `Paired`, which follows
  an intent to its match through states the cancellations leave behind.
* `P2pRaces`: the same steps may run between a read and a write. `RaceInv` says what
  can still be relied on of a stale copy: the match it was read from exists, the parts
  a cancellation has found belong to its request and none of them has been confirmed
  since, because a confirmation needs the request's row lock. `SettledIsSafe`, `RacesConserve` and `RacesKeepIntents` (with
  `RacePairs`) hold for every choice of `Slow` and of `LateCancel`. `RacesKeepLocks`
  and `RacesKeepEnvelopes` assume `"timeout" \notin Slow`: a stale
  `settlementTimeout` does write back an old `lockedAmount` (`P2pRaces_timeout`);
  `P2pRaces_late` checks with the timeout in a request of one part, where it has
  nothing to write back.

**Payments.**

* `PaymentTypes`; `BookedTwiceOnlyIfStale` is inductive with the types, its steps
  differ in whether the status they save was read. `CreditsArePaid` needs `PaidInv`:
  a succeeded event in the queue, and a payment that has succeeded, belong to money
  that was moved, and `moved` never decreases.
* `WalletsAreExplained`: a step books one row on its owner's wallet or none
  (`BookingMove`), and a booking moves the sum of `Entries` by the row's amount.
* `TransfersAreApproved`, from `ApprovedInv`: the transfers that have left, those a
  handler is about to send and the approval in the queue are together no more than
  the approvals given and the messages repeated. Every step is quiet about that
  count or turns one of its terms into another.

**Orders.**

* `OrderTypes` (`OrdersAssumption`, `DealsAssumption`): that queues and ledgers stay
  natural numbers needs the guards of every consumer and of `RemainderOf`.
* `RowsTellLedger`, from the inductive invariant `OrdersInv`. `RowTellsLedger` alone
  says nothing of an order that is still being placed, and most steps act on those.
  `Agreement` says for each stage of `createOrder` what the row knows of the ledger:
  nothing before the lock; while legs are settled, what it was given as a maker and
  not what it has taken (`SettlingAgrees`); and the whole when it is over. `Shape`
  says that only a placed order is in the book, in a match or in a leg, which is why
  a maker is never an order that has no lock. Both hold for any number of orders,
  handlers, faults and messages.
* `BookStaysCounted`, from `BookInv`: of a clear limit order, what rests in the book,
  what takers hold of it, what was executed and what it has taken itself never
  exceed its quantity, and are exactly that while nobody works on an open order
  (`Counted`). `BookFollowsRows` speaks of quiet orders only and is not inductive.
* `BalancesStayBacked`, from `BookInv` and `WalletInv`: a locked balance is the sum,
  over the orders paid from it, of what they locked less what they used and freed
  (ghosts of their transactions), also for orders with a cause. `Counted` says that a
  clear order never uses more than it locked, so a debt belongs to another.
* `TradesStayConserved`: a leg's two payments and two receipts cancel up to the
  spread, whose sign is that of the crossing prices. That a match only joins orders
  that cross is part of `Booked`, hence of `BookInv`.
* `OrdersFollowProvider`, from `DealsInv`, which adds to `OrdersInv` one fact for each
  place an answer passes through: an order is sent once, after its lock, and
  submitted once (`Asked`); a poll and a recorded deal hold what the provider has
  done (`Recorded`); so does every message in flight and every handler that has
  taken one (`Told`); so do the rows (`Settled`). A step either leaves the provider
  as it was, and then only what it adds must be backed (`StaysProvided`), or it moves
  a provider that has not answered, and then there is nothing yet that could be wrong
  (`NothingTold`). A refusal is only true of an order nobody will ask again (`Gone`),
  which a lost placement breaks: hence `faults = 0` in that half.

Only model-checked: the liveness properties (`ReservationEnds`, `PaymentIsAttended`,
`QueuedIntentIsServed`, `WindowBringsAnEnd`, `RequestsAreAnswered`, `AnswersArrive`),
which are out of this prover's reach; and `LocksAreBacked` and `EnvelopesAgree` of a
settlement timeout interrupted between its read and its save.

## 5. Where code and documents disagree

Each of these has a run whose counterexample shows it (PROJECT.json, "findings"):

* `P2p_expiry`: `requestExpiry` hands the whole lock back under a part that is
  being paid, because a reservation does not move the request.
* `P2p_requeue`: after a cancelled or expired reservation the intent is never
  matched again; the retry worker looks for `NO_MATCH` only.
* `P2p_partial`: in `ADMIN_SETTLEMENT` only the payment that completes the request
  can be confirmed.
* `P2p_twowinners`: a repeated `cancelMatch` passes the same-state assertion and
  frees a part another match has taken. Once that part was paid twice, the second
  payment may have come out of what the withdrawer locked for other requests, and
  `releaseLock` (`p2p-settlement.service.ts:222`) does not look at the wallet: closing
  one of them can drive the locked balance below zero.
* `P2pRaces_twocases`: `open` can make two open cases for one match.
* `P2pRaces_timeout`: `settlementTimeout` writes a request back as it was before a
  payment.

Seen while reading, and not given a run: a handler that dies between rejecting a
payment and opening its case leaves it without one (`p2p-withdraw.service.ts:290`);
`cancel` can miss a concurrent reservation (`:311`); two admins can resolve one
case (`p2p-escalation.service.ts:176`); `SETTLE_FROM_ADMIN` rejects the depositor
where the plan credits it (`RIAL-P2P-SETTLEMENT-PLAN.md:572`); an `ADMIN_FIRST`
deposit falls back to customers where the plan opens a case (`:190`).

Of payments and orders, within what the model allows and the properties exempt:
a late `failed` event saves over a payment booked meanwhile, although
`payment-event.service.ts:22` calls the flow idempotent; two approvals of one
withdrawal both reach the gateway (`payments.service.ts:420`); a transfer that
throws after it was sent closes the row without a debit (`:449`); a success the
wallet no longer covers is dropped (`payment-event.service.ts:290`); an order
cancelled before its lock is unlocked of what it never locked
(`order.service.ts:479`); a rejected credit order or taker keeps its lock (`:540`)
and the taker's remainder stays in the book; a taken quote keeps its commission
locked (`match.service.ts:101`); two answers settled at once are both written
(`stuck-order-reconciler.service.ts:30` calls asking again harmless); a placement that
times out is refunded and carried out (`provider-order.service.ts:182`).

## 6. Not modelled, and the plan

* Orders: `updateOrder`, the edits of an admin (a status set without the wallets),
  the credit and collateral rows of a credit order, commissions of limit trades, and
  `closePool`'s clearing of the whole book before it reads the rows: an order that
  rests in between is cancelled and stays in the book.
* P2p and the manual processing of its envelopes are not composed: the product of the
  two state spaces is beyond TLC; `GatewayPayments` shows what `process` does to a row.
* Planned: `TwoPerson` (staging and checking of decisions), `WalletLocks` (order of row
  locks), `AccountHeadroom` (daily limits), `QuoteRequest`, `CreditSettlement`,
  `WarehouseAllocation`, `OperationCode`, `CronLock` (a run longer than its TTL), each
  as a module with one run.
* Theorems worth adding: those of the planned modules; and how much of the
  withdrawer's other locks a part that is paid twice can consume (`BooksBalance` and
  `LedgerExplained` do not hold with late cancellations, `LocksAreBacked` does).

The model covers the money paths, a small part of the repository by lines: most of
it is panels, reports, static data (`country.info.ts`), controllers and types.
Left out for good: provider drivers, OCR, Telegram, notification channels and
panels (input and output), arbitrage and pricing arithmetic, reports.
