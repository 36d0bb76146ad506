# Formal models of the shop backend

TLA+ models of `boilerplate-node-backend` (a TypeScript shop: catalogue, cart,
orders, payments, stock, delivery, returns, over MongoDB), TLC configurations
that check them on small instances, and TLAPS proofs of their main safety
properties for every instance. The models are translated from the code under
`src/src`; docs and comments are used only as claims to compare it with.

## The system

The backend is a modular monolith. Each module under `src/src/modules` owns its
collections; modules call each other's services and announce facts as domain
events. Several processes run the same code (a cluster of web workers, cron
containers), so every operation may interleave with every other one. What keeps
them apart is MongoDB: a conditional `updateOne`/`findOneAndUpdate` is atomic on
one document, and `withTransaction` makes a group of them atomic.

| Part | State it keeps | Operations | What is hard |
|---|---|---|---|
| `inventory` | `stocklevels` (onHand, reserved, available, backordered, backorderLimit), `reservations` (one hold per order), `stockmovements` (append-only) | reserve, commit, ship, release, expire, top up, receive, adjust, restock, allocate | checkouts take lines one write at a time outside a transaction; sweep, payment, cancel, shipment race for one hold; a queue of paid preorders |
| `kernel/outbox.ts`, `kernel/events.ts` | `outboxevents` (status, attempts, nextAttemptAt, lockedUntil) | enqueue in the caller's transaction, relay (find heads, claim, dispatch, settle), park | relays in several processes, leases, crashes, retries, order per aggregate |
| `orders` | `orders` (status, payBy, fulfillment), timeline | place, markPaid, cancel, expire, process, ship, deliver, override | each move is one conditional write; stock must follow it; late money |
| `payments` | `payments`, refund records | intent, settle (browser, webhook, poll), refund, retry sweep, disputes | duplicated, late and reordered reports; partial failure against a provider |
| `cart` | `carts` | edit, checkout | cart version against the order's transaction; cap on open orders |
| `delivery`, `returns` | shipments, fulfillment orders, returns | ship, lose, deliver, cancel remainder, receive goods | their stock effects on open holds |
| `invoicing` | invoices, yearly counters | issue on `paid`, credit notes | gapless numbers under redelivery |
| `webhooks`, `notifications`, `tasks`, `shop-tasks`, `stock-alerts` | deliveries, inbox rows, tasks | consumers of the outbox | at-least-once delivery |
| `account`, `users`, `access`, `api-keys` | sessions, tokens, roles | sign-in, rotation, revocation, erasure | token reuse, sessions against revocation |
| the other modules | one document at a time | create, read, update, delete, reports | nothing a model would reach |
| `infrastructure`, `app`, `cluster.ts` | leases, cache, queue, mail spool, rate limits | adapters, middlewares, process lifecycle | `lease.ts` has no fencing; idempotency keys; shutdown |

They interact in three ways: direct service calls, usually inside the caller's
transaction (`orders.markPaid` commits the hold it pays for); domain events
through the outbox (`RESERVATION_EXPIRED` makes `orders` cancel, `ORDER_CANCELLED`
makes `payments` refund); and cron jobs (the reservation sweep, the outbox
relay, the refund retry).

What makes the parts modelled so far correct:

* inventory: no unit is sold twice; the counters are exactly what the holds
  name; every counter change has its ledger row; paid preorders are served
  first, in order of payment; a checkout is all or nothing; a hold nobody pays
  is given back;
* outbox: a row is published only after every handler has handled it; the rows of
  an aggregate are handled in order; a settled row stays settled; one relay at a
  time dispatches a row; every row ends published or parked;
* cart and placement: one line per product within its limit; an order is the
  basket the buyer confirmed and the same basket is never ordered twice; a
  placement that fails loses no unit;
* orders and payments: stock follows the order's status; money is matched by goods
  or goes back; the buyer is charged once; an expired order does not stay open;
* refunds: what is promised, what is recorded as returned and what the buyer has
  agree, and never exceed what was paid; an open refund is not forgotten;
* delivery and returns: each unit bought is in one place, the units to send have
  stock or a claim behind them, the order's status follows its parcels, and a unit is
  taken back once.

## Modules

| Module | What it is |
|---|---|
| `Inventory`, `MCInventory` | `modules/inventory`: counters, ledger, holds, the reserve outside transactions, the sweep, staff operations, failures |
| `InventoryProofs` | its theorems |
| `Outbox`, `MCOutbox` | `kernel/outbox.ts` and `emitDomainEvent` of `events.ts` |
| `OutboxProofs` | its theorems |
| `Checkout`, `MCCheckout` | `modules/cart` and `orders/services/place.ts`, `crud.ts`: one buyer's cart and the orders placed from it |
| `Sales`, `MCSales` | one order with its hold, payment row and intents: `orders/services/status.ts`, `cancel.ts`, `payments/services/settlement.ts`, `intent.ts`, `offline.ts`, `transfer.ts`, `effects.ts` |
| `Refunds`, `MCRefunds` | the refund records of one payment: `payments/services/refunds.ts`, `refund-settlement.ts`, `refund-sync.ts`, `external-refunds.ts`, `disputes.ts`, the refund half of `effects.ts` |
| `RefundLedger` | the abstract specification `Refunds` implements |
| `SalesProofs`, `CheckoutProofs` | the theorems of `Sales` and of `Checkout` |
| `RefundsProofs`, `RefundMoneyProofs` | the theorems of `Refunds`: the records among themselves and against the ledger; the records against the money |
| `Sums`, `SumTheorems` | the total of a table of amounts, and what changing an entry does to it |
| `Fulfilment`, `MCFulfilment` | one paid order in `modules/delivery` and `modules/returns` |
| `FulfilmentProofs` | the theorems of `Fulfilment` |

They are composed by reduction: each module keeps of its neighbours what it can
see of them. `Checkout` takes a hold in one step (its steps are `Inventory`'s);
`Sales` starts from a placed order, keeps one hold and a set of outbox rows
(delivered at least once, as `Outbox` shows) and reduces a refund to whether one
was opened (`Refunds` has its life); `Fulfilment` starts from the paid order.

Definitions marked "Mutated form" are not the code. Each is a plausible mistake
in the definition it names, and the property paired with it in `PROJECT.json`
must fail once it takes that definition's place.

### Inventory

| Variable | In the code |
|---|---|
| `levels[p]` | the `stocklevels` row of product `p`; `row` says whether it exists (`none`: not yet, `removed`: the product was hard-deleted) |
| `holds[o]` | the `reservations` document of order `o`: its status, its lines by product and kind (shelf unit or preorder claim), the payment instant `committedAt`, and whether `expiresAt` has passed (`due`) |
| `ledger[p]` | the sum of the `stockmovements` rows of `p` |
| `rsv[o]` | where the call of `reserveForOrder` for `o` has got to, with its local variables (`taken`, the lines left to take, movement rows not written yet) |
| `shrink[p]` | a downward correction whose movement row is not written yet |
| `clock`, `faults` | the last `committedAt` stamped; failures so far |

An operation that runs in `withTransaction` is one action, with its trailing
allocation (`ServeAndRecord`): a release, an expiry, a receipt, a restock or a
payment serves the queue of paid preorders in the same step. Two operations are
not transactions, and each of their writes is an action:

* `reserveForOrder`: `InsertHold`, then per line `TakeLine` (counters) and
  `RecordLine` (movement row), or `TakeSpillLine` (a transaction of its own); on
  a refusal `LineRefused`, `NarrowToTaken`, the parallel `GiveBackLine` and
  `RecordGiveBack` of each line, `DeleteHold`;
* a downward `adjust`: `AdjustDown`, then `RecordAdjust`.

Failures: the process dies between two of those writes (`CrashInReserve`,
`CrashInAdjust`), a take throws (`TakeThrows`), a give-back throws and is logged
(`GiveBackThrows`), a checkout stalls past its own hold's window (`HoldLapses`
with a `stall`). A failure inside a transaction aborts it, which is no step.

Abstractions: time is whether a hold is due, and the order of payments; a hold's
lines are kept per product and kind, because the code merges and splits lines
only along those; the lines of one transaction are moved at once, because they
touch different counters. Not modelled: the catalogue's cached copy of the
counters, the outbox rows these operations enqueue, and what MongoDB's snapshot
isolation lets two transactions both read: a transaction is an atomic step.
Callers use an order's id only after its reserve has returned (`Known`), because
`placeOrder` generates it and publishes it afterwards.

### Outbox

| Variable | In the code |
|---|---|
| `rows[r]` | the `outboxevents` document: status, attempts, whether `nextAttemptAt` has passed (`due`), which relay's lease is live (`lock`) |
| `relay[w]` | one `relayOne` call with the row it read (`attempts` is that read's count), the next handler, whether any threw |
| `processed[h]` | the rows handler `h` has handled without throwing |
| `told` | rows announced by `OUTBOX_EVENT_DEAD` |
| `crashes`, `stalls` | failures so far: a relay that died, a relay that outlived its lease |

`FindHead` is the aggregation of `findHeads` for one head, `Claim`/`ClaimLost`
the conditional write, `RunHandler` one handler of `emitDomainEvent`,
`MarkPublished`/`MarkFailed`/`TellDead` the settling. `BackoffEnds` and
`LeaseLapses` are the clock. A crash frees nothing: the lease stays until it
lapses. `LateCommits` lets an older row of an aggregate commit after a newer one,
a limit that `docs/tools/outbox.md` states; order is claimed without it.

### Checkout

| Variable | In the code |
|---|---|
| `cart` | the `carts` document: `__v` and its lines |
| `price`, `listed` | what checkout reads of the catalogue |
| `shelf`, `hold` | units not held; the hold of each order |
| `order`, `expired` | the order's row (status, and whether it came from the cart); `RESERVATION_EXPIRED` rows on their way |
| `write[w]` | a running `upsertLine`: which statement is next, and how often it was retried |
| `req[r]` | a running `orderConfirm` or `create`: what it has read so far |
| `faults`, `slips` | failures so far; those that part an order from its hold |

`upsertLine` is three statements (`MatchExistingLine`, `ResolveMiss`,
`PushNewLine`) with its retries; `MergeLine` is the same with a guest's line.
A checkout reads (`OrderConfirm`), judges what it read (`Judge`), takes its hold
(`ReserveForOrder`) and writes order and cart in one transaction (`WriteOrder`);
`WriteThrows` and `ReleaseForOrder` are the failing branch of `placeOrder`.
A transaction whose outcome is unknown may have committed although it threw.

### Sales

| Variable | In the code |
|---|---|
| `order` | status, and whether a parcel has left (`fulfillment`) |
| `hold`, `free` | this order's hold; units of the product others may buy |
| `pay` | the `payments` row: status, manual, transfer, providerRef |
| `refund`, `keep` | a refund was opened; an operator cancelled without one |
| `events` | outbox rows not handled yet: created, expired, cancelled |
| `psp[i]` | an intent at the provider (external); `odd` is a success over another amount, currency or payment |
| `call[w]` | what a request, webhook, sweep or handler is in the middle of |

A transaction is one action, a call to the provider another, so a payment,
a cancel, an expiry and a shipment meet in every order. The handler of
`ORDER_CANCELLED` closes the intent, settles what it hears, then refunds; if it
dies its row stays and is delivered again.

### Refunds

| Variable | In the code |
|---|---|
| `refunded`, `records` | the payment's `amountRefunded` and `refunds[]` |
| `copies` | further elements of `refunds[]`: per refund, the record an import pushed beside the one that opened it |
| `dispute`, `stamp` | its stored chargeback; the order's `paymentStatus` |
| `call[w]` | a request, sweep or webhook: the record and total it read, and its next step |
| `psp`, `bank`, `given` | the refund at the provider, the chargeback at the bank, money operators handed back (all external) |

An attempt is named by its worker: in the code the fence is `attemptedAt`, one
instant per attempt. The provider is idempotent on the record's id, as the code
assumes when it sends the id as the idempotency key.

`Attempt` is what `attemptRefund` decides on the document its caller's write left:
wait for a person, ask, or be refused before anyone is asked (`Refusals`: a chargeback
is open, or else the adapter is not registered here, which one process of a
deployment may find when another does not). `SyncRefund` is the read of a webhook
(`settlement.ts:804`); the provider is listened to later (`HearState`) and what it says
is looked up in the payment as it was read, so a refund may be opened, sent and paid in
between. `ImportRefund` compares what `repository.ts:652` compares: the total
and the provider's id on the records, not the record id that the provider echoes. Only
the lookup in what was read knows the echoed id (`ourRecord`).

### Fulfilment

| Variable | In the code |
|---|---|
| `order` | status, kind of goods, units backordered at payment |
| `groups` | `fulfillmentorders`: quantity, shipped, cancelled, status, hold reason, the lost shipment it was made for |
| `parcels`, `returns` | `shipments`; `returns` with quantity, remedy, status |
| `hold` | the order's hold in inventory: units set aside, units owed |
| `events` | `ORDER_CANCELLED` and `PREORDER_ALLOCATED` rows |
| `ensuring`, `relay`, `asked` | what `ensureFulfillmentOrders`, `releaseAllocated` and `openFor` have read and not yet used |

Every act of delivery claims the revision of its fulfilment order and writes the
order in one transaction, so it is one action ending with `Settles`
(`reportProgress`, `settleOrder`). One product: the acts treat products apart.

### Departures

In nine places the code, left to itself, goes against a documented statement. Two
of them have a run of their own; the constant `Divergences` names each in the
module and the passing runs are made without it (but `refunds_live`, below), so that one departure does not
hide everything else a property says:

| Name | What happens | Where |
|---|---|---|
| `stale hand` (Refunds) | an operator settles or voids a record that an attempt moved since it was read, under the same status | `refunds.ts:943`, run `refunds_hand` |
| `hand undone` (Refunds) | a late report of a failed attempt marks a refund paid by hand as owed again | `refund-sync.ts:29`, `payments/repository.ts:835` |
| `disputed unasked` (Refunds) | a refund moved and its answer was lost; a chargeback opens, so the next attempt fails the record as `disputed` without asking the provider; once it is won the record may be voided as one that "moved no money" (`domain/lifecycle.ts:296`) and a new refund is paid | `refunds.ts:422` |
| `removed unasked` (Refunds) | a refund moved and its answer was lost; the retry finds no adapter registered and fails the record as `provider_removed`, "so the money provably did not move" (`refunds.ts:431`); that refusal is final, and the record may be paid by hand | `refunds.ts:433` |
| `imported twice` (Refunds) | a webhook reads the payment; a refund of ours is opened and paid, its answer not recorded yet; the webhook lists the refunds, does not know this one, and pushes a second, settled record of it. The first no longer fits (`domain/lifecycle.ts:282`) and may be paid by hand. `external-refunds.ts:3-6` says that one of ours is carried onto its record | `settlement.ts:804`, `external-refunds.ts:146`, `payments/repository.ts:652` |
| `offline beside a new intent` (Sales) | money is recorded by hand while a new intent is being opened, and both can be paid | `payments/repository.ts:465,505` |
| `stale allocation` (Fulfilment) | an allocation event is handled after the order's claim has changed | `release-allocated.ts:75`, run `fulfilment_stale` |
| `replaced in transit` (Fulfilment) | a replacement reopens a group whose parcel is still on its way | `domain/reship.ts:37` |
| `found once released` (Fulfilment) | a lost parcel turns up after its owed group was released, and another group's claim is given back | `found.ts:173` |

`refunds_live` allows `disputed unasked`, `removed unasked` and `imported twice`: without
the first a record that is owed may stay so while its payment is disputed, which the code
does not do. The last two have no run of their own. Each of the five departures of `Refunds`,
allowed alone in the instance of the run `refunds` (with a second fault for `disputed unasked`,
which takes a lost answer and a chargeback), gives a trace in which `NeverOverPaid` fails. The
other properties of that run do not depend on them: with all but `stale hand` allowed they
hold there, and they are proved so (below).

Others were met and are stated in the properties instead: a hold left by a
crashed checkout breaks `HoldsBacked` (claimed until the first failure) and may
never expire; a refused two-line checkout gives back a unit without serving the
queue (`QueueServed` is about checkouts of one line); racing relays lose a
failure in the count of attempts; a relay that outlived its lease may announce a
published row as dead (`ToldOnlyIfDead` until a stall); an unknown commit, or a
placement that outlives its hold, leaves a pending order without units
(`HoldsFollowOrders` without slips).

## Runs

| Run | Instance | What it checks |
|---|---|---|
| `inventory_one` | one product, two orders, all operations, no failures; at most two units, two claims, two payments | `HoldsBacked`, `LedgerReplays`, `QueueServed`, `FirstPaidFirstServed`, shapes |
| `inventory_two` | two products, two orders, one failure of any kind anywhere | `NeverOversold` after the failure too; `HoldsBacked`, `LedgerReplays` until it |
| `inventory_live` | two products, one of which may be deleted, one unit, no failures, `FairSpec` | `ReserveEnds`, `DueHoldsEnd` |
| `outbox_order` | two rows of one aggregate, two handlers, two relays, two attempts, one crash, one stall, `FairSpec` | `PublishedMeansHandled`, `OrderKept`, `OneAtATime`, `ToldOnlyIfDead`, `SettledForGood`, `EveryRowSettles` |
| `checkout` | one product at two prices, two orders, two writers, two checkouts (two of the four at work at once), three cart writes, one failure | `CartSound`, `HoldsFollowOrders`, `OrderTakesCart`, shapes |
| `sales` | two workers, two intents, every outcome, one crash or unanswered call | `StockFollowsOrder`, `MoneyMatched`, `NeverServedAndRefunded`, `PaidOnce`, shapes |
| `sales_live` | two workers, one intent, one failure, `FairSpec` | `PendingEnds`, `MoneyEnds` |
| `refunds` | two records of ours and one outside, amount one of two, one sweep, one operator, one outage, crash, stall, chargeback or returned refund | `TotalIsWhatRecordsName`, `NeverOverPaid`, `SettledMeansReturned`, `StampAgrees`, `CanceledStaysClosed`, `ImplementsLedger`, shapes |
| `refunds_live` | one record, two sweeps, one operator, one failure, `FairSpec` | `NeverForgotten` |
| `fulfilment` | two units, none or one backordered, three groups, two parcels, two returns, one event on its way | `UnitsAccounted`, `StockBacked`, `StatusFollowsGoods`, `ReturnedOnce`, shapes |

Two runs end in a counterexample, each against a statement of the repository:

* `refunds_hand`: an operator opens a record the provider refused for lack of
  funds. The sweep claims it, sends it again, the money moves and the answer is
  lost: the record is `failed` once more, now for an unclear reason. The
  operator's write compares the status only, matches, and the buyer has the money
  twice. `lifecycle.ts:269` says an unclear failure is never settled by hand.
* `fulfilment_stale`: one unit of two is backordered, the other ships. Stock comes
  for the backorder (`waiting` 0), and before the event is handled the parcel is
  marked lost and its unit owed. The listener releases both groups, one of which
  has no stock. `delivery.md:240` says a state survives redelivery.

Why the bounds are enough. A race in this code is between two actors over one
document: every check-then-write has two of each. Quantities of two tell
"part" from "all"; two payments or rows make an order; three groups are an
origin, a waiting one and one split or owed. One failure at any point is enough
to part any two writes; a second failure mostly repeats the first, and the
theorems hold for any number. `fulfilment` lets one `ensureFulfillmentOrders` be
at work at a time: a second one that finds the groups written changes nothing, and
`fulfilment_stale` explores two. Symmetry is used over orders, workers and
records that the specification never tells apart, and never in a liveness run.

Deadlock is not checked: a shop where nobody does anything, or that has used up
a bound, may stop.

## Fairness

* `Inventory!FairSpec`: a running reserve takes its next step (its process is
  alive and the driver answers), and the sweep, a cron job every few minutes,
  reaches each due hold. The code reads due holds in batches; one that the counters
  refuse stays due, so with thousands of refused holds the batch would be full.
  In the run without failures none is refused.
* `Outbox!FairSpec`: relays go on (the relay job runs every minute), backoffs end
  and leases lapse. Handlers may fail every time: a row then ends parked.
* `Sales!FairSpec`: a request, handler or poll that is running goes on; the
  provider repeats its webhooks until they are answered and the reconcile sweep
  polls (strong fairness of `Retrieve`, since a busy process may disable one
  delivery); the outbox delivers `ORDER_CANCELLED` and `RESERVATION_EXPIRED` until
  they are handled (`EveryRowSettles`). A row parked after all its attempts is
  outside this: then staff are told and act.
* `Refunds!FairSpec`: a running call goes on, attempts age, retry delays end, and the
  retry sweep visits each due record (strong fairness: the record may be claimed
  by another caller between two visits).

No fairness for anything a buyer, an operator or a bank does.

## Refinement

`Refunds` implements `RefundLedger` with `promised` mapped to `amountRefunded`
and `returned` to the sum of the records marked succeeded (`ImplementsLedger`,
checked in `refunds` and proved for every instance, `RefundsImplementLedger`). The ledger says: money is promised before it is returned,
never beyond what was paid, and a promise is taken back only while its money is not
out. A refund made in the provider's dashboard is noted as promised and
returned at once, which nobody here can keep within what was paid.

## Proofs

For every set of products, orders, requests, every bound and every failure
(`InventoryProofs`):

* `TypeCorrect`: `Spec => []TypeOK`. Not only shapes: a hold never names a
  negative quantity, so no release can raise what it should lower.
* `NoOversell`: `Spec => []NeverOversold`. The inductive invariant is
  `TypeOK /\ NeverOversold`. `ApplyDeltaBalanced` shows that a movement which
  passes its own condition keeps one row balanced. The rest of the argument is that no action
  applies a movement, or a sum of movements on one row, that its guards do not
  cover: `BothKindsIn` and `BothKindsOut` for two movements on one row,
  `AllocatedLevelsOK` for the walk down the queue, and one lemma per action. No
  assumption on `faults` is used, so it holds through any number of crashes.

* `HoldsAlwaysBacked`, `LedgerAlwaysReplays`: `Spec => []HoldsBacked` and
  `Spec => []LedgerReplays`. Neither is inductive. The inductive invariant is
  `Books`, that until the first failure three things hold, each for rows that do not exist yet too:
  `Kept`, every counter is the sum of what its orders are owed, and a hold being
  taken is its reserve's alone (`Mine`: held, not due, naming what was taken and
  what is still asked for; this is what stops the sweep); `Written`, the movement rows add up to the
  counters but for those in flight, and no line is touched while its row is
  unwritten (`Tidy`); and where checkouts have one line, `Lined`, a product with units to
  sell has nobody waiting.
* `QueueAlwaysServed`: `Spec => [](faults = 0 => QueueServed)`, and
  `ServedInTurnUntilFailure`: under `OneLine`, a step with no failure so far serves no claim before
  an earlier payment's. `FirstPaidAlwaysFirst` is the run's form of it, where nothing
  fails: `OneLine`, `Faults = {}` give `Spec => FirstPaidFirstServed`. The failure
  matters: a stalled checkout whose hold expires gives back a claim that others
  are waiting on, and after that the counters no longer show who waits.
* `Goes` is what each action is shown to do to all of it. It is shown once for each kind of
  step: a write of one order, because all it changes is its own
  (`OneOrderGoes`, by `SumChange`); a transaction, because whatever its writes
  freed it serves before it ends (`TransactionGoes`, with `ServingEmpties`: after
  the walk down the queue nothing is left on sale or nobody waits, and
  `EarlierServed`: who gets a unit leaves nobody ahead); staff, because the shelf is not the holds'
  (`ShelfStepGoes`). Each action then only has to give its own account.

For every number of rows, relays and handlers (`OutboxProofs`):

* `TypeCorrect`: `Spec => []TypeOK`, on which the others rest.
* `AtLeastOnce`: `Spec => []PublishedMeansHandled`. `PublishedMeansHandled` alone
  is not inductive: it needs `HandledSoFar`, that a dispatching relay none of whose
  handlers has thrown has had its row handled by each one already run.
* `OrderPerAggregate`: `Spec => []OrderKept`. It needs `CommittedInOrder` (without
  late commits an unwritten row has no newer row written) and `HeadsInOrder`: from
  the read of a head on, every older row of its aggregate is published or dead.
  This survives stale reads, since a settled row never becomes pending again.
* `SettledRowsStay`: `Spec => SettledForGood`.
* `OneRelayAtATime`: `Spec => []OneAtATime`, and `OnlyTheDeadAreTold`:
  `Spec => []ToldOnlyIfDead`. Both rest on `LeaseHeld`: until a relay outlives its
  lease, a dispatching relay holds the lock of its row and the row is still
  pending, and a relay about to announce a death has parked the row. A claim
  needs the lock free, so two relays on one row would both be its holder; a
  failed last attempt finds its row pending, so its write parks it.

For every number of workers and intents, with any crash or unanswered call
(`SalesProofs`):

* `TypeCorrect`, and `StockFollows`: `Spec => []StockFollowsOrder`. Inductive with
  `StockInv`, which adds that at most the one unit is on the shelf.
* `MoneyIsMatched` and `NotServedAndRefunded`: `Spec => []MoneyMatched` and
  `[]NeverServedAndRefunded`. Neither is inductive alone. `Money` adds
  `SoldForMoney` (an order past payment, or a refund, has its money recorded), and
  rests on `AfterTheCancel`: only the cancel of an order announces it, and only
  the handler of that announcement closes, settles and refunds.
* `PaidOnlyOnce`: `Spec => []PaidOnce`, when the departure "offline beside a new
  intent" is excluded (`NoOverlap`, as in the run). `ChargeInv` says that a buyer can only
  pay through the intent that the row shows, and that nobody opens an intent while
  an operator records money by hand, nor the reverse.

For every number of records, workers, amounts, crashes and outages
(`RefundsProofs`; `NoStaleHand` excludes the departure `stale hand`, as the run does):

* `BooksInvariant`: `Spec => []Books`, from which `TypeCorrect` and `TotalAgrees`
  (`[]TotalIsWhatRecordsName`) follow. `Books` says that the total is the sum of the
  records, that what a worker remembers is still true of the record it works on
  (`WorkSound`), and that an answer it carries is one the provider gave (`HeardWell`).
* One lemma per action shows that every step is of one of seven kinds as seen from
  the records (`Kind`: opens, settles, sends back, imports, imports a second time, voids, or
  none of these). `CanceledIsClosed` (`CanceledStaysClosed`), `StampIsRight` (`[]StampAgrees`)
  and `RefundsImplementLedger` are proved over those kinds.

The same against the money (`RefundMoneyProofs`):

* `SettledWasReturned`: `Spec => []SettledMeansReturned`, from `AllTrue`: what each
  record says, and what each worker is about to write, agrees with the refund the
  provider has under its key; and from `CopiesTrue`: so does a second record of it. Only
  `stale hand` is excluded.
* `NobodyIsOverPaid`: `Spec => []NeverOverPaid`, when the five departures of `Refunds` are
  excluded (`Documented`). `AllPaid` is inductive while nobody refunds in the
  provider's dashboard. It says that a refused or voided record has no refund out, that
  a worker about to act for an operator read a record that owes and is not out,
  and that what operators handed back is at most what records paid by hand
  promise. Hand-paid records and refunds that went through are then different shares
  of the same total (`PaidIsEnough`), and no open record is found not to fit beside the
  others (`NothingExceeds`), which needs that nothing of ours was imported (`NoCopies`).

The departures are excluded by assumption because each of them does break the
property: the theorem says that nothing else does.

For every number of products, writers, requests and orders, any price, limit and
number of failures (`CheckoutProofs`):

* `TypeCorrect`, `OneLinePerProduct` (`[]CartSound`), `HoldsAreRight`
  (`[]HoldsFollowOrders`), `BasketOrderedOnce` (`OrderTakesCart`): all that
  `checkout` checks. The inductive invariant is `Placements`: a writer about to push
  a line read a cart without that product at that version (`Pushable`); a placement
  knows its own order and nobody else's (`OrdersKnown`, `OneEach`); what it is about
  to order is the cart it read, as long as the version has not moved (`Read`); until
  a slip its order is unwritten and its units held (`InOrder`, `Covered`);
  and the shelf with all that the orders withhold is the stock (`UnitsKept`).

For every number of units, fulfilment orders, parcels, returns, ensures and
outbox rows (`FulfilmentProofs`):

* `NoUnitLostOrMade` and `NoUnitReturnedTwice`: `Spec => []UnitsAccounted` and
  `Spec => []ReturnedOnce`, when `replaced in transit` is excluded. The inductive
  invariant is `Counts`. A unit found again counts once (`Real`: the quantities
  less what was found are what was bought); what was shipped and what was replaced
  add up to what the parcels hold; each parcel comes from a fulfilment order made
  before it left and each owed one from a parcel that had left (`Linking`), so a loss
  and its undoing name the same units; and a fulfilment order counts as shipped at
  least what of it is still on its way (`Covering`). `Covering` is what the
  departure breaks: without it a loss takes off more than was shipped.
* `StockAlwaysBacked`: `Spec => []StockBacked`, without departures. `Backing` adds
  that before the fulfilment orders are written all that was bought is held
  (`Sending`, `Awaited`); that the rows on their way name what is owed in
  decreasing order, the last one what is owed now, and the groups wait for at least what
  the first one names (`Queue`); and that a listener at work has exactly the rest
  of the difference to release, to the groups it read (`Releasing`). The property alone is
  not inductive: it says nothing of what a row read before will release after it.
* `StatusAlwaysFollows`: `Spec => []StatusFollowsGoods`, from `Counts`, `Backing`
  and `Status`, which adds that a paid order has no parcel. `SettledWell` states what the settling
  of an order gives whatever came before it; each act then shows that it settled, or that
  what it changed cannot be seen.
* `TypeCorrect`: `Spec => []TypeOK`. The bounds (`Bounds`) need the other three:
  a row names no more than was bought because the stock behind it agrees.

The last three exclude every departure. `StockBacked` fails under each of the
three in the instance of the run `fulfilment`, `StatusFollowsGoods` under the first two, `UnitsAccounted`
and `TypeOK` under `replaced in transit`; `TypeOK` fails under `stale allocation`
with three parcels and four groups. That the others hold under one departure or
another is not claimed.

`SumTheorems` derives what these need of sums over a finite set. TLAPS cannot take
an induction theorem whose parameter is an operator, so the lemmas
(`SumMonotone`, `SumChange`: one entry changes, the total changes by as much;
`SumAppend`: a row is added) are
argued from a smallest subset that breaks the claim, and `WithoutSound`
of `CheckoutProofs` likewise from the first line of the cart that does.

The assumptions are those of each module's `ASSUME` (shapes of the constants;
finitely many products, orders, records, requests) and the exclusions named above.

Only model-checked: all liveness (out of the provers' reach). Every invariant and
every other action property that a passing run checks is also proved.

## Plan

1. `Inventory`, `Outbox`, `Checkout`, `Sales`, `Refunds` with `RefundLedger`,
   `Fulfilment`, and the proofs of all six (done).
2. `Lease` (`lease.ts`): who may run a job, overlap after expiry, release by a
   holder that lost it.
3. Snapshot reads in `Inventory`, for write skew between a receipt and a payment.
4. Invoicing's numbers, webhooks' deliveries, idempotency keys, sessions.

## Not modelled

* Of the modelled modules: the status override of orders and its sync to
  delivery, dates and notices, tracking, amounts of returns, evidence and
  deadlines of disputes, coupons and quotes, retention, metrics, searches and
  exports. Each changes documents of its own or only reads.
* MongoDB's snapshot isolation: a transaction is an atomic step, so what two
  snapshots may both read (write skew) is not seen.
* Single-document modules (addresses, wishlist, locales, shop, sitemap, stats,
  analytics, antibot, observability, audit logs), rendering, mail and image
  adapters, configuration, controllers and validation: they keep no state that
  two actors change, or are input and output only. They, with tests and
  scripts, are most of the repository's lines.
* Invoicing, webhooks, sessions and access, the queue, the cache and the
  middlewares: they have state worth modelling and are left for later.
