# Verification of the order-processing backend

TLA+ modules for the services of this repository (order, inventory, payment,
catalog, notification, auth and the gateway) and for the messaging they share, TLC
configurations that check them on small instances, and theorems, proved by TLAPS for
every instance, that state nearly all of the safety properties those runs check. Paths
below are relative to the repository.

## 1. The system

Seven FastAPI services, each with its own PostgreSQL database, speak to each
other only through Kafka. A service that changes something inserts the event
into an `outbox` table in the same transaction; a publisher process relays the
rows; a consumer process of the other service handles each event in one
transaction together with a `processed_events` row; what keeps failing goes to a
dead-letter topic, and from there into `dead_letters`, where an admin replays or
discards it.

| Component | State | Operations | Interacts through | What makes it correct |
|---|---|---|---|---|
| Order saga (`services/order/app/{saga,services,consumer}.py`) | `orders`, `order_status_history` | create, cancel, ship, deliver; handlers of reservation and payment outcomes | publishes `order.*`, consumes `inventory.*`, `payment.*` | only allowed transitions, honest history, truthful `was_paid`, no order forgotten |
| Inventory (`services/inventory/app/services.py`) | `stock_items`, `reservations`, `stock_ledger` | reserve, commit, release, expire, upsert, adjust, restock | consumes `order.*`, `payment.*`; publishes `inventory.*` | no oversell, no leaked unit, ledger balances, one answer per order |
| Sweeper (`services/inventory/app/sweeper.py`) | none | expires stale holds in batches | the inventory tables | every hold ends |
| Payment (`services/payment/app/services.py`, `mock_gateway.py`) | `payments`, `refunds`, money at the gateway | charge, retry, refund | consumes `inventory.reserved`, `order.cancelled`; publishes `payment.*` | one capture per order, refunds within it, every outcome published |
| Outbox (`common/common/db/outbox.py`) | `outbox` | enqueue, publish a batch | database, Kafka | a marked row is on the topic; two publishers never share a row |
| BaseConsumer (`common/common/kafka/consumer.py`) | `processed_events`, offsets, position | poll, dispatch, retry, dead-letter, rewind, commit | Kafka, database | nothing skipped, nothing applied twice |
| DLQ collector, admin (`services/order/app/dlq_consumer.py`, `routers/admin.py`) | `dead_letters` | park, replay, discard | `*.DLQ` topics | a replay is applied once |
| Catalog (`services/catalog/app/`) | `products`, Redis | seed, create, update, deactivate, stock events, cached reads | consumes `inventory.stock.changed`; publishes `catalog.product.upserted` | read models follow, no wrong page but for a race with its invalidation |
| Product snapshots (`services/order/app/consumer.py:123`) | `product_snapshots` | upsert | consumes `catalog.product.upserted` | checkout prices what the catalog sells |
| Checkout (`services/order/app/services.py:40`) | the idempotency key of `orders` | look up, price, insert, look up again, commit | called by the gateway, prices from `product_snapshots` | one order per key, every request ends |
| Gateway (`services/gateway/app/`) | rate windows in Redis | limit, proxy, time out | HTTP in front of every service | no more of a caller's clock readings than the window allows |
| Notification (`services/notification/app/`) | `user_contacts`, `notifications` | seven handlers, deliver | consumes `user.registered`, `order.*`, `payment.*`, `inventory.*` | the table accounts for every message; what a message says is backed by what its sender knows, or comes true |
| Auth (`services/auth/app/`) | `users`, `refresh_tokens`, login counters in Redis | register, bootstrap, login, refresh, logout, roles, status | publishes `user.registered`; other services trust its access tokens | one account per address, a bounded throttle, deactivation leaves no token but those it raced with |
| SSE stream | none | polls `orders.status` | HTTP | not modelled, see section 7 |

The hard behaviours are: several replicas of every process on one database;
duplicates, and events of different topics in any order; a charge or a refund at the
payment provider inside a transaction that may roll back; an ORM session that keeps
the first version of a row it loads; the saga's steps racing the customer and the
sweeper; failures between any two of send, mark, handle and commit; messages to
customers sent inside a transaction that may still be lost, and written before what
they promise has happened; a gateway that stops waiting before the service stops
working. `PROJECT.json` lists them one by one under `hazards`, with the properties
that cover them.

## 2. The modules

```
OrderStatus  Events
     \       /   \______________
      Order  Inventory   Payment        one action per transaction
      |  \      |   \      /
      |   \     |    \____/______ InventoryTx     the statements of a transaction
      |     Saga|         (refines Inventory)
      |      |
      |      +---- CustomerMail ---- Notification      what customers are told
      |
      +-- Checkout ---- Gateway ---- RateLimiter       POST /orders from the browser

Delivery  <---- Messaging (refines Delivery)      outbox, Kafka, BaseConsumer, DLQ
Catalog                                           products, Redis, read models
Auth                                              accounts, tokens, login throttle

InventoryProofs <-- SagaProofs <-- MailProofs     theorems (TLAPS); each also extends
InventoryProofs <-- InventoryTxProofs             the module it is named after
MessagingProofs  CatalogProofs  GatewayProofs  AuthProofs

MCInventory, MCInventoryTx, MCSaga, MCCustomerMail, MCGateway, MCMessaging, MCCatalog,
MCAuth                                            instances for TLC
```

* **OrderStatus** – `common/common/order_status.py`: statuses, transition table.
* **Events** – the events of the saga. An event is its topic, order, number and
  `was_paid`, and no two outbox rows agree in these: the number is the charge attempt
  of an outcome, and of a refund the sum given back so far, which grows with each.
* **Order** – order rows, history, outbox. Every operation locks the row first, so
  each is atomic. `Drop` is `transition(strict=False)` refusing quietly.
* **Inventory** – every operation of `InventoryService` as one atomic step. The
  ledger is kept as sums, per order and for admins; `announced` is what the newest
  `inventory.stock_changed` said. Time is abstracted: any hold may be stale. It is
  both the model of the service and the specification that InventoryTx implements.
* **InventoryTx** – the same operations statement by statement: the unlocked look-up,
  `SELECT ... FOR UPDATE` row by row, `SKIP LOCKED`, the session's identity map
  (`loaded`), rollbacks anywhere, UNIQUE violations, COMMIT. `READ COMMITTED` shows
  in `LockReservation`: a reservation another transaction has not committed is not
  seen, so a release then precedes the reserve, which is what `Inventory` allows too.
  `queue` is the set of lines to lock and `IsNext` says which may come next: in
  `reserve` the first in product order, as its one SELECT says; where the code walks
  through `reservation.items`, which has no `order_by`, any line of the reservation it
  is at. `RestockSpec` adds the one route that reads the row before it locks it.
* **Payment** – payments, refunds (`refunded`) and, beside them, the money the provider
  really moved (`captured`, `returned`), which a rollback does not undo: `LoseCapture`
  and `LoseRefund` are processes lost between the provider's answer and COMMIT.
* **Saga** – Order, Inventory and Payment composed. An outbox row once committed can be
  handled at any later time in any order (`Dispatch`), once per consumer because of
  `processed_events`. `ordered` is chosen at the start among `CrossTopicOrder`: where
  it is TRUE, an event waits for its causes, which is what the comment on the consumer
  group (`inventory/app/consumer.py:57`) assumes of the topics of one order. The
  properties named `...InTurn` are claimed for that world only; the others hold in both.
* **Notification** – a replica's handler (`HandleMail`) writes and delivers inside a
  transaction (`inHand`), which then commits with the contact and the
  `processed_events` row (`CommitMail`), is overtaken by another replica (`Overtake`) or
  lost (`LoseMail`). Bags count deliveries, rows and what rollbacks undid.
* **CustomerMail** – Notification as one more consumer of Saga's events, plus
  `inventory.low_stock` and `user.registered`, with nothing ordering the topics.
* **Checkout** – `create_order` statement by statement for concurrent requests: the
  look-up, `Price`, the INSERT that waits in the UNIQUE index, the second look-up after
  an IntegrityError, COMMIT. A basket is whether it can be sold (`onSale`).
* **RateLimiter** – the Redis sorted set, with ages for times so that the clock needs
  no bound. A member is named by the clock reading of its request
  (`rate_limit.py:53`), so a request at the reading of the one before may add none
  (`SameReading`); `granted` remembers the readings at which requests were let through.
* **Gateway** – clients, limiter and Checkout: a 504 detaches the client while the
  handler goes on (`GatewayTimeout`), a service that dies loses its open transaction
  (`HandlerDies`), a client sends its key again after 429, 502 and 504.
* **Auth** – a request is one transaction that reads without a lock and writes later
  what it decided on: `Register`/`CreateUser`, `Login`/`LoginPasses`/`SignIn`,
  `Refresh`/`Rotate`, `Deactivate`/`Sweep`/`CommitDeactivation`. `raced` marks tokens
  whose request overlapped a deactivation. Replicas that start are handlers too
  (`SeedAdmin`). `Tick` is Redis' clock on a login counter.
* **Delivery** – the abstract promise: only an enqueued event takes effect, at most
  once, or is parked.
* **Messaging** – how the code keeps it: publishers, topic and DLQ as logs, group
  offsets, members with a position of their own, retries, dead letters, admins.
* **Catalog** – one product; any number of admins and the consumer flush, invalidate and
  then commit, Redis may refuse any call, a reader may fill the cache late. `Merged` is
  an UPDATE that names only the columns that changed in the session. Events are handled
  in any order, once or never: the publisher passes over rows whose send failed, a
  consumer parks what keeps failing and goes on, a replay comes late. Three histories
  are kept to say what is wrong when something is: `met` and `calm` for requests that
  overlapped, `doubt` for cache entries that a reader raced or Redis refused to drop.

State is named after tables and attributes, actions after functions or statements;
`map` in `PROJECT.json` gives the lines of each definition. Definitions commented
"Mutant of X" are plausible bugs: substituted for X they violate the property
`mutants` names, so that no property is satisfied by shape alone.

## 3. What the runs check

| Run | Checks | Instance |
|---|---|---|
| `inventory` | counters, ledger, announcements, answers, lifecycle, low stock, `HoldsEnd` | three orders on two products with partial shortage, all operations |
| `inventory_tx` | locked rows are current, reserves never wait in a circle (`ReservesNeverCycle`), every COMMIT is a step of Inventory (`InvSpec`) | two processes, two orders that share a product, sweeps of both at once, all jobs but restock |
| `saga_failures` | paid means captured, charged means reserved, a paid cancellation is compensated on both sides, history, `was_paid`, outcomes, no order stays PENDING; in the ordered world reserved orders end and cancelled ones return their stock | one order, three attempts, a crash in a charge or a refund, refusals, an admin, both worlds of `ordered` |
| `mail` | the table accounts for every message (`MailAccounted`), each has behind it what its sender knew (`MailIsBacked`), what they promise comes true (`MailKept`) | a saga with a crash in a charge or a refund, refusals and a sweeper, its customer, an undeliverable admin address, two alerts, a lost or overtaken transaction |
| `messaging` | published once, marked only if sent, nothing skipped, `Delivery` (safety) | two events, two publishers with batches of two, two workers, collector, admin, one fault |
| `messaging_live` | an event is applied or parked unless its consumer has lost its loop (`EventsSettle`); a dead letter reaches the table or its storing failed (`LettersCollected`) | one worker, as `docker-compose.yml` has it, two events of which one is broken, two faults, a lost task |
| `catalog` | the display stock is that of the event handled last, the price copy follows, a wrong page was raced or refused (`PagesFollow`) | two admins, one reader, two requests, two stock events handled in any order, a product that is new or seeded |
| `storefront` | one order per key, the window is respected in clock readings, requests end | two tabs finishing one checkout with one key, two requests each, one fault |
| `accounts` | one account and one announcement per address, the throttle is bounded and forgets, only raced tokens survive a deactivation | a customer and the bootstrap admin, two requests at a time, three tokens, one Redis fault |

Three runs show a disagreement between the code and what it says of itself
(`findings`):

* `inventory_tx_restock` – `POST /stock/{id}/restock` loads the row unlocked into the
  session that later locks it, so the locked read returns the stale instance and the
  write erases a sale in between.
* `saga_stuck` – `payment.succeeded` handled before `inventory.reserved` is dropped;
  the paid order stays INVENTORY_RESERVED.
* `saga_money` – an order cancelled while its charge is in flight is captured and
  never refunded, even when topics keep their order; its customer is told that no
  payment was taken.

Where a property that holds is weaker than what the sources or a reader would say, the
stronger one is defined beside it. These can be reproduced by adding one of them to a
configuration (without its `SYMMETRY`), in each case as `INVARIANT` unless it says
otherwise:

| Add | To | Violated because |
|---|---|---|
| `ChargedAtMostOnce` | `MCSaga_failures.cfg` | a process lost after the capture and before COMMIT charges again on redelivery, though `payment/app/services.py:3-4` says at most once; `RechargedOnlyByCrash`, which holds, bounds the damage to one charge per loss |
| `RefundWithinCapture` | `MCSaga_failures.cfg` | a process lost after the provider gave the money back and before COMMIT refunds again on redelivery (`payment/app/services.py:236`), and the admin refund checks a row loaded before the lock (`routers/admin.py:65`) |
| `ConfirmedHasStock` | `MCSaga_failures.cfg` | the hold expires while the payment is under way; `commit_reservation` logs it and returns (`inventory/app/services.py:231-236`), and the order is confirmed without stock |
| `FailedKeepsNoMoney` | `MCSaga_failures.cfg` | a retry captures after the saga has given the order up, or a lost process had captured before the decline |
| `PROPERTY CancelReturnsStock` | `MCSaga_failures.cfg` | `order.cancelled` before `order.created` releases nothing, then stock is reserved for the cancelled order |
| `NoLockCycle` | `MCInventoryTx_all.cfg`, also with `SweepBatch = 1` | `commit`, `release` and the sweeper walk through `reservation.items`, which has no order, and the sweeper locks the rows of one reservation after those of another; `inventory/app/services.py:77-81` says a deadlock never happens, which `ReservesNeverCycle` confirms of reserves. PostgreSQL kills one transaction, which is retried |
| `PROPERTY EverythingSettles` | `MCMessaging_live.cfg` | `commit()` is outside the try blocks of `run`; the task ends and the process waits for a signal (`consumer.py:183`) |
| `MailIsTrue` | `MCCustomerMail.cfg` | "You have not been charged" after a capture whose transaction was lost, "No payment was taken" while the charge is in flight (`templates.py:63`, `82`), a refund given twice |
| `SnapshotWithinOneEvent` | `MCCatalog.cfg` | a deactivation publishes what it loaded before another admin's edit (`services.py:195-202`), and events of one product are not handled in the order of their commits; `order/app/models.py:148` says a change lands within one event |
| `PagesWithinOneEvent` | `MCCatalog.cfg` | invalidation runs before COMMIT, and a reader stores what it read before; `cache.py:9-10` says within one event rather than one TTL |
| `OrdersStayPrivate` | `MCGateway.cfg`, with a second user `u2` in `MCGateway.tla` for one of the tabs | the look-up after the lost race does not ask whose order it is (`order/app/services.py:120-122`), where the first one refuses rather than leak (`60-62`) |
| `NothingMinted` | `MCAuth.cfg` | a login or refresh that read the account before its deactivation issues its pair afterwards, though `repositories.py:132-134` and `services.py:210-213` say no new token can be minted; its access token works until it expires, its refresh token again after a reactivation |

`WindowRespected` counts clock readings. With `granted` counting every request (in
`Pass`, `granted' = [granted EXCEPT ![i] = <<0>> \o @]` for `same` too) it is violated by
requests that share a reading.

### Bounds and why they are enough

* Orders, products, workers: two of a kind contend, a third (in `inventory`) makes a
  partial shortage and an overlap; nothing in the code depends on a larger number.
* `MaxSupply` caps what an admin leaves on the shelf, `MaxAttempts` charge attempts,
  `MaxCrashes` processes lost in a charge or a refund, `MaxWrites` the admin requests of
  `Catalog` and `Movements` its stock events, `MaxAlerts` the low-stock alerts mailed,
  `MaxFaults`, `MaxLostTasks`, `MaxGarbage` and `MaxLetters` the failures and replays of
  `Messaging`. Each is large enough for its guard to be reached: a second failure after
  a first, an edit over an edit.
* `SweepBatch = 2` in `inventory_tx`, so that one sweep holds several reservations, as
  the shipped batch of 100 does; `BatchSize = 2` in `messaging`, so that one send of a
  batch fails and the other does not. `messaging_live` has one worker because
  `docker-compose.yml` starts one, and two events for it to leave one behind.
* `catalog`: two requests that may overlap and two movements, up and down, that may be
  handled in the other order, whichever the consumer is at when an admin loads the row.
* `storefront`: `Limit` and `Window` are 2, so that the third request meets a full
  window and the fourth may meet one that has moved; two requests per tab (`MaxTries`)
  are a request and its retry; `Earlier` lets a stranger hold the key already.
* `accounts`: with `LoginMaxAttempts = 1` two attempts under way together pass the
  limit by one, `LoginWindow = 2` leaves room for a failure inside the window,
  `MaxTokens = 3` for a token, its rotation and one of the admin.
* `mail`: one attempt, one crash and one lost transaction (`MaxLosses`), of which
  each already sends a message twice or undoes a row, and two alerts. There is one
  charge attempt, so nobody pays again; with `MaxAttempts = 2` and neither crashes nor
  losses the three properties hold as well. It has no admin, whose refunds
  `saga_failures` has.
* One partition and one key in `Messaging`: BaseConsumer treats partitions alone.
  One product in `Catalog`: rows, keys and events are per product.
* Saga runs have one order: orders share nothing but stock, for which they contend in
  `inventory` and `inventory_tx`.
* Symmetry is declared over workers, publishers and handlers in safety runs only.
* Deadlock checking is off everywhere: with the bounds used up, every model may stop.

### Fairness

Weak fairness only. The sweeper, the consumers and the publishers are loops that Docker
restarts (`restart: unless-stopped`), so what stays enabled is done in the end. `Assign`
is fair because the broker reassigns an abandoned partition. In `storefront` the service
goes on with what it has accepted (`Service`, `Answer`): uvicorn runs a handler to its
end whether or not anybody waits; the gateway's timeout needs no fairness. In `mail`
only the payment consumer and the sweeper owe a step, the two loops the promises rest
on. Customers and admins owe nothing, and no failure is fair. A lost `run()` task
(`LoseTask`) is not restarted, because its process has not exited, and `EventsSettle`
says what follows. `Catalog` and `Delivery` state safety only: whether an event comes at
all is for `Messaging` to say.

## 4. What is proved

Every safety property that a passing run checks is also a theorem of the module's
specification, for any number of orders, products, replicas, requests, attempts and
faults: of the constants only the ASSUMEs of the modules are used, and no fairness. Where
an argument needs more, its theorem has a hypothesis; these are listed below the table,
and the other theorems have none.

| Module | Theorem | Says |
|---|---|---|
| `InventoryProofs` | `InvTypeCorrect` | `InvSpec => []InvTypeOK` |
| | `StockCorrect`, `ReservedIsHeldCorrect`, `NeverNegativeCorrect` | reserved is what HELD reservations hold, units are conserved, no counter is negative |
| | `OneAnswerCorrect` | at most one of `inventory.reserved` and `inventory.reservation_failed` per order |
| | `LifecycleCorrect` | reservations only move forward |
| | `BooksCorrect`, `AnnouncedIsCurrentCorrect` | announcements are current, and each order's ledger nets out |
| | `LowStockCorrect` | who takes units and leaves few announces it |
| `InventoryTxProofs` | `TxTypeCorrect` | locks belong to open transactions |
| | `LockedRowIsCurrentCorrect` | a session never writes back an old row |
| | `TxImplementsInventory` | `TxSpec => InvSpec`: every COMMIT is an action of Inventory, all else a stutter |
| | `TxStockCorrect` | so stock is conserved by the interleaved statements |
| | `ReservesNeverCycleCorrect` | overlapping reserves and the admin's updates never wait for each other in a circle |
| `SagaProofs` | `SagaImplementsInventory`, `SagaStockCorrect` | `Spec => InvSpec`, and what Inventory promises the saga keeps |
| | `SagaTypeCorrect` | the three services' tables are well typed |
| | `HistoryCorrect`, `WasPaidCorrect` | honest history, truthful `was_paid` |
| | `OutcomesCorrect`, `RechargedCorrect` | payment row and events agree; one capture, and one more per lost process |
| | `ChargedCorrect`, `PaidCorrect`, `CancelCorrect` | charged means reserved, paid means captured, a paid cancellation is compensated on both sides |
| `MailProofs` | `AccountsCorrect` | every message that went out is accounted for |
| | `BackedCorrect` | each message has behind it what its sender knew |
| `MessagingProofs` | `MsgTypeCorrect` | outbox, logs, members and letters are well typed |
| | `PublishedIsInLogCorrect`, `PublishedOnceCorrect` | marked only if sent, and sent once |
| | `NothingSkippedCorrect` | the offset passes no event that was not handled or parked |
| | `MessagingImplementsDelivery` | `MsgSpec => DelSpec`: an event takes effect at most once |
| `CatalogProofs` | `CatTypeCorrect`, `StockFollowsCorrect`, `SnapshotFollowsCorrect` | the read models follow the event handled last |
| | `PagesFollowCorrect` | a wrong page was raced or refused |
| `GatewayProofs` | `WindowCorrect`, `OneOrderCorrect` | the window is respected, a key makes one order |
| `AuthProofs` | `AttemptsBoundedCorrect`, `OneAccountCorrect`, `DeactivatedIsShutCorrect` | the throttle is bounded, one account per address, only raced tokens survive a deactivation |

### Hypotheses

| Hypothesis | Of | Why |
|---|---|---|
| `AllTracked` (`Stocked = Products`) | the theorems of `InventoryTxProofs` | every product an order can want has its stock row; `InventoryTx` does not have the paths of a missing row, which `Inventory` has |
| `IsFiniteSet(Products)` | `ReservesNeverCycleCorrect` | a circle of waits is looked for among the rows that are locked; an order wants finitely many |
| `IsFiniteSet(Handlers)` | `AttemptsBoundedCorrect` | its bound counts the requests under way |

### The arguments

The safety properties are seldom inductive as they stand. TLC was given each
strengthening that it can evaluate as an invariant of the module's run before it was
proved; each has one lemma per action, or per group of actions that write the same
tables.

* **Inventory.** Units are counted as the cardinality of a set with one element per
  unit (`UnitsOf`), so that the lemmas on adding and removing an order (`UnitsOneMore`,
  `UnitsOneLess`, `UnitsTakeAway`) turn sums over orders into arithmetic without
  induction. That a release cannot drive `reserved_qty` below zero follows from
  `ReservedIsHeld`, so `StockInv` is the conjunction; `BooksInv` strengthens likewise.
* **InventoryTx.** `TxInv` says of each open transaction what it has locked, that its
  session holds exactly those rows as they are in the table (`SessionOK`), that it plans
  for reservations it has locked and that are still what it read (`PlanOK`), and that it
  has loaded, or has yet to lock, every row it will write (`RowsOK`). At COMMIT the rows
  flushed are then those Inventory's action computes, summed over a sweep's reservations
  (`BatchFlush`, `BatchUnits`). No cycle of reserves and updates: what such a worker has
  yet to lock comes after what it holds (`QueuesOK`), so in a set of them that wait for
  each other the one that holds the last row waits for nobody (`SomeRowIsLast`, by
  well-founded induction on `ProductOrder`).
* **Saga.** `OrderInv` and `PayInv` are inductive for one service each: an order's
  history is a `Path` of the transition table to its status and has `Visited` PAID
  exactly when that may still matter; published outcomes belong to attempts that were
  made, what an admin saw captured still is, and the gateway has no more than the row and
  the lost processes account for. Nobody `Publishes` another's topics and `done`
  marks only what was sent (`BaseInv`). This makes `reserve` run once per order, whence
  the refinement of Inventory. The properties that span services need the chain of
  events: `ChargedWasAnswered` and `PaidWasCaptured` (`MoneyInv`), with `OneAnswer` from
  Inventory, since an order both refused and reserved would break them.
* **Notification and CustomerMail.** `AccountInv` gives each marked event its one row
  (`RowsOK`) and balances what went out against rows, undone rows and the open
  transaction (`Balanced`), by the arithmetic of bags. What is behind a message is what
  its sender knew: `SaidIsSo` holds of every event once published and for ever (an order
  confirmed was PAID, what a refund names the provider has given back, money is only taken
  after the stock was set aside), and `TopicsOK` that a message is about an event that was
  published.
* **Messaging.** `OutboxInv`: no two publishers hold a row, what is held is unsent
  unless something failed, and a marked row is in the log. `SkipInv`: everything below a
  member's position was passed, except the record in hand, while it owns the partition;
  a member that lost it keeps that for the record it read. `EffectInv`: effects count
  `processed_events`, which the refinement maps to Delivery.
* **Catalog.** `CatInv`: the consumer, while it is at work, has loaded the stock that is
  in the row, an admin's transaction leaves the stock as it loaded it, and an UPDATE
  names only what changed; so the event the consumer committed last is what the row
  shows. `SnapInv`: the last event, if the request that wrote it met no other, shows the
  row's price and flag; an admin that has met nobody still has the row it loaded but for
  the stock, and publishes what it will commit; two that are open have met. `PageInv`:
  an entry, or what a reader holds, of which nothing is known to be wrong shows the row,
  and nobody has dropped it who has yet to commit (`Dropping`), so a COMMIT that changes
  the row finds no such entry.
* **Gateway.** `WindowInv`: the n-th latest reading at which a request was let through
  is no younger than the n-th latest hit, because what is let through is a hit, and the
  hits that count are no more than `Limit` then. `CheckoutInv`: an INSERT not yet
  committed has its key and its id to itself, and replies and clients hold the order of
  their key.
* **Auth.** Counted attempts and those past the check stay within the bound together
  (`AttemptsInv`). `AccountsInv`: the UNIQUE index, and announcements in order of ids.
  `ShutInv`: a request that read an account deactivated since is marked as `raced`, and a
  deactivation under way has seen every token but those issued while it had the row.

### Only model-checked

Liveness, which the prover does not reach: `HoldsEnd`, `PendingEnds`,
`ReservedEndsInTurn`, `CancelReturnsStockInTurn`, `MailKept`, `EventsSettle`,
`LettersCollected` and `RequestsEnd` hold on their instances, `ReservedEnds`
and `CancelReturnsMoney` are the findings. That `restock` breaks
`UnitsConserved` is a counterexample of TLC; the theorems about `TxSpec` are about the
other routes. The types of `Checkout` and `CustomerMail` are proved only as far as their
theorems need (`TypeInv` of `GatewayProofs`, `BaseInv` and `AccountInv`).

## 5. Running

    tlc -config MCInventory.cfg MCInventory
    tlapm SagaProofs.tla

Each run of `PROJECT.json` names its module and configuration; the longest take
about three minutes with two workers.

## 6. Where the models simplify

* Money is a multiple of one amount; an order is what it wants of each product. In the
  runs the amount is 1: a smaller refund by an admin, which the model has and which
  closes the payment as a full one does, so that a cancellation refunds nothing more,
  happens in the theorems only.
* In `Saga` an event is handled or comes again; that a consumer parks what keeps failing,
  and goes on, is in `Messaging`. The liveness properties of the saga are therefore about
  events that are not parked.
* Threshold `None` in a request is the value the row already has.
* `Catalog` has the seed script only as a start with the products it inserts. Run again
  on a product that exists, it sets `cached_stock`, price and `is_active` back to its own
  values, and the display stock is then not the last event's until the next one.
* In `Notification` subject and body are functions of the event, so a message is its
  event; addresses that `deliver` rejects are the set `Undeliverable`.
* In `Auth` a password is right or wrong by choice (`Mistyped`), signatures are valid,
  an access token never expires, which only adds behaviours, and a refused refresh
  changes nothing: the revocation of all tokens on a replay is rolled back with its
  request (`dependencies.py:35-42`, in the list of hazards).
* In `Gateway` the other upstreams and the GET bucket are left out: `proxy` treats them
  alike, and GETs change nothing.
* Corrupt cache entries, search filters and categories are left out.
* `NeverNegative`, `TxTypeOK`, `MsgTypeOK`, `CatTypeOK` and `SagaTypeOK` are proved and
  not checked by a run; those that section 3 lists under "Add" are violated;
  `CheckoutTypeOK` and `MailTypeOK` are for whoever changes the module.

## 7. Plan

Written in this order: Inventory and its proofs, InventoryTx, Payment, Order, Saga,
Messaging with Delivery, Catalog; then Notification with CustomerMail, Checkout,
RateLimiter with Gateway, Auth, and the end of dead letters in Messaging; then the
proofs of section 4. Next:

1. InventoryTx with products that have no stock row, so that `AllTracked` goes.
2. How much can be refunded at most, in terms of lost processes and stale desks, as
   `RechargedOnlyByCrash` says of charges.
3. `CheckoutTypeOK` and `MailTypeOK`.

And, if the model is extended: the outbox's order (`created_at` against commit order,
several keys) in Messaging, and dead letters in Saga.

### Not modelled

* The SSE stream (`routers/orders.py`): a polling reader of one column. It changes no
  state, and its product with the services it watches is out of TLC's reach.
* Configuration, migrations, logging, metrics, health checks, pagination,
  schemas and message texts: they keep no state that anything above depends on.
* Categories and product search in the catalog, listings everywhere: independent rows
  and read-only queries.
