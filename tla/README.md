# A verification project for flash-sale

TLA+ specifications of the flash-sale backend (`src/flash-sale`, Go): TLC checks
them on small instances, and TLAPS proves the theorems listed below for every
value of the constants. Paths are relative to `src/flash-sale` unless they begin
with `src/`.

## 1. The system

Three services, each with a PostgreSQL database and an outbox of its own, talk
through three Kafka topics and share one Redis. A gateway stands in front.

```
 client -> gateway -> order-service --order-events--> inventory-service
                        |   ^  ^                          |
                        |   |  '-----inventory-events-----'
                        |   '--------payment-events------ payment-service
                        v                                      ^
                      Redis             order-events ----------'
```

| component | state | operations | talks to |
|---|---|---|---|
| seckill fast path, `internal/order/seckill_service.go` | Redis `seckill:lock:<user>:<product>`, `inventory:stock:<product>`, `seckill:result:<order>`; table `orders` | `Seckill`, `GetSeckillResult` | writes ORDER_CREATED |
| order saga, `internal/order/event_handler.go` | `orders.status`, `seckill:result` | `handleStockDeducted`, `handleStockDeductFailed`, `handlePaymentSuccess`, `handlePaymentFailed` | consumes inventory-events and payment-events, writes PAYMENT_REQUESTED, ORDER_COMPLETED, ORDER_CANCELLED |
| inventory, `internal/inventory` | row `inventories(total, available, locked, version)` | `Deduct`, `Return`, `ConfirmDeduction`, `SetInventory`, `DeductRedis`, `RollbackRedis` | consumes order-events, writes STOCK_DEDUCTED, STOCK_DEDUCT_FAILED |
| payment, `internal/payment` | table `payments`, an atomic success rate | `HandleOrderEvent` | consumes PAYMENT_REQUESTED, writes PAYMENT_SUCCESS, PAYMENT_FAILED |
| outbox and Kafka wrappers, `pkg/outbox`, `pkg/kafka` | table `outbox_events`, partitions, offsets | `WriteEvent`, `publishBatch`, `SendMessageToTopic`, `ConsumeClaim` | every service |
| products, `internal/product` | table `products`, Redis `product:detail:<id>`, a singleflight group | `GetProductByID`, `Update`, `Delete`, `CreateProduct` | - |
| synchronous orders, `internal/order/service.go` | `orders`, `inventories`, the idempotency key | `CreateOrder`, `CancelOrder` | one database only |
| order numbers, `pkg/snowflake` | last timestamp, sequence | `NewNode`, `Generate` | order-service and the monolith call it |
| gateway, `cmd/gateway` | one instance pool per service, sentinel's breakers | `primePool`, `pollLoop`, the subscription's callback, `handleProxy` | Nacos, every service |
| registry, `pkg/registry` | `registered`; Nacos' instance list | `BootstrapService`, `Register`, `SelectInstances`, `Subscribe`, `Deregister` | every `main` |
| users, `internal/user` | table `users` with unique `username` and `email`; stateless tokens | `Register`, `Login`, `GetProfile`, `UpdateProfile` | primary and replica |
| configuration, connections, responses | none | - | - |

What makes each of them hard, and correct:

* **Saga.** Three databases never share a transaction. Handlers update the order
  by number and never look at its present status, log every error and answer
  nil, so a failed transaction loses its event. Correct: units are conserved, no
  oversell, one charge per order, the services agree on who paid, the status
  follows its state machine, every order settles, the poll endpoint tells the
  truth.
* **Inventory row.** Concurrent statements, an optimistic version check with
  three attempts, and a `Save` without the check. Correct: no granted deduction
  is forgotten; the counters add up; a refusal means a lack of stock or real
  contention.
* **Fast path.** Each Redis command can fail by itself and a process can die
  between any two. Correct: the counter gives back exactly what was taken,
  admits no more than the stock, the key admits one request of a user at a time
  and locks nobody out for good.
* **Outbox.** Publishing and marking are two steps, consuming and committing the
  offset too, and the relay of order-service reads a replica. Correct: nothing
  is published that was not committed, nothing marked that was not published,
  nothing skipped, everything handled.
* **Cache.** A fill races with a write and its invalidation. Correct: stale only
  in the known windows, and never for ever.
* **Synchronous orders.** Row locks taken in two orders, keys to be given back.
  Correct: stock and orders agree, nobody deadlocks.

* **Order numbers.** One mutex, but a clock that stalls, jumps, steps back and
  survives restarts, of which the node remembers nothing. Correct: no number
  twice.
* **Gateway and registry.** A poll and a push race to write one pool; a service is
  registered before it listens and is never deregistered; a half-open breaker
  waits for one request. Correct: the pool is what Nacos was last heard to say,
  it settles on who listens, and no route closes for good.
* **Users.** Checks read a replica, writes go to the primary, no transaction joins
  them, and a `Save` writes every column. Correct: an account keeps its owner and
  its email, a conflict is a real one.

`PROJECT.json` lists the hazards one by one, each at its line, with the
properties that would catch it.

## 2. Modules

| module | what it is | state and actions against the code |
|---|---|---|
| `OrderFlow` | abstract specification | one sequential process per order, no services and no messages |
| `Saga` | the order saga of one product | `orders`, `available`/`locked`, `payments`, `result` are the rows and the Redis key; `outbox` and `topic` are bags of events; one action per handler and outcome. `PlaceOrder` and `AnswerPending` are the two halves of the end of `Seckill` |
| `Inventory` | one `inventories` row | one step per SQL statement of each call |
| `Seckill` | the fast path of one product | one step per Redis command or transaction; the saga is reduced to *open, paid or cancelled*, and its Redis compensation kept |
| `Channel` | abstract specification | a bag of events: written, published, given to the handler, come again |
| `Outbox` | one channel: table, replica, relay, partition, group | `wal` is the table as its history of changes, the replica a prefix of it |
| `ProductCache` | one product id | database history, lagging replica, cache entry, singleflight call |
| `SyncOrders` | POST /orders and cancel in the monolith `cmd/server` | committed rows and the two row locks a transaction may hold |
| `Snowflake` | order numbers of several processes | `timestamp` and `sequence` are the node's fields, `clock` what `time.Now` shows; one step per call, which holds the mutex, and a state of its own for the call that spins |
| `Gateway` | the gateway, one service and Nacos between them | `pool` is `instancePool.instances`; the callback, the two halves of a poll, the steps of `main` and of `handleProxy` are actions; `entry` and `pushes` are Nacos' list and its notifications, `breaker` is sentinel's |
| `Users` | accounts | `history` is the table as its successive states, the replica one of them; one step per query or write |
| `MC*` | instances for TLC | |
| `SagaProofs`, `OutboxProofs`, `InventoryProofs`, `SeckillProofs`, `SnowflakeProofs`, `GatewayProofs`, `UsersProofs` | theorems about the module of that name | |
| `ServerProofs` | theorems about `SyncOrders` and `ProductCache` | it extends both, so the names of `ProductCache` say whose they are (`CacheSpec`, `CacheTypeOK`) |

How they fit together: `Saga` implements `OrderFlow` (`FlowSafe`), by a refinement
mapping that reads the three databases together (`PhaseOf`). `Outbox` is the detail
behind the channels of `Saga`, and implements `Channel` (`ChannelSafe`), the bag that
the saga relies on: an event is on its way only once its transaction has committed,
nothing leaves the bag but by being handled, and what has been published may come
again. In the mapping the topic holds the copies in the partition behind the group's
position, so that a position set back to the committed offset, or a relay that
publishes a row again, makes copies appear (`Again`). `Saga` keeps a copy back when
it sends or delivers an event that is to come again, `Channel` lets the copy appear
when it comes: no handler can tell. That nothing is lost holds by this shape; what
`Outbox` adds is how many copies there are (`DuplicatesPaid`: one, and one for each
fault and each stale query, which is what `MaxDup` bounds in `Saga`), their order
(`InOrderUnlessFault`), and that all of them arrive (`AtLeastOnce`). The bag is
coarser than the partition: it also delivers in orders that Kafka would not.
`Inventory` is the detail behind the atomic `DeductStock`, `RetriesExhausted`,
`ReturnStock` and `ConfirmDeduction` of `Saga`, and `Seckill` the detail before
`PlaceOrder`. `Snowflake` is why the other modules may take an order for its number.
`Gateway` and `Users` stand apart: they share no state with the saga.

### Abstractions worth knowing

* One product per instance: no operation touches two, and Redis keys and
  inventory rows are per product. In `Saga` an order stands for the one order a
  user can hold for the product (unique index on `user_id, product_id`).
* Handlers are atomic in `Saga`. A handler does one transaction and, in
  order-service, one `SET` of the result key, which may be lost. Consumers of
  one partition are sequential (the topics are auto-created with one partition
  and the compose file sets no other number); two groups of order-service do
  handle events side by side, but an order has one event in flight at a time as
  long as none is duplicated, which is exactly the invariant proved.
* Redelivery, failing transactions and lost optimistic updates are drawn from
  the budgets `MaxDup`, `MaxLoss`, `MaxConflict`, other faults from `MaxFault`,
  `MaxExcess` and `MaxStale`. They bound the instance, not the theorems, which
  hold for all values of those budgets that their statements do not fix.
* PostgreSQL runs at READ COMMITTED, so the retry loop of `Deduct` sees a fresh
  row at each attempt also within a transaction.
* `GetSeckillResult` in `Saga` reads the primary. The code's `First` goes to a
  replica, which makes an answer later, never a wrong end: a row that has ended
  does not change any more as long as nothing is duplicated.
* `PreloadStock` has no caller, so the opening value of the Redis counter is a
  constant of `Seckill`, unrelated to the inventory row.
* `ProductCache` models one process: singleflight groups do not span processes.
  `Outbox` takes `created_at` as distinct per row.
* TTLs are actions that are enabled when the entry exists; the 24-hour key is
  assumed to outlast requests, sagas and compensations.
* `SyncOrders` models the monolith, the only program whose database has both
  tables. order-service mounts the same routes but migrates no `inventories`
  table (`cmd/order-service/main.go:39`), so there `CreateOrder` and a
  `CancelOrder` of a pending order always end in an error and a rollback and
  cannot disturb the saga.
* `Gateway` has one service: pools and breakers are per service and share nothing.
  `SelectInstances` is taken at its doc comment, "the currently healthy instances"
  (`pkg/registry/nacos.go:149`); that the SDK may report an empty list as an error
  or as a list is left open (`Reported`). Nacos and sentinel are external: a list
  that changes and is pushed to subscribers, an instance without heartbeats that
  is dropped, a breaker that opens on an error and half-opens for one request. A
  request that the breaker refuses changes nothing and is no step.
* `Users` takes a password as the registration it came from, and a token as the
  name it was issued for: nothing changes either. Every answer that is neither
  success nor conflict is "500".
* `Snowflake` assumes that node ids differ, which the deployment must see to, and
  that a restart takes a millisecond at least.
* The compose file starts order-db-replica as an ordinary server without
  streaming replication, while the design document describes streaming;
  `Outbox`, `ProductCache` and `Users` model the documented one. Without replication, the
  reads of order-service would not see its own rows.

## 3. What TLC checks

Passing runs:

| run | instance | shows |
|---|---|---|
| `SagaSafety` | 3 orders, one for two units, 2 units; one loss, one lost-retries refusal, no duplicates | the inductive invariant `SagaInv`, types included; `StockConserved`, `PaidIsCharged`, `HeldIsCovered`, `OversellCovered`, `ResultSound`; the action property `StateMachine`; refinement of `OrderFlow` |
| `SagaLive` | 1 order, 2 duplicates, no loss | `ChargedPerCopy`; `Settles`: paid or cancelled for good; `ResultAgrees` |
| `Inventory` | 2 Deducts, a Return, a Confirm, 2 Sets on a row that may not exist | `LockedAccountedUnlessClobbered`, `RowAddsUpUnlessClobbered`, `RefusedOnlyUnderContention` |
| `Seckill` | 3 requests of one user, 1 of another for the whole stock of 2; one fault, one excess compensation | `StockBalanced`, `NeverOverAdmitted`, `OneAtATime`, `NotLockedOut` |
| `Outbox` | 2 events, replica, 2 faults, 1 stale query | `SentIsPublished`, `DuplicatesPaid`, `InOrderUnlessFault`; refinement of `Channel`; `AtLeastOnce` |
| `ProductCache` | 2 GETs, a create, 2 updates, a delete, one fault | `Coherent`, `UpdatesKept`, `EventuallyFresh`, `EveryGetAnswers` |
| `SyncOrders` | 3 users order one unit of 2, one cancels twice and may have used Seckill, another tries to cancel that order; one fault | `StockHeld`, `KeyExplained`, `EveryRequestEnds` |
| `Snowflake` | 2 processes, 2 numbers to a millisecond, clocks up to 3, 5 numbers; restarts, one step back per process | `UniqueUnlessSetBack` |
| `Gateway` | 2 instances, 1 request at a time, 2 faults | `FreshOnceTold`; `PoolSettles`, `HalfOpenEnds` |
| `Users` | 4 requests about 2 names and 3 emails, a lagging replica | `AccountKept`, `EmailKeptUnlessReverted`, `ConflictIsReal` |

Runs that violate what the repository says of itself (each is a finding):

| run | the repository | the code |
|---|---|---|
| `SagaStateMachineDup` | duplicates are naturally safe (`src/README.md:323`) | one duplicate reopens an order that has ended |
| `SagaOversell` | no oversell (`src/README.md:53`) | the cancel of a refused order returns other orders' units |

Other places where the repository and the code differ. The passing properties are
stated around them, with what makes the difference named in their premises:

* `src/README.md:53` says that the optimistic lock keeps the stock consistent;
  `SetInventory` saves the row it read over a deduction it did not
  (`clobbered` in `Inventory`).
* The design document (line 323) deletes the idempotency key to allow a retry; the
  unique index on user and product refuses the retried order.
* `src/README.md:322` pushes events in `created_at` order; commits in another order,
  failures and stale queries break it (`InOrderUnlessFault`).
* `src/README.md:65` and `:330` have a service deregister when it closes. The
  deferred call does not run: `main` ends by a signal or `log.Fatalf`, so
  `Gateway` has no such action, and an instance is listed until Nacos misses its
  heartbeats.
* `cmd/gateway/main.go:84` logs a fallback to DNS when there is no Nacos client; the
  pools stay empty and every request is answered 502 (`gate = "alone"`).
* `UpdateProfileRequest` has a phone number that `UpdateProfile` ignores, and two
  equal updates of one user end with "email already exists" for the second, if
  the replica catches up in between: `ConflictIsReal` allows that case.

**Why the bounds are enough to see the interesting cases.** Three orders are the
least at which one is refused while two others hold stock, and an order of two
units meets stock it cannot split; with two units, the cancel of a refused order lets
all of the stock and one unit more be sold, the bound of `OversellCovered`. One loss can stop any order at any stage.
`SagaLive` has one order because orders share nothing but stock, and liveness
does not depend on who gets it; two duplicates let a duplicate be duplicated.
In `Inventory` three other updates can hit one Deduct, its number of attempts.
In `Seckill` the stock serves two requests of one user or the one of the other.
Two events are enough for every relation of order in `Outbox`. In `Snowflake` five
numbers, two to a millisecond, fill a millisecond, spin into the next, and leave
one for a restarted process or for the other one; a clock up to three can go ahead,
back and ahead again. In `Gateway` two instances let a list lose one and keep one;
two faults can lose a push and refuse the poll that would repair it, or stop a
process and refuse its registration; one slot is enough because a half-open
breaker has one probe; two slots with one fault pass the same run. In `Users` four requests are two registrations and two updates
of one account, or a registration that races an update for an email; the third
email gives an account two emails that are not the other's. Deadlock is not
checked: each instance makes a bounded number of requests and then rests.

**Mutants.** Each property is paired in `PROJECT.json` with a mutant of one
definition (a dropped guard, a missing rollback, an early offset commit, ...)
that stands next to the definition in its module, and violates the property.

**Fairness.**

* `Saga`: the relay (a ticker that runs until the process ends, `Relay.Start`)
  and the handlers (`Consumer.Start` consumes again after every error) are
  weakly fair, and Redis expires keys. Nobody must place an order; a request
  may die before it sets PENDING.
* `Outbox`: relay, replication, consumer. Commits, offset commits and faults
  are not fair.
* `Gateway`: `main`, the callback, the poll loop's ticker and the goroutine of an
  admitted request go on; a booted process gets to listen; Nacos forgets a dead
  one. A poll may fail as often as the budget allows, not for ever. That an
  admitted request ends is owed to nginx, which gives up on the gateway after its
  default read timeout; the proxy itself sets none. Nobody need register, stop
  or send a request.
* `Seckill`, `SyncOrders`, `ProductCache`: a request that has
  begun takes its next step (or dies, where that is modelled); it must not
  arrive. Locks are released by the steps of their holders, so weak fairness is
  enough.
* `Inventory`, `Snowflake`, `Users` state safety only and assume no fairness.

## 4. What is proved

All theorems hold for every value of the constants that satisfies the assumptions of
the module: any finite set of orders, calls or users, any quantities, any stock, any
instances, names, widths and bounds. Eight theorems about the saga assume `MaxDup =
0`, which is what `SagaStateMachineDup` shows to be necessary; they allow any number
of losses and refused deductions.

| theorem | assumes | says |
|---|---|---|
| `TypeCorrect`, `StockConservation` | - | types; `available + locked + sold = Total`, duplicates included |
| `ChargesArePaid`, `PaidWasCharged` | - | `ChargedPerCopy`; a paid order was charged, duplicates included |
| `OrderInvariant` | no duplicates | `[]OrderInv` |
| `PaidMeansCharged`, `ResultIsSound` | no duplicates | `PaidIsCharged`, `ResultSound` |
| `StatusFollowsStateMachine` | no duplicates | the action property `StateMachine` |
| `SagaImplementsOrderFlow` | no duplicates | `Spec => FlowSafe` |
| `SagaInvariant`, `HeldStockIsCovered`, `OversellIsCovered` | no duplicates | `SagaInv`, `HeldIsCovered`, `OversellCovered` |
| `OutboxInvariant`, `OutboxTypeCorrect`, `MarkedRowsArePublished`, `ConsumerSkipsNothing` | - | `OutboxInv`; types, `SentIsPublished`, and that the group's position never passes a message that was not handled |
| `DeliveryInvariant`, `DuplicatesArePaid`, `PublishesInOrder` | - | `DeliveryInv`; `DuplicatesPaid`, `InOrderUnlessFault` |
| `OutboxImplementsChannel` | - | `Spec => ChannelSafe` |
| `InventoryInvariant`, `InventoryTypeCorrect`, `GrantsAccounted`, `RowAddsUp`, `RefusedUnderContention` | finitely many calls | `InventoryInv`; `TypeOK`, `LockedAccountedUnlessClobbered`, `RowAddsUpUnlessClobbered`, `RefusedOnlyUnderContention` |
| `SeckillInvariant`, `SeckillTypeCorrect`, `CounterBalances`, `NothingOverAdmitted`, `AdmittedAlone` | finitely many requests | `SeckillInv`; `TypeOK`, `StockBalanced`, `NeverOverAdmitted`, `OneAtATime` |
| `SnowflakeTypeCorrect`, `SnowflakeInvariant`, `NumbersGrow`, `NumbersUnique` | node ids differ | `SnowflakeInv`; the numbers of a node grow; `UniqueUnlessSetBack` |
| `GatewayTypeCorrect`, `GatewayInvariant`, `PoolFreshOnceTold` | - | `GatewayInv`, `FreshOnceTold` |
| `UsersInvariant`, `UsersTypeCorrect`, `OwnersAreKept`, `EmailsAreKept`, `ConflictsAreReal` | - | `UsersInv`; `AccountKept`, `EmailKeptUnlessReverted`, `ConflictIsReal` |
| `SyncInvariant`, `SyncTypeCorrect`, `TransactionsExclude`, `StockIsHeld`, `KeysAreExplained` | finitely many users | `SyncInv`; types; no two transactions between reading and writing the same row; `StockHeld`, `KeyExplained` |
| `ProductInvariant`, `ProductTypeCorrect`, `CacheCoherent`, `NoUpdateLost` | - | `ProductInv`; types, `Coherent`, `UpdatesKept` |

**The argument for the saga.** None of the properties is inductive alone: a handler
never tests the status it overwrites, so nothing in a handler stops it from moving an
order wrongly. What does is `OneEvent`: of all the events of an order, outbox and
topic together hold one copy at most, and it is the event that fits the order's
phase. `Charged` and `Stocked` tie the phase to payment rows and held units, `Told`
ties the poll key to the row; `OrderInv` is their conjunction over orders. Every
handler takes the one event away and writes the next one with the phase it belongs
to; `SendAndMark` moves the event without changing the sum; `LoseEvent` only removes.
The proof has one lemma for each of these patterns and one step per action.
`StockInv` then adds the row as a sum over orders, with `Units` and the cardinality
theorems of the library instead of a recursive sum. A `ReturnStock` of a refused
order takes units that others hold out of `locked`, but its own quantity at most and,
as its ORDER_CANCELLED is delivered once, only once: so `locked` lags behind what is
held by the units of `Returned` at most (`HeldIsCovered`), which `ReturnedGrows` says
never shrinks. `OversellCovered` follows with `StockConserved`: the oversell that
`SagaOversell` shows is never more than what refused orders have returned, and
without a refusal there is none. The refinement step follows from `OrderInv` in the
first state: the event that is consumed tells the phase, and the phase with the step
is in `Steps`.

*With duplicates* most of this fails (`SagaStateMachineDup`), but not everything.
`ChargeInv` counts, for each order, its charges and the events that still lead to one:
a handler replaces an event by another or by a charge, the relay and a lost event
add nothing, and whatever is sent or delivered twice adds one and is counted in `dups`.

**The argument for the outbox.** `OutboxInv` says that what the relay holds has
been committed, what it is about to mark is in the log, and that the group's
position never passes what has been handled, in spite of being set back to the
committed offset.

*Duplicates.* A query can hand the relay an event that is in the log in two ways
only: after a fault that came between publishing and marking, or through a replica
that has not seen the mark. `Paid` therefore counts the copies of every event against
the faults and stale queries so far, with one less allowed while the relay may
publish the event once more without anything going wrong (`Again`: it is not marked,
nor about to be, or it waits in the batch). Copies are counted as positions of the
log, so that the lemmas (`CountAppend`, `CountNext`, `CountBack`) need no induction
over it.

*Order.* While nothing fails the relay publishes its batch from the oldest row on.
`OldestFirst` says that every row older than one of the batch is in the batch or in
the log; a prefix of the table seen by a stale query has that too, if transactions
commit in the order of creation (`CommittedInOrder`), the premise of
`InOrderUnlessFault`: then whatever is committed later is younger.

*Refinement.* The mapping is a count, and each step is one of the bag's: a commit
writes, publishing sends or repeats, handling delivers, setting the position back
repeats. Marking, copying to the replica and committing offsets change nothing
there. That a step back only repeats what has been delivered is `NothingSkipped`.

**The argument for the inventory row.** Units are counted one by one, as pairs of a
call and a number up to its amount, so that a call which succeeds adds exactly
its amount (`UnitsAdd`, from the cardinality theorems) and no sum is needed.
`AccountedOk` then says once, for every successful statement, that `locked` moves
by what the call is counted for. `Existing` and `Blank` are needed because
`SetInventory` may insert the row late: before that nothing can have been
deducted, so the new row may start at zero. A `Save` that overwrote nothing has
seen the present row, and is then an update like any other. `TriesLeft` gives the
retry loop its end. A refusal is paid for by others (`LostToOthers`): for every attempt
that a Deduct has lost another call has succeeded, and one call more if the row has
already moved away from the one it has read. The row that failed the version
check is a different row, because the one that was read had units enough; so the
attempt under way is charged to a call that no earlier attempt was charged to.

**The argument for the fast path.** `Balance` counts the units of the requests that
hold some (`Held`): those between DECRBY and INCRBY and the creators of live
orders. Faults only make the counter too small, so in their presence it stays at
most the opening stock less what is held, and exactly that without them. It may be
negative for a while, so `NeverOverAdmitted` needs a second count of those who were
admitted by a counter that was not (`Kept`). `Created` keeps the two kinds of holders
apart: unless a commit was taken for a failure, the creator of an order gives up
nothing. For the key, `Exclusive` adds to `OneAtATime` that an admitted request
has the key of its user, and that an order which is open or being compensated
keeps everyone else from it; that is why none of the three places that delete
the key (giving up, compensating, expiring) can delete one that is in use.

**The argument for order numbers.** `Covered` says that all a node has given out
lies before its timestamp and sequence, or, after a restart, before its clock;
each branch of `Generate` then issues a later id. `Digits`, by induction-free
arithmetic, turns earlier into smaller and different nodes into different
numbers.

**The argument for the pool.** The pool is compared with Nacos' list only when no
push is pending, so the invariant follows the newest information instead: if the
gateway has been told of the latest change, the last pushed list is Nacos' list,
or the pool is, when there is none; and a poll's answer is Nacos' list until it
is marked old.

**The argument for accounts.** `Owned` says that between any two states of the table
an account neither disappears nor changes hands; the row an update is about to
save is one of those states, however old, so saving it changes no owner. The unique
index on the name is what an insert needs. `ConflictIsReal` follows because the
replica is one of the states too, and a row of the account's own that holds the
email must be younger than the one the update read.

**The argument for the synchronous orders.** The stock is not held by the code of a
single transaction but by its locks: `InventoryLocked` and `OrderLocked` say that whoever
is between reading and writing a row has its lock, and that what it has read is still
there; `Roles` that a create is never in the code of a cancel. With them each
transaction moves the row and the set of pending orders together (`DeductStep`,
`InsertStep`, `ReturnStep`), or gives back what it has taken (`DieStep`). The units are
counted as in the inventory row. `KeyExplained` needs no strengthening but the roles.

**The argument for the cache.** `Coherent` allows a stale entry after what cache-aside is
not proof against (`errors`, `raced`, `created`), or while a writer is about to drop it.
`FlightFresh` says that a fill under way carries the present row unless it was raced;
`Carried` that an update about to save holds a row which the primary has had, and where
in the history it stood, so that saving over the present one changes a single field.
`Coherent` and `UpdatesKept` are inductive with these two.

**Only model-checked:** the liveness properties, which need fairness and `ENABLED`, out
of the prover's reach: `Settles`, `ResultAgrees`, `AtLeastOnce`, `EventuallyFresh`,
`EveryGetAnswers`, `EveryRequestEnds`, `PoolSettles`, `HalfOpenEnds`, `NotLockedOut`. Every
safety property that a passing run checks is also a theorem.

## 5. Not modelled

* Configuration, connections, responses, logging and static assets: no logic of
  the system. Reading a configuration file is done once, before anything starts.
* In the gateway: which prefix goes to which service, the flow rules and the breaker's
  thresholds (a library's; the modelled breaker may open at any error, which includes
  every opening that a threshold makes).
* `Deregister`, which no execution reaches after `Register` (see above), and
  `Client.Close`.
* The configuration half of Nacos carries one value, payment's success rate. `Pay`
  draws either outcome at every rate. `SetSuccessRate` clamps below 0 and above 1,
  but a NaN passes both comparisons and makes every payment fail.
* `GetProfile`, lists and other plain reads; the authentication middleware, which
  checks a token without state.
* The monolith's consumers of saga events, which would need the other services'
  topics.

## 6. Plan

Done: all modules of section 2, the two refinements, and every safety property of the
runs as a theorem. Next:

1. An abstract inventory row with atomic calls, which `Inventory` implements as long as
   `SetInventory` overwrites nothing; `Saga` then rests on a checked relation there too.
2. The seckill key and counter seen from `Saga`: which of the fast path's promises the
   compensation in `StockDeductFailed` and `PaymentFailed` needs.
