-------------------------------- MODULE Saga --------------------------------
(***************************************************************************)
(* The order saga of one product in the microservice deployment            *)
(* (order-service, inventory-service and payment-service, each with its    *)
(* own database and outbox), from the commit of the seckill request to the *)
(* last inventory update.                                                  *)
(*                                                                         *)
(* An element of Orders is the one order that a user can hold for the      *)
(* product: orders carry a unique index on (user_id, product_id).          *)
(*                                                                         *)
(* An event travels  transaction -> outbox row -> Kafka topic -> handler.  *)
(* outbox and topic count the copies of each event that are unsent, and    *)
(* sent but not yet consumed by the one group that acts on that type.  The *)
(* channel is a bag: the relay skips an event it fails to send, so it may  *)
(* reorder.  Sending is at least once (a failed "mark sent", or a query of *)
(* a replica that lags, sends again), and so is consuming (an offset lost  *)
(* in a crash delivers again); both draw on MaxDup, and Outbox models them *)
(* in detail.  Handlers answer nil to every error and the consumer marks   *)
(* every message, so a handler whose read or transaction fails loses the   *)
(* event: that draws on MaxLoss.                                           *)
(***************************************************************************)
EXTENDS Integers, FiniteSets

CONSTANTS Orders,       \* the orders that can be placed
          Quantity,     \* units each order asks for
          Total,        \* units the inventory row starts with
          MaxDup,       \* bound on events sent twice or delivered twice
          MaxLoss,      \* bound on events lost by a failing handler
          MaxConflict   \* bound on Deduct calls that give up after 3 retries

ASSUME OrdersAssumption   == IsFiniteSet(Orders)
ASSUME QuantityAssumption == Quantity \in [Orders -> Nat \ {0}]
ASSUME TotalAssumption    == Total \in Nat
ASSUME BoundsAssumption   == /\ MaxDup \in Nat
                             /\ MaxLoss \in Nat
                             /\ MaxConflict \in Nat

VARIABLES
  orders,      \* order-service DB: status of each order row, "none" if no row
  available,   \* inventory-service DB: units that can still be deducted
  locked,      \* inventory-service DB: units deducted and not yet settled
  payments,    \* payment-service DB: payment rows per order and outcome
  outbox,      \* unsent outbox rows of the three databases
  topic,       \* events in Kafka not yet consumed
  result,      \* Redis: seckill:result:<order>, "none" if the key is absent
  unanswered,  \* orders whose seckill request has committed, not yet SET PENDING
  sold,        \* history: units that ConfirmDeduction has taken out of locked
  held,        \* history: orders whose deduction is committed and not settled
  rejected,    \* history: orders whose deduction was ever refused
  dups, losses, conflicts     \* how much of the three budgets is used

rowVars    == <<orders, available, locked, payments>>
historyVars == <<sold, held, rejected>>
budgetVars == <<dups, losses, conflicts>>
vars == <<orders, available, locked, payments, outbox, topic, result,
          unanswered, sold, held, rejected, dups, losses, conflicts>>

Statuses == {"none", "pending", "awaiting", "paid", "cancelled"}
Outcomes == {"success", "failed"}
Results  == {"none", "PENDING", "SUCCESS", "FAILED"}

EventTypes == {"ORDER_CREATED", "STOCK_DEDUCTED", "STOCK_DEDUCT_FAILED",
               "PAYMENT_REQUESTED", "PAYMENT_SUCCESS", "PAYMENT_FAILED",
               "ORDER_COMPLETED", "ORDER_CANCELLED"}
Events == Orders \X EventTypes

-----------------------------------------------------------------------------
(* The channel *)

\* A transaction inserts an outbox row next to its business rows.
WriteEvent(o, type) == outbox' = [outbox EXCEPT ![<<o, type>>] = @ + 1]

\* Mutant of Deliver: the offset is never committed.
DeliverUncommitted(o, type) == topic[<<o, type>>] > 0 /\ UNCHANGED <<topic, dups>>

\* The message is handled and its offset is committed.
Deliver(o, type) == /\ topic[<<o, type>>] > 0
                    /\ topic' = [topic EXCEPT ![<<o, type>>] = @ - 1]
                    /\ UNCHANGED dups

\* The message is handled, but the process dies before the offset is
\* committed: Kafka will deliver it again.
DeliverAgain(o, type) == /\ topic[<<o, type>>] > 0
                         /\ dups < MaxDup
                         /\ dups' = dups + 1
                         /\ UNCHANGED topic

Consume(o, type) == Deliver(o, type) \/ DeliverAgain(o, type)

\* Mutant of SendAndMark: the row is never marked.
SendUnmarked(o, type) ==
  /\ outbox[<<o, type>>] > 0
  /\ topic' = [topic EXCEPT ![<<o, type>>] = @ + 1]
  /\ UNCHANGED <<rowVars, outbox, result, unanswered, historyVars, budgetVars>>

\* The relay publishes an unsent row and marks it.
SendAndMark(o, type) ==
  /\ outbox[<<o, type>>] > 0
  /\ outbox' = [outbox EXCEPT ![<<o, type>>] = @ - 1]
  /\ topic' = [topic EXCEPT ![<<o, type>>] = @ + 1]
  /\ UNCHANGED <<rowVars, result, unanswered, historyVars, budgetVars>>

\* The relay publishes a row but the update that marks it sent fails, or a later
\* tick does not see it: the row is published again.
SendMarkFails(o, type) ==
  /\ outbox[<<o, type>>] > 0
  /\ dups < MaxDup
  /\ dups' = dups + 1
  /\ topic' = [topic EXCEPT ![<<o, type>>] = @ + 1]
  /\ UNCHANGED <<rowVars, outbox, result, unanswered, historyVars,
                 losses, conflicts>>

Relay(o, type) == SendAndMark(o, type) \/ SendMarkFails(o, type)

\* A handler reads the order from a replica that lags, or its transaction
\* fails: it logs, returns nil, and the message is marked all the same.
LoseEvent(o, type) ==
  /\ losses < MaxLoss
  /\ losses' = losses + 1
  /\ topic[<<o, type>>] > 0
  /\ topic' = [topic EXCEPT ![<<o, type>>] = @ - 1]
  /\ UNCHANGED <<rowVars, outbox, result, unanswered, historyVars,
                 dups, conflicts>>

-----------------------------------------------------------------------------
(* order-service: the seckill request and the poll key in Redis *)

\* Redis errors are ignored, and a process may die before the command: the
\* key takes the new value or keeps the old one.
SetResult(o, value) == result' \in {result, [result EXCEPT ![o] = value]}

\* Seckill's transaction: the order row and ORDER_CREATED.
PlaceOrder(o) ==
  /\ orders[o] = "none"
  /\ orders' = [orders EXCEPT ![o] = "pending"]
  /\ WriteEvent(o, "ORDER_CREATED")
  /\ unanswered' = unanswered \union {o}
  /\ UNCHANGED <<available, locked, payments, topic, result, historyVars,
                 budgetVars>>

\* The rest of Seckill: the request sets PENDING after the commit, whatever
\* the saga has done meanwhile, and answers its client.
AnswerPending(o) ==
  /\ o \in unanswered
  /\ unanswered' = unanswered \ {o}
  /\ SetResult(o, "PENDING")
  /\ UNCHANGED <<rowVars, outbox, topic, historyVars, budgetVars>>

\* Mutant of PendingExpires: PENDING is set without a TTL.
PendingStays(o) == result[o] = "none" /\ UNCHANGED vars

\* PENDING is set with a TTL of 30 minutes; SUCCESS and FAILED have none.
PendingExpires(o) ==
  /\ result[o] = "PENDING"
  /\ result' = [result EXCEPT ![o] = "none"]
  /\ UNCHANGED <<rowVars, outbox, topic, unanswered, historyVars, budgetVars>>

-----------------------------------------------------------------------------
(* inventory-service: handlers of order-events *)

\* Mutant of DeductStock: the update does not ask for enough stock.
DeductUnguarded(o) ==
  /\ Consume(o, "ORDER_CREATED")
  /\ available' = available - Quantity[o]
  /\ locked' = locked + Quantity[o]
  /\ held' = held \union {o}
  /\ WriteEvent(o, "STOCK_DEDUCTED")
  /\ UNCHANGED <<orders, payments, result, unanswered, sold, rejected,
                 losses, conflicts>>

\* ORDER_CREATED, Deduct succeeds: units move from available to locked and
\* STOCK_DEDUCTED is written in the same transaction.
DeductStock(o) ==
  /\ Consume(o, "ORDER_CREATED")
  /\ available >= Quantity[o]
  /\ available' = available - Quantity[o]
  /\ locked' = locked + Quantity[o]
  /\ held' = held \union {o}
  /\ WriteEvent(o, "STOCK_DEDUCTED")
  /\ UNCHANGED <<orders, payments, result, unanswered, sold, rejected,
                 losses, conflicts>>

\* ORDER_CREATED, Deduct answers insufficient: STOCK_DEDUCT_FAILED is written.
RefuseStock(o) ==
  /\ WriteEvent(o, "STOCK_DEDUCT_FAILED")
  /\ rejected' = rejected \union {o}
  /\ UNCHANGED <<rowVars, result, unanswered, sold, held, losses>>

\* ... because there is not enough stock,
StockInsufficient(o) ==
  /\ Consume(o, "ORDER_CREATED")
  /\ available < Quantity[o]
  /\ UNCHANGED conflicts
  /\ RefuseStock(o)

\* ... or because three optimistic updates in a row lost to other updates:
\* exhausting the retries is answered with the same error.
RetriesExhausted(o) ==
  /\ Consume(o, "ORDER_CREATED")
  /\ available >= Quantity[o]
  /\ conflicts < MaxConflict
  /\ conflicts' = conflicts + 1
  /\ RefuseStock(o)

\* ORDER_COMPLETED: ConfirmDeduction takes the units out of locked when locked
\* covers them; otherwise its error is only logged.
ConfirmDeduction(o) ==
  /\ Consume(o, "ORDER_COMPLETED")
  /\ IF locked >= Quantity[o]
       THEN /\ locked' = locked - Quantity[o]
            /\ sold' = sold + Quantity[o]
            /\ held' = held \ {o}
       ELSE UNCHANGED <<locked, sold, held>>
  /\ UNCHANGED <<orders, available, payments, outbox, result, unanswered,
                 rejected, losses, conflicts>>

\* Mutant of ReturnStock: the update brings locked down to 0 at least.
ReturnClamped(o) ==
  /\ Consume(o, "ORDER_CANCELLED")
  /\ locked' = IF locked < Quantity[o] THEN 0 ELSE locked - Quantity[o]
  /\ available' = available + Quantity[o]
  /\ held' = held \ {o}
  /\ UNCHANGED <<orders, payments, outbox, result, unanswered, sold,
                 rejected, losses, conflicts>>

\* ORDER_CANCELLED: Return moves the units back when locked covers them,
\* without asking whether this order's deduction ever succeeded.
ReturnStock(o) ==
  /\ Consume(o, "ORDER_CANCELLED")
  /\ IF locked >= Quantity[o]
       THEN /\ locked' = locked - Quantity[o]
            /\ available' = available + Quantity[o]
            /\ held' = held \ {o}
       ELSE UNCHANGED <<locked, available, held>>
  /\ UNCHANGED <<orders, payments, outbox, result, unanswered, sold,
                 rejected, losses, conflicts>>

-----------------------------------------------------------------------------
(* payment-service: the handler of PAYMENT_REQUESTED *)

\* Mutants of Pay: the event does not depend on the outcome, or a failure
\* writes no event.
PayAlwaysSucceeds(o, outcome) ==
  /\ Consume(o, "PAYMENT_REQUESTED")
  /\ payments' = [payments EXCEPT ![o][outcome] = @ + 1]
  /\ WriteEvent(o, "PAYMENT_SUCCESS")
  /\ UNCHANGED <<orders, available, locked, result, unanswered, historyVars,
                 losses, conflicts>>

PayFailsSilently(o, outcome) ==
  /\ Consume(o, "PAYMENT_REQUESTED")
  /\ payments' = [payments EXCEPT ![o][outcome] = @ + 1]
  /\ IF outcome = "success" THEN WriteEvent(o, "PAYMENT_SUCCESS")
                            ELSE UNCHANGED outbox
  /\ UNCHANGED <<orders, available, locked, result, unanswered, historyVars,
                 losses, conflicts>>

\* A random outcome; the payment row and its event commit together.  The
\* order number is not unique among payment rows.
Pay(o, outcome) ==
  /\ Consume(o, "PAYMENT_REQUESTED")
  /\ payments' = [payments EXCEPT ![o][outcome] = @ + 1]
  /\ WriteEvent(o, IF outcome = "success" THEN "PAYMENT_SUCCESS"
                                          ELSE "PAYMENT_FAILED")
  /\ UNCHANGED <<orders, available, locked, result, unanswered, historyVars,
                 losses, conflicts>>

-----------------------------------------------------------------------------
(* order-service: handlers of inventory-events and payment-events.  They   *)
(* update the row by order number and never look at its present status.    *)

\* Consume an event, update the row and write the next event in one
\* transaction.  The row is there: PlaceOrder wrote it before any event.
AdvanceOrder(o, consumed, status, produced) ==
  /\ Consume(o, consumed)
  /\ orders' = [orders EXCEPT ![o] = status]
  /\ WriteEvent(o, produced)
  /\ UNCHANGED <<available, locked, payments, unanswered, historyVars,
                 losses, conflicts>>

StockDeducted(o) ==
  /\ AdvanceOrder(o, "STOCK_DEDUCTED", "awaiting", "PAYMENT_REQUESTED")
  /\ UNCHANGED result

StockDeductFailed(o) ==
  /\ AdvanceOrder(o, "STOCK_DEDUCT_FAILED", "cancelled", "ORDER_CANCELLED")
  /\ SetResult(o, "FAILED")

PaymentSuccess(o) ==
  /\ AdvanceOrder(o, "PAYMENT_SUCCESS", "paid", "ORDER_COMPLETED")
  /\ SetResult(o, "SUCCESS")

\* Mutants of PaymentFailed: the order is reopened, or the user is told of a
\* success.
PaymentFailedReopens(o) ==
  /\ AdvanceOrder(o, "PAYMENT_FAILED", "pending", "ORDER_CREATED")
  /\ UNCHANGED result

PaymentFailedTellsSuccess(o) ==
  /\ AdvanceOrder(o, "PAYMENT_FAILED", "cancelled", "ORDER_CANCELLED")
  /\ SetResult(o, "SUCCESS")

PaymentFailed(o) ==
  /\ AdvanceOrder(o, "PAYMENT_FAILED", "cancelled", "ORDER_CANCELLED")
  /\ SetResult(o, "FAILED")

-----------------------------------------------------------------------------
Init ==
  /\ orders = [o \in Orders |-> "none"]
  /\ available = Total
  /\ locked = 0
  /\ payments = [o \in Orders |-> [r \in Outcomes |-> 0]]
  /\ outbox = [e \in Events |-> 0]
  /\ topic = [e \in Events |-> 0]
  /\ result = [o \in Orders |-> "none"]
  /\ unanswered = {}
  /\ sold = 0
  /\ held = {}
  /\ rejected = {}
  /\ dups = 0
  /\ losses = 0
  /\ conflicts = 0

RelayOrder(o) == \E type \in EventTypes : Relay(o, type)

Handle(o) == \/ DeductStock(o) \/ StockInsufficient(o) \/ RetriesExhausted(o)
             \/ ConfirmDeduction(o) \/ ReturnStock(o)
             \/ \E outcome \in Outcomes : Pay(o, outcome)
             \/ StockDeducted(o) \/ StockDeductFailed(o)
             \/ PaymentSuccess(o) \/ PaymentFailed(o)

Lose(o) == \E type \in EventTypes : LoseEvent(o, type)

Next == \E o \in Orders : \/ PlaceOrder(o) \/ AnswerPending(o)
                          \/ PendingExpires(o)
                          \/ RelayOrder(o) \/ Handle(o) \/ Lose(o)

Spec == Init /\ [][Next]_vars

\* The relay ticks for ever, the consumer groups keep consuming, and Redis
\* removes a key whose TTL has run out.  Nobody is forced to place an order,
\* and a request may die before it sets PENDING.
Fairness == \A o \in Orders : /\ WF_vars(RelayOrder(o))
                              /\ WF_vars(Handle(o))
                              /\ WF_vars(PendingExpires(o))

FairSpec == Spec /\ Fairness

-----------------------------------------------------------------------------
(* Properties *)

TypeOK ==
  /\ orders \in [Orders -> Statuses]
  /\ available \in Nat
  /\ locked \in Nat
  /\ payments \in [Orders -> [Outcomes -> Nat]]
  /\ outbox \in [Events -> Nat]
  /\ topic \in [Events -> Nat]
  /\ result \in [Orders -> Results]
  /\ unanswered \in SUBSET Orders
  /\ sold \in Nat
  /\ held \in SUBSET Orders
  /\ rejected \in SUBSET Orders
  /\ dups \in 0..MaxDup
  /\ losses \in 0..MaxLoss
  /\ conflicts \in 0..MaxConflict

\* The inventory row's guarded updates (DeductWithLock, ReturnStock,
\* ConfirmDeduction) create and destroy no unit, however often an event is
\* delivered and whatever compensation runs: available + locked + sold is
\* what the row started with.
StockConserved == available + locked + sold = Total

\* The order status only moves along the state machine of the statuses in
\* internal/order/model.go, although the handlers never test the status they
\* overwrite.
Transitions == {<<"none", "pending">>, <<"pending", "awaiting">>,
                <<"pending", "cancelled">>, <<"awaiting", "paid">>,
                <<"awaiting", "cancelled">>}

StateMachine ==
  [][\A o \in Orders : orders'[o] # orders[o]
                          => <<orders[o], orders'[o]>> \in Transitions]_orders

\* payment-service takes no note of the orders it has charged, yet an order is
\* charged once, and once more at most for each event sent or delivered twice.
ChargedPerCopy ==
  \A o \in Orders : payments[o]["success"] + payments[o]["failed"] <= 1 + dups

\* order-service and payment-service, which share no database, agree on who
\* paid: a paid order was charged, and a cancelled one never was.
PaidIsCharged == \A o \in Orders :
                    /\ orders[o] = "paid" => payments[o]["success"] > 0
                    /\ orders[o] = "cancelled" => payments[o]["success"] = 0

\* The units of a set of orders, one by one.
Units(S) == UNION {{o} \X (1..Quantity[o]) : o \in S}

InFlight(o, type) == outbox[<<o, type>>] + topic[<<o, type>>]

\* The refused orders whose ORDER_CANCELLED has been handled or lost: ReturnStock
\* may have given back units for them that they never held.
Returned == {o \in rejected : /\ orders[o] = "cancelled"
                              /\ InFlight(o, "ORDER_CANCELLED") = 0}

\* What the inventory row calls locked is what the orders in flight hold, whichever
\* of them are lost or compensated: a refused order takes away its own quantity at
\* most, and only once.
HeldIsCovered ==
  /\ locked <= Cardinality(Units(held))
  /\ Cardinality(Units(held)) <= locked + Cardinality(Units(Returned))

\* No oversell: the units of the paid orders fit in the stock.
PaidUnits == Cardinality(Units({o \in Orders : orders[o] = "paid"}))

NoOversell == PaidUnits <= Total

\* ... which the code guarantees but for the units that were returned by orders
\* whose deduction was refused.
OversellCovered == PaidUnits <= Total + Cardinality(Units(Returned))

\* GetSeckillResult: the Redis key first, then the order row.
GetSeckillResult(o) ==
  CASE result[o] # "none"       -> result[o]
    [] result[o] = "none" /\ orders[o] = "paid"      -> "SUCCESS"
    [] result[o] = "none" /\ orders[o] = "cancelled" -> "FAILED"
    [] OTHER                    -> "PENDING"

\* The poll endpoint may be late, but it never announces an end that the
\* order row has not reached.
ResultSound == \A o \in Orders :
                  /\ GetSeckillResult(o) = "SUCCESS" => orders[o] = "paid"
                  /\ GetSeckillResult(o) = "FAILED" => orders[o] = "cancelled"

\* With or without duplicates, as long as no event is lost, every placed order
\* ends up paid or cancelled for good.
Settles == \A o \in Orders :
              orders[o] # "none" ~> [](orders[o] \in {"paid", "cancelled"})

\* As long as nothing is duplicated or lost, the poll endpoint ends up telling
\* how the order ended, for ever, although a late SET PENDING may overwrite
\* SUCCESS or FAILED: its TTL gives way to the order row.
ResultAgrees ==
  [](dups = 0) => \A o \in Orders :
    /\ orders[o] = "paid" ~> [](GetSeckillResult(o) = "SUCCESS")
    /\ orders[o] = "cancelled" ~> [](GetSeckillResult(o) = "FAILED")

-----------------------------------------------------------------------------
(* The three databases, read together, are at one phase of OrderFlow. *)

PhaseOf(o) ==
  CASE orders[o] = "pending"  -> IF o \in rejected THEN "refused"
                                 ELSE IF o \in held THEN "reserved"
                                 ELSE "accepted"
    [] orders[o] = "awaiting" -> IF payments[o]["success"] > 0 THEN "charged"
                                 ELSE IF payments[o]["failed"] > 0
                                 THEN "declined" ELSE "payable"
    [] OTHER                  -> orders[o]

Flow == INSTANCE OrderFlow WITH phase <- [o \in Orders |-> PhaseOf(o)]

\* Without duplicates the saga implements the sequential order flow: every
\* step of a service is a step of one order or invisible.
FlowSafe == Flow!Spec

-----------------------------------------------------------------------------
(* Why it works without duplicates: the inductive invariant.  Each phase has *)
(* one event that moves the order on, and at most one copy of it exists.     *)

PhaseWith == [ORDER_CREATED     |-> "accepted", STOCK_DEDUCTED  |-> "reserved",
              STOCK_DEDUCT_FAILED |-> "refused",
              PAYMENT_REQUESTED |-> "payable",  PAYMENT_SUCCESS |-> "charged",
              PAYMENT_FAILED    |-> "declined", ORDER_COMPLETED |-> "paid",
              ORDER_CANCELLED   |-> "cancelled"]

\* An event in flight is the only one of its order and fits the order's phase,
\* which is why no handler needs to look at the status it overwrites.
OneEvent(o) == \A type \in EventTypes :
                  /\ InFlight(o, type) <= 1
                  /\ InFlight(o, type) > 0 => PhaseOf(o) = PhaseWith[type]

\* The payment rows that go with each status.
Charged(o) ==
  LET success == payments[o]["success"]
      failed  == payments[o]["failed"]
  IN  /\ orders[o] \in {"none", "pending"} => success = 0 /\ failed = 0
      /\ orders[o] = "awaiting" => success + failed <= 1
      /\ orders[o] = "paid" => success = 1 /\ failed = 0
      /\ orders[o] = "cancelled" => success = 0 /\ failed <= 1

\* Where the order's units are.
Stocked(o) ==
  /\ o \in held => orders[o] # "none" /\ o \notin rejected
  /\ o \in rejected => orders[o] \in {"pending", "cancelled"}
  /\ orders[o] = "awaiting" => o \in held
  /\ InFlight(o, "ORDER_COMPLETED") > 0 => o \in held
  /\ InFlight(o, "ORDER_CANCELLED") > 0 /\ o \notin rejected => o \in held

Told(o) == /\ result[o] = "SUCCESS" => orders[o] = "paid"
           /\ result[o] = "FAILED" => orders[o] = "cancelled"

OrderOK(o) == OneEvent(o) /\ Charged(o) /\ Stocked(o) /\ Told(o)

OrderInv == \A o \in Orders : OrderOK(o)

Confirmed == {o \in Orders : orders[o] = "paid"} \ held

\* The inventory row counts the units of the orders that hold stock and of those
\* that were confirmed.
StockInv == HeldIsCovered /\ sold = Cardinality(Units(Confirmed))

SagaInv == TypeOK /\ OrderInv /\ StockInv

=============================================================================
