------------------------------ MODULE Seckill ------------------------------
(***************************************************************************)
(* The seckill fast path of one product, command by command: the           *)
(* idempotency key and the stock counter in Redis, the unique index of the *)
(* orders table, and the compensation that inventory-service runs in Redis *)
(* when the saga cancels an order.  The rest of the saga is in Saga: here  *)
(* an order is open until the saga has paid or cancelled it.               *)
(*                                                                         *)
(* A step is one Redis command or one database transaction of one request. *)
(* Redis errors that the code ignores, or answers by giving up, and the    *)
(* death of the process between two commands draw on the budget MaxFault.  *)
(* Giving back units once too often, because ORDER_CANCELLED is delivered  *)
(* again or a commit is taken for a failure, draws on MaxExcess.           *)
(***************************************************************************)
EXTENDS Integers, FiniteSets

CONSTANTS Users,
          Requests,    \* POST /seckill requests, each made once
          Owner,       \* the user of each request
          Want,        \* the quantity of each request
          None,        \* no request: the user has no order row
          RedisStock,  \* inventory:stock:<product> when the sale opens
          MaxFault,    \* bound on Redis errors, failed transactions and deaths
          MaxExcess    \* bound on compensations that should not run

ASSUME RequestsAssumption == IsFiniteSet(Requests)
ASSUME OwnerAssumption    == Owner \in [Requests -> Users]
ASSUME WantAssumption     == Want \in [Requests -> Nat \ {0}]
ASSUME StockAssumption    == RedisStock \in Nat
ASSUME NoneAssumption     == None \notin Requests
ASSUME FaultAssumption    == MaxFault \in Nat /\ MaxExcess \in Nat

VARIABLES
  pc,        \* the command each request runs next, or how it ended
  stock,     \* Redis: the stock counter
  lock,      \* Redis: users whose idempotency key seckill:lock:<user> exists
  order,     \* orders table: the request that created each user's row, or none
  fate,      \* what the saga made of each user's order
  releasing, \* users whose key the compensation has yet to delete
  faults, excess  \* how much of the two budgets is used

vars == <<pc, stock, lock, order, fate, releasing, faults, excess>>

Busy == {"check", "deduct", "giveback", "insert", "rollback", "release", "answer"}
Ended == {"rejected", "accepted", "died"}
PCs == {"new"} \union Busy \union Ended

\* Requests past the idempotency check that have not settled yet.
Admitted == {"check", "deduct", "giveback", "insert", "rollback", "release"}

Goto(r, from, to) == pc[r] = from /\ pc' = [pc EXCEPT ![r] = to]

Fine  == UNCHANGED <<faults, excess>>
Fault == faults < MaxFault /\ faults' = faults + 1 /\ UNCHANGED excess

-----------------------------------------------------------------------------
(* The request *)

\* Mutant of Acquire: SET instead of SETNX.
AcquireAnyway(r) ==
  /\ Goto(r, "new", "check")
  /\ lock' = lock \union {Owner[r]}
  /\ UNCHANGED <<stock, order, fate, releasing>> /\ Fine

\* SETNX of the key: the key is free and now taken,
Acquire(r) ==
  /\ Goto(r, "new", "check")
  /\ Owner[r] \notin lock
  /\ lock' = lock \union {Owner[r]}
  /\ UNCHANGED <<stock, order, fate, releasing>> /\ Fine

\* ... or someone has it: a duplicate,
Duplicate(r) ==
  /\ Goto(r, "new", "rejected")
  /\ Owner[r] \in lock
  /\ UNCHANGED <<stock, lock, order, fate, releasing>> /\ Fine

\* ... or Redis fails (perhaps after setting the key) and the orders table, on a
\* replica that may lag, decides instead.  The request goes on without knowing
\* whether it holds the key.
Fallback(r) ==
  /\ Fault
  /\ lock' \in {lock, lock \union {Owner[r]}}
  /\ \/ Goto(r, "new", "check")
     \/ order[Owner[r]] # None /\ Goto(r, "new", "rejected")
  /\ UNCHANGED <<stock, order, fate, releasing>>

\* The product is on sale, or the request gives up and deletes the key.
OnSale(r) ==
  /\ Goto(r, "check", "deduct")
  /\ UNCHANGED <<stock, lock, order, fate, releasing>> /\ Fine

NotOnSale(r) ==
  /\ Goto(r, "check", "release")
  /\ UNCHANGED <<stock, lock, order, fate, releasing>> /\ Fine

\* Mutant of DecrBy: a negative counter is accepted.
DecrByUnchecked(r) ==
  /\ Goto(r, "deduct", "insert")
  /\ stock' = stock - Want[r]
  /\ UNCHANGED <<lock, order, fate, releasing>> /\ Fine

\* DeductRedis: DECRBY, which may take the counter below zero,
DecrBy(r) ==
  /\ Goto(r, "deduct", IF stock - Want[r] < 0 THEN "giveback" ELSE "insert")
  /\ stock' = stock - Want[r]
  /\ UNCHANGED <<lock, order, fate, releasing>> /\ Fine

\* ... or fails, perhaps after decrementing: an error is taken for no stock.
DecrByFails(r) ==
  /\ Fault
  /\ Goto(r, "deduct", "release")
  /\ stock' \in {stock, stock - Want[r]}
  /\ UNCHANGED <<lock, order, fate, releasing>>

\* Mutant of IncrBy: a failed transaction does not give the units back.
IncrByGivebackOnly(r) ==
  /\ Goto(r, "giveback", "release") \/ Goto(r, "rollback", "release")
  /\ stock' = IF pc[r] = "giveback" THEN stock + Want[r] ELSE stock
  /\ UNCHANGED <<lock, order, fate, releasing>> /\ Fine

\* INCRBY after too large a DECRBY (giveback) or a failed transaction
\* (RollbackRedis); its error is ignored.
IncrBy(r) ==
  /\ Goto(r, "giveback", "release") \/ Goto(r, "rollback", "release")
  /\ \/ stock' = stock + Want[r] /\ Fine
     \/ UNCHANGED stock /\ Fault
  /\ UNCHANGED <<lock, order, fate, releasing>>

\* The transaction that inserts the order and ORDER_CREATED,
Insert(r) ==
  /\ Goto(r, "insert", "answer")
  /\ order[Owner[r]] = None
  /\ order' = [order EXCEPT ![Owner[r]] = r]
  /\ UNCHANGED <<stock, lock, fate, releasing>> /\ Fine

\* ... whose commit may be taken for a failure when the connection is lost,
InsertUnacknowledged(r) ==
  /\ Goto(r, "insert", "rollback")
  /\ order[Owner[r]] = None
  /\ order' = [order EXCEPT ![Owner[r]] = r]
  /\ excess < MaxExcess /\ excess' = excess + 1
  /\ UNCHANGED <<stock, lock, fate, releasing, faults>>

\* ... which the unique index on (user_id, product_id) refuses,
InsertDuplicate(r) ==
  /\ Goto(r, "insert", "rollback")
  /\ order[Owner[r]] # None
  /\ UNCHANGED <<stock, lock, order, fate, releasing>> /\ Fine

\* ... or the database fails.
InsertFails(r) ==
  /\ Fault
  /\ Goto(r, "insert", "rollback")
  /\ UNCHANGED <<stock, lock, order, fate, releasing>>

\* Every way to give up ends with DEL of the key; its error is ignored.
Release(r) ==
  /\ Goto(r, "release", "rejected")
  /\ \/ lock' = lock \ {Owner[r]} /\ Fine
     \/ UNCHANGED lock /\ Fault
  /\ UNCHANGED <<stock, order, fate, releasing>>

\* SET of the PENDING result, modelled in Saga, and the answer to the client.
Answer(r) ==
  /\ Goto(r, "answer", "accepted")
  /\ UNCHANGED <<stock, lock, order, fate, releasing>> /\ Fine

\* The process dies between two commands.
Die(r) ==
  /\ pc[r] \in Busy
  /\ pc' = [pc EXCEPT ![r] = "died"]
  /\ UNCHANGED <<stock, lock, order, fate, releasing>> /\ Fault

-----------------------------------------------------------------------------
(* The saga and Redis *)

\* The order is paid: nothing happens in Redis.
Settle(u) ==
  /\ order[u] # None /\ fate[u] = "open"
  /\ fate' = [fate EXCEPT ![u] = "paid"]
  /\ UNCHANGED <<pc, stock, lock, order, releasing>> /\ Fine

\* RollbackRedis of the user's order; its error is ignored.
RollbackRedis(u) == \/ stock' = stock + Want[order[u]] /\ Fine
                    \/ UNCHANGED stock /\ Fault

\* Mutant of CompensateStock: the order stays open.
CompensateOpen(u) ==
  /\ order[u] # None /\ fate[u] = "open"
  /\ releasing' = releasing \union {u}
  /\ RollbackRedis(u)
  /\ UNCHANGED <<pc, lock, order, fate>>

\* The order is cancelled and inventory-service handles ORDER_CANCELLED:
\* RollbackRedis first,
CompensateStock(u) ==
  /\ order[u] # None /\ fate[u] = "open"
  /\ fate' = [fate EXCEPT ![u] = "cancelled"]
  /\ releasing' = releasing \union {u}
  /\ RollbackRedis(u)
  /\ UNCHANGED <<pc, lock, order>>

\* ... and again when the event is delivered again,
CompensateAgain(u) ==
  /\ fate[u] = "cancelled" /\ u \notin releasing
  /\ excess < MaxExcess /\ excess' = excess + 1
  /\ releasing' = releasing \union {u}
  /\ stock' = stock + Want[order[u]]
  /\ UNCHANGED <<pc, lock, order, fate, faults>>

\* ... then DEL of the idempotency key.
CompensateKey(u) ==
  /\ u \in releasing
  /\ releasing' = releasing \ {u}
  /\ \/ lock' = lock \ {u} /\ Fine
     \/ UNCHANGED lock /\ Fault
  /\ UNCHANGED <<pc, stock, order, fate>>

\* Mutant of KeyExpires: the key has no TTL.
KeyStays(u) == u \in lock \ releasing /\ UNCHANGED vars

\* The key has a TTL of 24 hours, which no request, saga or compensation
\* outlasts.
KeyExpires(u) ==
  /\ u \in lock \ releasing
  /\ order[u] = None \/ fate[u] # "open"
  /\ \A r \in Requests : Owner[r] = u => pc[r] \notin Busy
  /\ lock' = lock \ {u}
  /\ UNCHANGED <<pc, stock, order, fate, releasing, faults, excess>>

-----------------------------------------------------------------------------
Init ==
  /\ pc = [r \in Requests |-> "new"]
  /\ stock = RedisStock
  /\ lock = {}
  /\ order = [u \in Users |-> None]
  /\ fate = [u \in Users |-> "open"]
  /\ releasing = {}
  /\ faults = 0
  /\ excess = 0

Arrive(r) == Acquire(r) \/ Duplicate(r) \/ Fallback(r)

Continue(r) == \/ OnSale(r) \/ NotOnSale(r) \/ DecrBy(r) \/ DecrByFails(r)
               \/ IncrBy(r) \/ Insert(r) \/ InsertUnacknowledged(r)
               \/ InsertDuplicate(r) \/ InsertFails(r) \/ Release(r)
               \/ Answer(r)

Next == \/ \E r \in Requests : Arrive(r) \/ Continue(r) \/ Die(r)
        \/ \E u \in Users : \/ Settle(u) \/ CompensateStock(u) \/ CompensateAgain(u)
                           \/ CompensateKey(u) \/ KeyExpires(u)

Spec == Init /\ [][Next]_vars

\* A request that has begun runs on (or dies), a compensation that has begun
\* completes, and Redis removes expired keys.
FairSpec == /\ Spec
            /\ \A r \in Requests : WF_vars(Continue(r))
            /\ \A u \in Users : WF_vars(CompensateKey(u)) /\ WF_vars(KeyExpires(u))

-----------------------------------------------------------------------------
(* Properties *)

TypeOK ==
  /\ pc \in [Requests -> PCs]
  /\ stock \in Int
  /\ lock \in SUBSET Users
  /\ order \in [Users -> Requests \union {None}]
  /\ fate \in [Users -> {"open", "paid", "cancelled"}]
  /\ \A u \in Users : order[u] = None => fate[u] = "open"
  /\ releasing \in SUBSET {u \in Users : fate[u] = "cancelled"}
  /\ faults \in 0..MaxFault
  /\ excess \in 0..MaxExcess

\* The units of a set of requests, one by one.
Units(S) == Cardinality(UNION {{r} \X (1..Want[r]) : r \in S})

\* Requests whose DECRBY stands: between DECRBY and its INCRBY, or the creators
\* of orders that the saga has not cancelled.
Reserving == {r \in Requests : pc[r] \in {"giveback", "insert", "rollback"}}
Live      == {order[u] : u \in {v \in Users : /\ order[v] # None
                                              /\ fate[v] # "cancelled"}}

\* Without faults and excess compensations the counter in Redis is the opening
\* stock less what is reserved by the requests under way and by the live orders:
\* each path that gives up, and the saga's compensation, gives back exactly what
\* it took.
StockBalanced ==
  faults = 0 /\ excess = 0 => stock = RedisStock - Units(Reserving \union Live)

\* Faults can only lose stock: with any errors and deaths, the live orders never
\* ask for more than the counter admitted, unless a compensation should not run.
NeverOverAdmitted == excess = 0 => Units(Live) <= RedisStock

\* The idempotency key admits one request of a user at a time, as long as no
\* fault makes a request go on without the key, or delete another's, and no
\* compensation runs that should not.
OneAtATime ==
  faults = 0 /\ excess = 0 => \A r, s \in Requests :
    Owner[r] = Owner[s] /\ pc[r] \in Admitted /\ pc[s] \in Admitted => r = s

\* A user without an order is not locked out for ever, whatever died while it
\* held the key.
NotLockedOut == \A u \in Users :
  []<>(u \notin lock \/ order[u] # None \/ \E r \in Requests : Owner[r] = u /\ pc[r] \in Busy)
=============================================================================
