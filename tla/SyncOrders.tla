----------------------------- MODULE SyncOrders -----------------------------
(***************************************************************************)
(* Ordering and cancelling one product without the saga, in the monolith   *)
(* of cmd/server, whose one database holds orders and inventories:         *)
(* CreateOrder deducts the stock and inserts the order in one transaction, *)
(* CancelOrder locks the order row, returns the stock and updates the row  *)
(* in one transaction.  Orders of Seckill lie in the same table, and took  *)
(* nothing from the inventory row.                                         *)
(*                                                                         *)
(* available, locked, placed and cancelled are what is committed.  A       *)
(* transaction shows in the row locks it holds: invLock from its update of *)
(* the inventory row, rowLock from SELECT ... FOR UPDATE of an order, both *)
(* until it ends.  The optimistic retries of Deduct are in Inventory.      *)
(***************************************************************************)
EXTENDS Integers, FiniteSets

CONSTANTS Users,
          Buyers,     \* users who may also order with Seckill
          Creates,    \* POST /orders requests, each made once
          Cancels,    \* PUT /orders/:id/cancel requests, each made once
          Owner,      \* the user who makes each request
          Target,     \* whose order each cancel names
          Quantity,   \* units each user orders
          Total,      \* units the inventory row starts with
          None,       \* no transaction holds the lock
          MaxFault    \* bound on errors of Redis and the database, and deaths

ASSUME RequestsAssumption == Creates \intersect Cancels = {} /\ None \notin Creates \union Cancels
ASSUME UsersAssumption    == IsFiniteSet(Users)
ASSUME BuyersAssumption   == Buyers \subseteq Users
ASSUME OwnerAssumption    == Owner \in [Creates \union Cancels -> Users]
ASSUME TargetAssumption   == Target \in [Cancels -> Users]
ASSUME QuantityAssumption == Quantity \in [Users -> Nat \ {0}]
ASSUME BoundsAssumption   == Total \in Nat /\ MaxFault \in Nat

VARIABLES
  pc,         \* where each request is, or how it ended
  keys,       \* Redis: users whose idempotency key exists
  available, locked,  \* the inventory row
  placed,     \* how each user's order row came to be, "none" if there is none
  cancelled,  \* users whose order is cancelled
  invLock,    \* the transaction that has updated the inventory row
  rowLock,    \* the transaction that has locked each user's order row
  turnedAway, \* history: users who found the product missing or off sale
  borrowed,   \* history: the order of a Seckill was cancelled
  faults

vars == <<pc, keys, available, locked, placed, cancelled, invLock, rowLock,
          turnedAway, borrowed, faults>>

stock == <<available, locked>>
table == <<placed, cancelled>>
locks == <<invLock, rowLock>>
blame == <<turnedAway, borrowed>>

Busy  == {"check", "deduct", "insert", "release", "return"}
Ended == {"done", "refused", "died"}

Goto(r, from, to) == pc[r] = from /\ pc' = [pc EXCEPT ![r] = to]

Fine  == UNCHANGED faults
Fault == faults < MaxFault /\ faults' = faults + 1

-----------------------------------------------------------------------------
(* CreateOrder *)

\* SETNX of the key: it was free,
Acquire(r) ==
  /\ r \in Creates /\ Goto(r, "new", "check")
  /\ Owner[r] \notin keys
  /\ keys' = keys \union {Owner[r]}
  /\ UNCHANGED <<stock, table, locks, blame>> /\ Fine

\* ... or taken: a duplicate,
Duplicate(r) ==
  /\ r \in Creates /\ Goto(r, "new", "refused")
  /\ Owner[r] \in keys
  /\ UNCHANGED <<keys, stock, table, locks, blame>> /\ Fine

\* ... or Redis fails (perhaps after setting the key) and the orders table, on a
\* replica that may lag, decides, or fails too.
Fallback(r) ==
  /\ r \in Creates /\ Fault
  /\ keys' \in {keys, keys \union {Owner[r]}}
  /\ Goto(r, "new", "check") \/ Goto(r, "new", "refused")
  /\ UNCHANGED <<stock, table, locks, blame>>

\* The product is on sale,
OnSale(r) ==
  /\ Goto(r, "check", "deduct")
  /\ UNCHANGED <<keys, stock, table, locks, blame>> /\ Fine

\* ... or the request is refused, and leaves the key behind.
TurnAway(r) ==
  /\ Goto(r, "check", "refused")
  /\ turnedAway' = turnedAway \union {Owner[r]}
  /\ UNCHANGED <<keys, stock, table, locks, borrowed>> /\ Fine

\* The transaction begins with Deduct: the update waits for the row lock,
Deduct(r) ==
  /\ Goto(r, "deduct", "insert")
  /\ invLock = None /\ available >= Quantity[Owner[r]]
  /\ invLock' = r
  /\ UNCHANGED <<keys, stock, table, rowLock, blame>> /\ Fine

\* ... or there is too little stock, or three attempts are lost or the database
\* fails.
DeductRefused(r) ==
  /\ Goto(r, "deduct", "release")
  /\ (available < Quantity[Owner[r]] /\ Fine) \/ Fault
  /\ UNCHANGED <<keys, stock, table, locks, blame>>

\* INSERT of the order and commit.  To the client, a commit whose
\* acknowledgement is lost is a failure.
Insert(r) ==
  /\ placed[Owner[r]] = "none"
  /\ \/ Goto(r, "insert", "done") /\ Fine
     \/ Goto(r, "insert", "release") /\ Fault
  /\ placed' = [placed EXCEPT ![Owner[r]] = "sync"]
  /\ available' = available - Quantity[Owner[r]]
  /\ locked' = locked + Quantity[Owner[r]]
  /\ invLock' = None
  /\ UNCHANGED <<keys, cancelled, rowLock, blame>>

\* Mutants of InsertFails: the transaction is not rolled back, or waits for the
\* lock of the order row.
InsertFailsOpen(r) ==
  /\ Goto(r, "insert", "release")
  /\ (placed[Owner[r]] # "none" /\ Fine) \/ Fault
  /\ UNCHANGED <<keys, stock, table, locks, blame>>

InsertFailsWaiting(r) ==
  /\ Goto(r, "insert", "release")
  /\ \/ placed[Owner[r]] # "none" /\ rowLock[Owner[r]] = None /\ Fine
     \/ placed[Owner[r]] = "none" /\ Fault
  /\ invLock' = None
  /\ UNCHANGED <<keys, stock, table, rowLock, blame>>

\* The unique index refuses the row, at once even if a cancel has locked the
\* other, or the database fails: the transaction is rolled back.
InsertFails(r) ==
  /\ Goto(r, "insert", "release")
  /\ (placed[Owner[r]] # "none" /\ Fine) \/ Fault
  /\ invLock' = None
  /\ UNCHANGED <<keys, stock, table, rowLock, blame>>

\* Mutant of Release: the key is left behind.
ReleaseNothing(r) ==
  /\ Goto(r, "release", "refused")
  /\ UNCHANGED <<keys, stock, table, locks, blame>> /\ Fine

\* A failed transaction ends with DEL of the key; its error is logged.
Release(r) ==
  /\ Goto(r, "release", "refused")
  /\ \/ keys' = keys \ {Owner[r]} /\ Fine
     \/ UNCHANGED keys /\ Fault
  /\ UNCHANGED <<stock, table, locks, blame>>

-----------------------------------------------------------------------------
(* CancelOrder *)

\* Mutant of LockOrder: the row is read, not locked.
ReadOrder(c) ==
  LET u == Target[c] IN
  /\ c \in Cancels /\ pc[c] = "new"
  /\ IF placed[u] # "none" /\ Owner[c] = u /\ u \notin cancelled
       THEN Goto(c, "new", "return") ELSE Goto(c, "new", "refused")
  /\ UNCHANGED <<keys, stock, table, locks, blame>> /\ Fine

\* SELECT ... FOR UPDATE waits for the row lock.  A missing row, another user's
\* and one that is not pending end the transaction.
LockOrder(c) ==
  LET u == Target[c] IN
  /\ c \in Cancels /\ pc[c] = "new" /\ rowLock[u] = None
  /\ IF placed[u] # "none" /\ Owner[c] = u /\ u \notin cancelled
       THEN Goto(c, "new", "return") /\ rowLock' = [rowLock EXCEPT ![u] = c]
       ELSE Goto(c, "new", "refused") /\ UNCHANGED rowLock
  /\ UNCHANGED <<keys, stock, table, invLock, blame>> /\ Fine

\* ReturnStock waits for the inventory row and finds enough locked units, whoever
\* they belong to; the status is updated and the transaction commits.
Return(c) ==
  LET u == Target[c] IN
  /\ Goto(c, "return", "done")
  /\ invLock = None /\ locked >= Quantity[u]
  /\ available' = available + Quantity[u]
  /\ locked' = locked - Quantity[u]
  /\ cancelled' = cancelled \union {u}
  /\ rowLock' = [rowLock EXCEPT ![u] = None]
  /\ borrowed' = (borrowed \/ placed[u] = "seckill")
  /\ UNCHANGED <<keys, placed, invLock, turnedAway>> /\ Fine

\* ... or does not find them, or the database fails: rolled back.
ReturnFails(c) ==
  /\ Goto(c, "return", "refused")
  /\ (locked < Quantity[Target[c]] /\ Fine) \/ Fault
  /\ rowLock' = [rowLock EXCEPT ![Target[c]] = None]
  /\ UNCHANGED <<keys, stock, table, invLock, blame>>

-----------------------------------------------------------------------------
\* The process dies: the database rolls the transaction back.
Die(r) ==
  /\ pc[r] \in Busy
  /\ pc' = [pc EXCEPT ![r] = "died"]
  /\ invLock' = IF invLock = r THEN None ELSE invLock
  /\ rowLock' = [u \in Users |-> IF rowLock[u] = r THEN None ELSE rowLock[u]]
  /\ UNCHANGED <<keys, stock, table, blame>> /\ Fault

\* A Seckill of the user commits its order (Seckill models the rest of it).
SeckillOrder(u) ==
  /\ u \notin keys /\ placed[u] = "none"
  /\ keys' = keys \union {u}
  /\ placed' = [placed EXCEPT ![u] = "seckill"]
  /\ UNCHANGED <<pc, stock, cancelled, locks, blame>> /\ Fine

\* The key has a TTL of 24 hours, which no request outlasts.
KeyExpires(u) ==
  /\ u \in keys
  /\ \A r \in Creates : Owner[r] = u => pc[r] \notin Busy
  /\ keys' = keys \ {u}
  /\ UNCHANGED <<pc, stock, table, locks, blame>> /\ Fine

Init ==
  /\ pc = [r \in Creates \union Cancels |-> "new"]
  /\ keys = {}
  /\ available = Total /\ locked = 0
  /\ placed = [u \in Users |-> "none"] /\ cancelled = {}
  /\ invLock = None /\ rowLock = [u \in Users |-> None]
  /\ turnedAway = {} /\ borrowed = FALSE
  /\ faults = 0

Arrive(r) == Acquire(r) \/ Duplicate(r) \/ Fallback(r) \/ LockOrder(r)

Continue(r) == \/ OnSale(r) \/ TurnAway(r) \/ Deduct(r) \/ DeductRefused(r)
               \/ Insert(r) \/ InsertFails(r) \/ Release(r)
               \/ Return(r) \/ ReturnFails(r)

Next == \/ \E r \in Creates \union Cancels : Arrive(r) \/ Continue(r) \/ Die(r)
        \/ \E u \in Buyers : SeckillOrder(u)
        \/ \E u \in Users : KeyExpires(u)

Spec == Init /\ [][Next]_vars

\* A request that has begun runs on when the locks it waits for are free.
FairSpec == Spec /\ \A r \in Creates \union Cancels : WF_vars(Continue(r))

-----------------------------------------------------------------------------
(* Properties *)

TypeOK ==
  /\ pc \in [Creates \union Cancels -> {"new"} \union Busy \union Ended]
  /\ keys \in SUBSET Users
  /\ available \in Nat /\ locked \in Nat
  /\ placed \in [Users -> {"none", "sync", "seckill"}]
  /\ cancelled \in SUBSET {u \in Users : placed[u] # "none"}
  /\ invLock \in {None} \union {r \in Creates : pc[r] = "insert"}
  /\ rowLock \in [Users -> {None} \union {c \in Cancels : pc[c] = "return"}]
  /\ turnedAway \in SUBSET Users
  /\ borrowed \in BOOLEAN
  /\ faults \in 0..MaxFault

\* The units of a set of users' orders, one by one.
Units(S) == Cardinality(UNION {{u} \X (1..Quantity[u]) : u \in S})

\* Orders and the inventory row agree, whatever is rolled back and however many
\* cancels of one order race: locked is what the pending orders of CreateOrder
\* took.  A cancelled Seckill order, which took nothing, breaks that for good.
StockHeld ==
  /\ available + locked = Total
  /\ ~borrowed => locked = Units({u \in Users \ cancelled : placed[u] = "sync"})

\* Without errors, a user whose key exists has an order, is getting one, or was
\* turned away for the product: every failed transaction gives the key back.
KeyExplained ==
  faults = 0 => \A u \in keys :
    \/ placed[u] # "none" \/ u \in turnedAway
    \/ \E r \in Creates : Owner[r] = u /\ pc[r] \in Busy

\* The two transactions take the two row locks in different orders, yet never
\* wait for each other: every request that has begun ends.
EveryRequestEnds ==
  \A r \in Creates \union Cancels : pc[r] \in Busy ~> pc[r] \in Ended

=============================================================================
