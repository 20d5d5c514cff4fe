---------------------------- MODULE ServerProofs ----------------------------
(***************************************************************************)
(* Theorems about the two modules that describe cmd/server, which share no *)
(* variable: SyncOrders, for any finite set of users, any requests,        *)
(* quantities, stock and number of faults, and ProductCache, through which *)
(* SyncOrders finds the product on sale, for any requests and number of    *)
(* errors.                                                                 *)
(***************************************************************************)
EXTENDS SyncOrders, ProductCache, FiniteSetTheorems, TLAPS

Requests == Creates \union Cancels
PCs      == {"new"} \union Busy \union Ended

\* The locks keep their holders alone.  A transaction about to insert an order
\* holds the inventory row, in which the stock it has found is still there.
InventoryLocked ==
  \A r \in Creates : pc[r] = "insert" =>
    invLock = r /\ available >= Quantity[Owner[r]]

\* A cancel about to return the stock holds the row of an order that is there and
\* not cancelled; nobody holds a row that it does not name.
OrderLocked ==
  /\ \A c \in Cancels : pc[c] = "return" =>
       /\ rowLock[Target[c]] = c
       /\ placed[Target[c]] # "none" /\ Target[c] \notin cancelled
  /\ \A u \in Users : rowLock[u] # None => Target[rowLock[u]] = u

\* Creates and cancels do not run each other's code.
Roles ==
  /\ \A r \in Creates : pc[r] # "return"
  /\ \A c \in Cancels : pc[c] \notin {"check", "deduct", "insert", "release"}

LockInv == InventoryLocked /\ OrderLocked /\ Roles

SyncInv == TypeOK /\ LockInv /\ StockHeld /\ KeyExplained

-----------------------------------------------------------------------------
(* Counting units *)

\* The units of a set of orders are finitely many.
LEMMA UnitsFinite ==
  ASSUME NEW S \in SUBSET Users
  PROVE  /\ IsFiniteSet(UNION {{u} \X (1..Quantity[u]) : u \in S})
         /\ Units(S) \in Nat
<1> DEFINE of(u) == {u} \X (1..Quantity[u])
           T == {of(u) : u \in S}
           f == [u \in S |-> of(u)]
<1>1. IsFiniteSet(S)
  BY UsersAssumption, FS_Subset
<1>2. IsFiniteSet(T)
  <2>1. T = {f[u] : u \in S} /\ f \in [S -> T]
    OBVIOUS
  <2>2. f \in Surjection(S, T)
    BY <2>1 DEF Surjection
  <2>3. QED
    BY <1>1, <2>2, FS_Surjection
<1>3. ASSUME NEW t \in T PROVE IsFiniteSet(t)
  <2>1. PICK u \in S : t = {u} \X (1..Quantity[u])
    BY <1>3
  <2>2. Quantity[u] \in Nat
    BY <2>1, QuantityAssumption
  <2>3. IsFiniteSet({u})
    BY FS_Singleton
  <2>4. IsFiniteSet(1..Quantity[u])
    BY <2>2, FS_Interval
  <2>5. QED
    BY <2>1, <2>3, <2>4, FS_Product
<1>4. IsFiniteSet(UNION T)
  BY <1>2, <1>3, FS_UNION
<1>5. QED
  BY <1>4, FS_CardinalityType DEF Units

\* One more order has its quantity more.
LEMMA UnitsAdd ==
  ASSUME NEW S \in SUBSET Users, NEW u \in Users, u \notin S
  PROVE  Units(S \union {u}) = Units(S) + Quantity[u]
<1> DEFINE old == UNION {{v} \X (1..Quantity[v]) : v \in S}
           new == {u} \X (1..Quantity[u])
           all == UNION {{v} \X (1..Quantity[v]) : v \in S \union {u}}
<1>1. all = old \union new /\ old \cap new = {}
  OBVIOUS
<1>2. IsFiniteSet(new) /\ Cardinality(new) = Quantity[u] /\ Quantity[u] \in Nat
  <2>1. Quantity[u] \in Nat /\ Quantity[u] >= 1
    BY QuantityAssumption
  <2>2. IsFiniteSet(1..Quantity[u]) /\ Cardinality(1..Quantity[u]) = Quantity[u]
    BY <2>1, FS_Interval
  <2>3. IsFiniteSet({u}) /\ Cardinality({u}) = 1
    BY FS_Singleton
  <2>4. IsFiniteSet(new) /\ Cardinality(new) = 1 * Quantity[u]
    BY <2>2, <2>3, FS_Product
  <2>5. QED
    BY <2>1, <2>4
<1>3. IsFiniteSet(old) /\ Cardinality(old) \in Nat
  BY UnitsFinite, FS_CardinalityType
<1>4. Units(S) = Cardinality(old) /\ Units(S \union {u}) = Cardinality(all)
  BY DEF Units
<1> HIDE DEF old, new, all
<1>5. Cardinality(old \cap new) = 0
  BY <1>1, FS_EmptySet
<1>6. Cardinality(old \union new)
        = Cardinality(old) + Cardinality(new) - Cardinality(old \cap new)
  BY <1>2, <1>3, FS_Union
<1> DEFINE a == Cardinality(old)
           b == Cardinality(all)
<1>7. a \in Nat /\ b = a + Quantity[u] - 0
  BY <1>1, <1>2, <1>3, <1>5, <1>6
<1> HIDE DEF a, b
<1>8. b = a + Quantity[u]
  BY <1>2, <1>7
<1>9. QED
  BY <1>4, <1>8 DEF a, b

\* The pending orders of CreateOrder.
Pending == {u \in Users \ cancelled : placed[u] = "sync"}

\* A user who gets such an order makes them more by the quantity,
LEMMA PendingMore ==
  ASSUME NEW u \in Users, u \notin Pending, Pending' = Pending \union {u}
  PROVE  Units(Pending)' = Units(Pending) + Quantity[u]
<1>1. Pending \in SUBSET Users
  BY DEF Pending
<1>2. Units(Pending') = Units(Pending) + Quantity[u]
  BY <1>1, UnitsAdd
<1>3. QED
  BY <1>2 DEF Units

\* ... and a user whose order is cancelled makes them as much less.
LEMMA PendingLess ==
  ASSUME NEW u \in Users, u \in Pending, Pending' = Pending \ {u}
  PROVE  Units(Pending)' + Quantity[u] = Units(Pending)
<1>1. Pending' \in SUBSET Users /\ Pending = Pending' \union {u} /\ u \notin Pending'
  BY DEF Pending
<1>2. Units(Pending' \union {u}) = Units(Pending') + Quantity[u]
  BY <1>1, UnitsAdd
<1>3. Units(Pending) = Units(Pending') + Quantity[u]
  BY <1>1, <1>2
<1>4. QED
  BY <1>3 DEF Units

-----------------------------------------------------------------------------
(* Steps *)

\* A request that moves on, and only it.
LEMMA Moves ==
  ASSUME TypeOK, NEW r \in Requests, NEW from, NEW to, Goto(r, from, to)
  PROVE  /\ pc[r] = from /\ pc'[r] = to
         /\ \A q \in Requests \ {r} : pc'[q] = pc[q]
         /\ to \in PCs => pc' \in [Requests -> PCs]
BY DEF Goto, TypeOK, Requests, PCs

\* The budget is used up, never refilled.
LEMMA Budget ==
  ASSUME TypeOK, Fine \/ Fault
  PROVE  /\ faults' \in 0..MaxFault
         /\ faults' = 0 => faults = 0 /\ ~Fault
BY BoundsAssumption DEF TypeOK, Fine, Fault

\* What the state says of a request that runs a step of CreateOrder or CancelOrder.
LEMMA RoleOf ==
  ASSUME Roles, NEW r \in Requests
  PROVE  /\ pc[r] \in {"check", "deduct", "insert", "release"} => r \in Creates
         /\ pc[r] = "return" => r \in Cancels
         /\ r \in Creates <=> r \notin Cancels
BY RequestsAssumption DEF Roles, Requests

\* A request moves on outside of the two transactions, or a transaction gives up
\* what it has locked: the tables stay as they are.
LEMMA IdleStep ==
  ASSUME TypeOK, LockInv, StockHeld,
         NEW r \in Requests, NEW from, NEW to \in PCs \ {"insert", "return"},
         Goto(r, from, to),
         r \in Cancels => to \notin {"check", "deduct", "release"},
         keys' \in SUBSET Users, turnedAway' \in SUBSET Users, faults' \in 0..MaxFault,
         invLock' = IF from = "insert" THEN None ELSE invLock,
         rowLock' = IF from = "return" THEN [rowLock EXCEPT ![Target[r]] = None]
                                       ELSE rowLock,
         UNCHANGED <<stock, table, borrowed>>
  PROVE  TypeOK' /\ LockInv' /\ StockHeld'
<1>1. /\ pc[r] = from /\ pc'[r] = to
      /\ \A q \in Requests \ {r} : pc'[q] = pc[q]
      /\ pc' \in [Requests -> PCs]
  BY Moves
<1>2. /\ from = "insert" => r \in Creates /\ invLock = r
      /\ from = "return" => r \in Cancels /\ Target[r] \in Users /\ rowLock[Target[r]] = r
      /\ r \in Creates <=> r \notin Cancels
  BY <1>1, RoleOf, TargetAssumption DEF LockInv, InventoryLocked, OrderLocked
<1>3. UNCHANGED <<available, locked, placed, cancelled, borrowed>>
  BY DEF stock, table
<1>4. invLock' \in {None} \union {q \in Creates : pc'[q] = "insert"}
  <2>1. invLock \in {None} \union {q \in Creates : pc[q] = "insert"}
    BY DEF TypeOK
  <2>2. QED
    BY <1>1, <1>2, <2>1 DEF Requests
<1>5. rowLock' \in [Users -> {None} \union {c \in Cancels : pc'[c] = "return"}]
  <2>1. rowLock \in [Users -> {None} \union {c \in Cancels : pc[c] = "return"}]
    BY DEF TypeOK
  <2>2. ASSUME NEW u \in Users
        PROVE  rowLock'[u] \in {None} \union {c \in Cancels : pc'[c] = "return"}
    <3>1. rowLock[u] = r => Target[r] = u /\ from = "return"
      BY <1>1, <2>1, RequestsAssumption DEF LockInv, OrderLocked, Requests
    <3>2. rowLock'[u] = r => FALSE
      BY <1>2, <2>1, <3>1, RequestsAssumption DEF Requests
    <3>3. rowLock'[u] = None \/ rowLock'[u] = rowLock[u]
      BY <1>2, <2>1
    <3>4. QED
      BY <1>1, <2>1, <3>2, <3>3 DEF Requests
  <2>3. rowLock' = [u \in Users |-> rowLock'[u]]
    BY <2>1
  <2>4. QED
    BY <2>2, <2>3
<1>6. TypeOK'
  BY <1>1, <1>3, <1>4, <1>5 DEF TypeOK, Requests, PCs
<1>7. InventoryLocked'
  <2> SUFFICES ASSUME NEW q \in Creates, pc'[q] = "insert"
               PROVE  invLock' = q /\ available' >= Quantity[Owner[q]]
    BY DEF InventoryLocked
  <2>1. q # r /\ pc[q] = "insert" /\ invLock = q /\ available >= Quantity[Owner[q]]
    BY <1>1 DEF Requests, LockInv, InventoryLocked
  <2>2. QED
    BY <1>2, <1>3, <2>1
<1>8. OrderLocked'
  <2>1. ASSUME NEW c \in Cancels, pc'[c] = "return"
        PROVE  /\ rowLock'[Target[c]] = c
               /\ placed'[Target[c]] # "none" /\ Target[c] \notin cancelled'
    <3>1. /\ c # r /\ rowLock[Target[c]] = c /\ Target[c] \in Users
          /\ placed[Target[c]] # "none" /\ Target[c] \notin cancelled
      BY <1>1, <2>1, TargetAssumption DEF Requests, LockInv, OrderLocked
    <3>2. from = "return" => Target[r] # Target[c]
      BY <1>2, <3>1
    <3>3. QED
      BY <1>3, <3>1, <3>2 DEF TypeOK
  <2>2. ASSUME NEW u \in Users, rowLock'[u] # None
        PROVE  Target[rowLock'[u]] = u
    <3>1. rowLock'[u] = rowLock[u]
      BY <1>2, <2>2 DEF TypeOK
    <3>2. QED
      BY <2>2, <3>1 DEF LockInv, OrderLocked
  <2>3. QED
    BY <2>1, <2>2 DEF OrderLocked
<1>9. Roles'
  BY <1>1, <1>2 DEF Roles, LockInv, Requests
<1>10. StockHeld'
  BY <1>3 DEF StockHeld, Units
<1>11. QED
  BY <1>6, <1>7, <1>8, <1>9, <1>10 DEF LockInv

\* The user of a request is a user, with a quantity.
LEMMA OwnerType ==
  ASSUME NEW r \in Requests
  PROVE  /\ Owner[r] \in Users
         /\ Quantity[Owner[r]] \in Nat /\ Quantity[Owner[r]] > 0
         /\ r \in Cancels => /\ Target[r] \in Users
                             /\ Quantity[Target[r]] \in Nat /\ Quantity[Target[r]] > 0
BY OwnerAssumption, TargetAssumption, QuantityAssumption DEF Requests

\* Deduct takes the lock of the inventory row, which was free.
LEMMA DeductStep ==
  ASSUME TypeOK, LockInv, StockHeld, NEW r \in Requests, Deduct(r)
  PROVE  TypeOK' /\ LockInv' /\ StockHeld'
<1>1. /\ pc[r] = "deduct" /\ pc'[r] = "insert" /\ r \in Creates
      /\ \A q \in Requests \ {r} : pc'[q] = pc[q]
      /\ pc' \in [Requests -> PCs]
  BY Moves, RoleOf DEF Deduct, LockInv, PCs, Busy, Goto
<1>2. /\ invLock = None /\ invLock' = r /\ available >= Quantity[Owner[r]]
      /\ UNCHANGED <<keys, available, locked, placed, cancelled, rowLock,
                     turnedAway, borrowed, faults>>
  BY DEF Deduct, stock, table, blame, Fine
<1>3. r \notin Cancels
  BY <1>1, RequestsAssumption
<1>4. \A c \in Cancels : pc'[c] = pc[c]
  BY <1>1, <1>3 DEF Requests
<1>5. TypeOK'
  BY <1>1, <1>2, <1>4 DEF TypeOK, Requests, PCs
<1>6. InventoryLocked'
  <2> SUFFICES ASSUME NEW q \in Creates, pc'[q] = "insert"
               PROVE  invLock' = q /\ available' >= Quantity[Owner[q]]
    BY DEF InventoryLocked
  <2>1. CASE q = r
    BY <1>2, <2>1
  <2>2. CASE q # r
    <3>1. pc[q] = "insert" /\ invLock = q
      BY <1>1, <2>2 DEF Requests, LockInv, InventoryLocked
    <3>2. QED
      BY <1>2, <3>1, RequestsAssumption
  <2>3. QED
    BY <2>1, <2>2
<1>7. OrderLocked' /\ Roles'
  BY <1>1, <1>2, <1>4 DEF LockInv, OrderLocked, Roles, Requests
<1>8. StockHeld'
  BY <1>2 DEF StockHeld, Units
<1>9. QED
  BY <1>5, <1>6, <1>7, <1>8 DEF LockInv
\* Insert commits: the order is there, what it took is locked, the lock is free.
LEMMA InsertStep ==
  ASSUME TypeOK, LockInv, StockHeld, NEW r \in Requests, Insert(r)
  PROVE  TypeOK' /\ LockInv' /\ StockHeld'
<1> DEFINE u == Owner[r]
           n == Quantity[u]
<1>1. PICK to \in {"done", "release"} : Goto(r, "insert", to) /\ (Fine \/ Fault)
  BY DEF Insert
<1>2. /\ pc[r] = "insert" /\ pc'[r] = to /\ r \in Creates /\ r \notin Cancels
      /\ \A q \in Requests \ {r} : pc'[q] = pc[q]
      /\ pc' \in [Requests -> PCs]
  BY <1>1, Moves, RoleOf, RequestsAssumption DEF LockInv, PCs, Busy, Ended
<1>3. /\ u \in Users /\ n \in Nat /\ n > 0
  BY OwnerType
<1>4. /\ placed[u] = "none" /\ placed' = [placed EXCEPT ![u] = "sync"]
      /\ available' = available - n /\ locked' = locked + n /\ invLock' = None
      /\ UNCHANGED <<keys, cancelled, rowLock, turnedAway, borrowed>>
  BY DEF Insert, blame
<1>5. invLock = r /\ available >= n
  BY <1>2 DEF LockInv, InventoryLocked
<1> HIDE DEF u, n
<1>6. \A c \in Cancels : pc'[c] = pc[c]
  BY <1>2 DEF Requests
<1>7. /\ available \in Nat /\ locked \in Nat /\ available' \in Nat /\ locked' \in Nat
      /\ placed \in [Users -> {"none", "sync", "seckill"}] /\ u \notin cancelled
      /\ cancelled \in SUBSET Users
  BY <1>3, <1>4, <1>5 DEF TypeOK
<1>8. /\ placed' \in [Users -> {"none", "sync", "seckill"}]
      /\ placed'[u] = "sync" /\ \A v \in Users \ {u} : placed'[v] = placed[v]
  BY <1>3, <1>4, <1>7
<1>9. TypeOK'
  <2>1. faults' \in 0..MaxFault
    BY <1>1, Budget
  <2>2. cancelled' \in SUBSET {v \in Users : placed'[v] # "none"}
    BY <1>4, <1>7, <1>8 DEF TypeOK
  <2>3. QED
    BY <1>2, <1>4, <1>6, <1>7, <1>8, <2>1, <2>2 DEF TypeOK, Requests, PCs
<1>10. InventoryLocked'
  <2>1. \A q \in Creates : pc'[q] # "insert"
    BY <1>2, <1>5 DEF LockInv, InventoryLocked, Requests
  <2>2. QED
    BY <2>1 DEF InventoryLocked
<1>11. OrderLocked' /\ Roles'
  BY <1>2, <1>4, <1>6, <1>8, TargetAssumption DEF LockInv, OrderLocked, Roles, Requests
<1>12. StockHeld'
  <2>1. Pending' = Pending \union {u} /\ u \notin Pending
    BY <1>3, <1>4, <1>7, <1>8 DEF Pending
  <2>2. Units(Pending)' = Units(Pending) + n
    BY <1>3, <2>1, PendingMore DEF n
  <2>3. available' + locked' = available + locked
    BY <1>3, <1>4, <1>7
  <2>4. ~borrowed => locked' = Units(Pending)'
    BY <1>4, <2>2 DEF StockHeld, Pending
  <2>5. QED
    BY <1>4, <2>3, <2>4 DEF StockHeld, Pending
<1>13. QED
  BY <1>9, <1>10, <1>11, <1>12 DEF LockInv

\* Return commits: the order is cancelled and its units are available again.
LEMMA ReturnStep ==
  ASSUME TypeOK, LockInv, StockHeld, NEW c \in Requests, Return(c)
  PROVE  TypeOK' /\ LockInv' /\ StockHeld'
<1> DEFINE u == Target[c]
           n == Quantity[u]
<1>1. /\ pc[c] = "return" /\ pc'[c] = "done" /\ c \in Cancels /\ c \notin Creates
      /\ \A q \in Requests \ {c} : pc'[q] = pc[q]
      /\ pc' \in [Requests -> PCs]
  <2>1. Goto(c, "return", "done")
    BY DEF Return
  <2>2. QED
    BY <2>1, Moves, RoleOf, RequestsAssumption DEF LockInv, PCs, Ended
<1>2. /\ u \in Users /\ n \in Nat /\ n > 0
  BY <1>1, OwnerType
<1>3. /\ invLock = None /\ locked >= n
      /\ available' = available + n /\ locked' = locked - n
      /\ cancelled' = cancelled \union {u}
      /\ rowLock' = [rowLock EXCEPT ![u] = None]
      /\ borrowed' = (borrowed \/ placed[u] = "seckill")
      /\ UNCHANGED <<keys, placed, invLock, turnedAway, faults>>
  BY DEF Return, Fine
<1>4. rowLock[u] = c /\ placed[u] # "none" /\ u \notin cancelled
  BY <1>1 DEF LockInv, OrderLocked
<1>u. u = Target[c]
  OBVIOUS
<1> HIDE DEF u, n
<1>5. \A r \in Creates : pc'[r] = pc[r]
  BY <1>1 DEF Requests
<1>6. /\ available \in Nat /\ locked \in Nat /\ available' \in Nat /\ locked' \in Nat
      /\ placed \in [Users -> {"none", "sync", "seckill"}]
      /\ rowLock \in [Users -> {None} \union {d \in Cancels : pc[d] = "return"}]
      /\ cancelled \in SUBSET {v \in Users : placed[v] # "none"}
      /\ borrowed \in BOOLEAN
  BY <1>2, <1>3 DEF TypeOK
<1>7. /\ rowLock'[u] = None /\ \A v \in Users \ {u} : rowLock'[v] = rowLock[v]
      /\ rowLock' \in [Users -> {None} \union {d \in Cancels : pc'[d] = "return"}]
  <2>1. rowLock'[u] = None /\ \A v \in Users \ {u} : rowLock'[v] = rowLock[v]
    BY <1>2, <1>3, <1>6
  <2>2. ASSUME NEW v \in Users \ {u} PROVE rowLock[v] # c
    BY <1>1, <1>u, RequestsAssumption DEF LockInv, OrderLocked
  <2>3. \A v \in Users : rowLock'[v] \in {None} \union {d \in Cancels : pc'[d] = "return"}
    BY <1>1, <1>6, <2>1, <2>2 DEF Requests
  <2>4. rowLock' = [v \in Users |-> rowLock'[v]]
    BY <1>3, <1>6
  <2>5. QED
    BY <2>1, <2>3, <2>4
<1>8. borrowed' \in BOOLEAN
  <2>1. (borrowed \/ placed[u] = "seckill") \in BOOLEAN
    OBVIOUS
  <2>2. QED
    BY <1>3, <2>1, Zenon
<1>9. TypeOK'
  <2>1. cancelled' \in SUBSET {v \in Users : placed'[v] # "none"}
    BY <1>2, <1>3, <1>4, <1>6
  <2>2. invLock' \in {None} \union {r \in Creates : pc'[r] = "insert"}
    BY <1>3
  <2>3. /\ keys' \in SUBSET Users /\ turnedAway' \in SUBSET Users
        /\ faults' \in 0..MaxFault
        /\ placed' \in [Users -> {"none", "sync", "seckill"}]
    BY <1>3 DEF TypeOK
  <2>4. QED
    BY <1>1, <1>6, <1>7, <1>8, <2>1, <2>2, <2>3 DEF TypeOK, Requests, PCs
<1>10. InventoryLocked'
  <2> SUFFICES ASSUME NEW r \in Creates, pc'[r] = "insert" PROVE FALSE
    BY DEF InventoryLocked
  <2>1. invLock = r
    BY <1>5 DEF LockInv, InventoryLocked
  <2>2. QED
    BY <1>3, <2>1, RequestsAssumption
<1>11. OrderLocked'
  <2>1. ASSUME NEW d \in Cancels, pc'[d] = "return"
        PROVE  /\ rowLock'[Target[d]] = d
               /\ placed'[Target[d]] # "none" /\ Target[d] \notin cancelled'
    <3>1. /\ d # c /\ rowLock[Target[d]] = d /\ Target[d] \in Users
          /\ placed[Target[d]] # "none" /\ Target[d] \notin cancelled
      BY <1>1, <2>1, TargetAssumption DEF Requests, LockInv, OrderLocked
    <3>2. Target[d] # u
      BY <1>4, <3>1
    <3>3. QED
      BY <1>3, <1>7, <3>1, <3>2
  <2>2. ASSUME NEW v \in Users, rowLock'[v] # None
        PROVE  Target[rowLock'[v]] = v
    BY <1>7, <2>2 DEF LockInv, OrderLocked
  <2>3. QED
    BY <2>1, <2>2 DEF OrderLocked
<1>12. Roles'
  BY <1>1, <1>5 DEF LockInv, Roles, Requests
<1>13. StockHeld'
  <2>1. available' + locked' = available + locked
    BY <1>2, <1>3, <1>6
  <2>2. ASSUME ~borrowed' PROVE locked' = Units(Pending)'
    <3>1. ~borrowed /\ placed[u] = "sync"
      BY <1>2, <1>3, <1>4, <1>6, <2>2, Zenon
    <3>2. u \in Pending /\ Pending' = Pending \ {u}
      BY <1>2, <1>3, <1>4, <3>1 DEF Pending
    <3>3. Units(Pending)' + n = Units(Pending)
      BY <1>2, <3>2, PendingLess DEF n
    <3>4. locked = Units(Pending)
      BY <3>1 DEF StockHeld, Pending
    <3>5. Units(Pending)' \in Nat
      <4>1. Pending' \in SUBSET Users
        BY DEF Pending
      <4>2. Units(Pending') \in Nat
        BY <4>1, UnitsFinite
      <4>3. QED
        BY <4>2 DEF Units
    <3>6. QED
      BY <1>2, <1>3, <1>6, <3>3, <3>4, <3>5
  <2>3. QED
    BY <1>3, <2>1, <2>2 DEF StockHeld, Pending
<1>14. QED
  BY <1>9, <1>10, <1>11, <1>12, <1>13 DEF LockInv
\* LockOrder takes the lock of an order that is pending, which was free.
LEMMA LockOrderStep ==
  ASSUME TypeOK, LockInv, StockHeld, NEW c \in Requests, LockOrder(c)
  PROVE  TypeOK' /\ LockInv' /\ StockHeld'
<1> DEFINE u == Target[c]
<1>1. /\ c \in Cancels /\ c \notin Creates /\ u \in Users /\ rowLock[u] = None
      /\ UNCHANGED <<keys, available, locked, placed, cancelled, invLock,
                     turnedAway, borrowed, faults>>
  BY RequestsAssumption, TargetAssumption DEF LockOrder, stock, table, blame, Fine
<1>2. CASE Goto(c, "new", "refused") /\ UNCHANGED rowLock
  <2>1. keys' \in SUBSET Users /\ turnedAway' \in SUBSET Users /\ faults' \in 0..MaxFault
    BY <1>1 DEF TypeOK
  <2>2. "refused" \in PCs \ {"insert", "return"}
    BY DEF PCs, Busy, Ended
  <2>3. QED
    BY <1>1, <1>2, <2>1, <2>2, IdleStep DEF stock, table
<1>3. CASE /\ Goto(c, "new", "return") /\ rowLock' = [rowLock EXCEPT ![u] = c]
           /\ placed[u] # "none" /\ u \notin cancelled
  <2>1. /\ pc[c] = "new" /\ pc'[c] = "return"
        /\ \A q \in Requests \ {c} : pc'[q] = pc[q]
        /\ pc' \in [Requests -> PCs]
    BY <1>3, Moves DEF PCs, Busy
  <2>2. \A r \in Creates : pc'[r] = pc[r]
    BY <1>1, <2>1 DEF Requests
  <2>3. /\ rowLock'[u] = c /\ \A v \in Users \ {u} : rowLock'[v] = rowLock[v]
        /\ rowLock' \in [Users -> {None} \union {d \in Cancels : pc'[d] = "return"}]
    <3>1. rowLock \in [Users -> {None} \union {d \in Cancels : pc[d] = "return"}]
      BY DEF TypeOK
    <3>2. rowLock'[u] = c /\ \A v \in Users \ {u} : rowLock'[v] = rowLock[v]
      BY <1>1, <1>3, <3>1
    <3>3. \A v \in Users : rowLock'[v] \in {None} \union {d \in Cancels : pc'[d] = "return"}
      BY <1>1, <2>1, <3>1, <3>2 DEF Requests
    <3>4. rowLock' = [v \in Users |-> rowLock'[v]]
      BY <1>3, <3>1
    <3>5. QED
      BY <3>2, <3>3, <3>4
  <2>4. TypeOK'
    BY <1>1, <2>1, <2>2, <2>3 DEF TypeOK, Requests, PCs
  <2>5. InventoryLocked'
    BY <1>1, <2>2 DEF LockInv, InventoryLocked
  <2>6. OrderLocked'
    <3>1. ASSUME NEW d \in Cancels, pc'[d] = "return"
          PROVE  /\ rowLock'[Target[d]] = d
                 /\ placed'[Target[d]] # "none" /\ Target[d] \notin cancelled'
      <4>1. CASE d = c
        BY <1>1, <1>3, <2>3, <4>1
      <4>2. CASE d # c
        <5>1. /\ rowLock[Target[d]] = d /\ Target[d] \in Users
              /\ placed[Target[d]] # "none" /\ Target[d] \notin cancelled
          BY <2>1, <3>1, <4>2, TargetAssumption DEF Requests, LockInv, OrderLocked
        <5>2. Target[d] # u
          BY <1>1, <5>1, RequestsAssumption
        <5>3. QED
          BY <1>1, <2>3, <5>1, <5>2
      <4>3. QED
        BY <4>1, <4>2
    <3>2. ASSUME NEW v \in Users, rowLock'[v] # None
          PROVE  Target[rowLock'[v]] = v
      BY <2>3, <3>2 DEF LockInv, OrderLocked
    <3>3. QED
      BY <3>1, <3>2 DEF OrderLocked
  <2>7. Roles'
    BY <1>1, <2>1, <2>2 DEF LockInv, Roles, Requests
  <2>8. StockHeld'
    BY <1>1 DEF StockHeld, Units
  <2>9. QED
    BY <2>4, <2>5, <2>6, <2>7, <2>8 DEF LockInv
<1>4. QED
  BY <1>2, <1>3 DEF LockOrder

\* A process that dies leaves the locks of its transaction to the others.
LEMMA DieStep ==
  ASSUME TypeOK, LockInv, StockHeld, NEW r \in Requests, Die(r)
  PROVE  TypeOK' /\ LockInv' /\ StockHeld'
<1> DEFINE from == pc[r]
<1>1. Goto(r, from, "died") /\ "died" \in PCs \ {"insert", "return"}
  BY DEF Die, Goto, PCs, Ended
<1>2. faults' \in 0..MaxFault
  BY Budget DEF Die
<1>3. keys' \in SUBSET Users /\ turnedAway' \in SUBSET Users
      /\ UNCHANGED <<stock, table, borrowed>>
  BY DEF Die, TypeOK, blame
<1>4. /\ invLock \in {None} \union {q \in Creates : pc[q] = "insert"}
      /\ rowLock \in [Users -> {None} \union {c \in Cancels : pc[c] = "return"}]
      /\ r # None
  BY RequestsAssumption DEF TypeOK, Requests
<1>5. invLock' = IF from = "insert" THEN None ELSE invLock
  <2>1. from = "insert" <=> invLock = r
    BY <1>4, RoleOf DEF LockInv, InventoryLocked
  <2>2. QED
    BY <2>1 DEF Die
<1>6. rowLock' = IF from = "return" THEN [rowLock EXCEPT ![Target[r]] = None] ELSE rowLock
  <2>1. ASSUME NEW u \in Users
        PROVE  rowLock[u] = r <=> from = "return" /\ u = Target[r]
    BY <1>4, RoleOf DEF LockInv, OrderLocked
  <2>2. rowLock' = [u \in Users |-> IF rowLock[u] = r THEN None ELSE rowLock[u]]
    BY DEF Die
  <2>3. QED
    BY <1>4, <2>1, <2>2
<1> HIDE DEF from
<1>7. QED
  BY <1>1, <1>2, <1>3, <1>5, <1>6, IdleStep

\* The requests that run neither transaction.
LEMMA OutsideStep ==
  ASSUME TypeOK, LockInv, StockHeld, NEW r \in Requests,
         \/ Acquire(r) \/ Duplicate(r) \/ Fallback(r) \/ OnSale(r) \/ TurnAway(r)
         \/ DeductRefused(r) \/ InsertFails(r) \/ Release(r) \/ ReturnFails(r)
  PROVE  TypeOK' /\ LockInv' /\ StockHeld'
<1>1. PICK from \in {"new", "check", "deduct", "insert", "release", "return"},
           to \in {"check", "deduct", "release", "refused"} : 
        /\ Goto(r, from, to)
        /\ from = "new" => r \in Creates
        /\ from = "return" => to = "refused"
        /\ invLock' = IF from = "insert" THEN None ELSE invLock
        /\ rowLock' = IF from = "return" THEN [rowLock EXCEPT ![Target[r]] = None]
                                         ELSE rowLock
  BY DEF Acquire, Duplicate, Fallback, OnSale, TurnAway, DeductRefused, InsertFails,
         Release, ReturnFails, locks
<1>2. r \in Cancels => to \notin {"check", "deduct", "release"}
  <2>1. pc[r] = from
    BY <1>1, Moves
  <2>2. from # "return" => r \in Creates
    BY <1>1, <2>1, RoleOf DEF LockInv
  <2>3. QED
    BY <1>1, <2>2, RequestsAssumption
<1>3. to \in PCs \ {"insert", "return"}
  BY <1>1 DEF PCs, Busy, Ended
<1>4. /\ UNCHANGED <<stock, table, borrowed>>
      /\ keys' \in SUBSET Users /\ turnedAway' \in SUBSET Users
      /\ Fine \/ Fault
  <2>1. /\ keys \in SUBSET Users /\ turnedAway \in SUBSET Users /\ Owner[r] \in Users
    BY OwnerType DEF TypeOK
  <2>2. CASE Acquire(r) \/ Fallback(r)
    BY <2>1, <2>2 DEF Acquire, Fallback, blame
  <2>3. CASE Duplicate(r) \/ OnSale(r) \/ TurnAway(r)
    BY <2>1, <2>3 DEF Duplicate, OnSale, TurnAway, blame
  <2>4. CASE DeductRefused(r) \/ InsertFails(r) \/ ReturnFails(r)
    BY <2>1, <2>4 DEF DeductRefused, InsertFails, ReturnFails, blame
  <2>5. CASE Release(r)
    BY <2>1, <2>5 DEF Release, blame
  <2>6. QED
    BY <2>2, <2>3, <2>4, <2>5
<1>5. faults' \in 0..MaxFault
  BY <1>4, Budget
<1>6. QED
  BY <1>1, <1>2, <1>3, <1>4, <1>5, IdleStep

\* Steps of no request: a Seckill orders, a key expires.
LEMMA OtherStep ==
  ASSUME TypeOK, LockInv, StockHeld, NEW u \in Users, SeckillOrder(u) \/ KeyExpires(u)
  PROVE  TypeOK' /\ LockInv' /\ StockHeld'
<1>1. /\ UNCHANGED <<pc, available, locked, cancelled, invLock, rowLock,
                     turnedAway, borrowed, faults>>
      /\ keys' \in SUBSET Users
  BY DEF SeckillOrder, KeyExpires, stock, table, locks, blame, Fine, TypeOK
<1>2. /\ placed' \in [Users -> {"none", "sync", "seckill"}]
      /\ \A v \in Users : /\ placed[v] # "none" => placed'[v] # "none"
                          /\ placed'[v] = "sync" <=> placed[v] = "sync"
  BY DEF SeckillOrder, KeyExpires, table, TypeOK
<1>3. cancelled' \in SUBSET {v \in Users : placed'[v] # "none"}
  BY <1>1, <1>2 DEF TypeOK
<1>4. TypeOK'
  BY <1>1, <1>2, <1>3 DEF TypeOK
<1>5. LockInv'
  BY <1>1, <1>2, TargetAssumption DEF LockInv, InventoryLocked, OrderLocked, Roles
<1>6. StockHeld'
  <2>1. Pending' = Pending
    BY <1>1, <1>2 DEF Pending
  <2>2. QED
    BY <1>1, <2>1 DEF StockHeld, Pending, Units
<1>7. QED
  BY <1>4, <1>5, <1>6

-----------------------------------------------------------------------------
(* Every key is explained *)

\* A request moves on: a key stays explained if the request is not what explains
\* it, or goes on explaining it, or leaves no key without an order or a refusal.
LEMMA KeyKept ==
  ASSUME TypeOK, KeyExplained, NEW r \in Requests, NEW from, NEW to, Goto(r, from, to),
         Fine \/ Fault,
         \A u \in Users : placed[u] # "none" => placed'[u] # "none",
         turnedAway \subseteq turnedAway',
         faults' = 0 =>
           \/ keys' \subseteq keys /\ (r \in Cancels \/ from \notin Busy)
           \/ keys' \subseteq keys \union {Owner[r]} /\ r \in Creates /\ to \in Busy
           \/ /\ keys' \subseteq keys
              /\ Owner[r] \in keys' => placed'[Owner[r]] # "none" \/ Owner[r] \in turnedAway'
  PROVE  KeyExplained'
<1> SUFFICES ASSUME faults' = 0, NEW u \in keys'
             PROVE  \/ placed'[u] # "none" \/ u \in turnedAway'
                    \/ \E q \in Creates : Owner[q] = u /\ pc'[q] \in Busy
  BY DEF KeyExplained
<1>1. faults = 0
  BY Budget
<1>2. pc[r] = from /\ pc'[r] = to /\ \A q \in Requests \ {r} : pc'[q] = pc[q]
  BY Moves
<1>3. CASE u \in keys
  <2>1. u \in Users
    BY <1>3 DEF TypeOK
  <2>2. CASE placed[u] # "none" \/ u \in turnedAway
    BY <2>1, <2>2
  <2>3. CASE \E q \in Creates : Owner[q] = u /\ pc[q] \in Busy
    <3>1. PICK q \in Creates : Owner[q] = u /\ pc[q] \in Busy
      BY <2>3
    <3>2. CASE q # r
      BY <1>2, <3>1, <3>2 DEF Requests
    <3>3. CASE q = r
      BY <1>2, <3>1, <3>3, RequestsAssumption
    <3>4. QED
      BY <3>2, <3>3
  <2>4. QED
    BY <1>1, <1>3, <2>2, <2>3 DEF KeyExplained
<1>4. CASE u \notin keys
  BY <1>2, <1>4
<1>5. QED
  BY <1>3, <1>4

LEMMA KeyStep ==
  ASSUME TypeOK, LockInv, KeyExplained, Next
  PROVE  KeyExplained'
<1> USE DEF Busy, Ended
<1>1. ASSUME NEW r \in Requests, Acquire(r) PROVE KeyExplained'
  BY <1>1, KeyKept DEF Acquire, table, blame
<1>2. ASSUME NEW r \in Requests, Duplicate(r) PROVE KeyExplained'
  BY <1>2, KeyKept DEF Duplicate, table, blame
<1>3. ASSUME NEW r \in Requests, Fault PROVE KeyExplained'
  BY <1>3, Budget DEF KeyExplained
<1>4. ASSUME NEW r \in Requests, OnSale(r) \/ Deduct(r) PROVE KeyExplained'
  <2>1. PICK from \in {"check", "deduct"}, to \in {"deduct", "insert"} :
          Goto(r, from, to)
    BY <1>4 DEF OnSale, Deduct
  <2>2. r \in Creates
    BY <2>1, Moves, RoleOf DEF LockInv
  <2>3. QED
    BY <1>4, <2>1, <2>2, KeyKept DEF OnSale, Deduct, table, blame
<1>5. ASSUME NEW r \in Requests, TurnAway(r) PROVE KeyExplained'
  BY <1>5, KeyKept DEF TurnAway, table
<1>6. ASSUME NEW r \in Requests, DeductRefused(r) \/ InsertFails(r) PROVE KeyExplained'
  <2>1. PICK from \in {"deduct", "insert"} : Goto(r, from, "release")
    BY <1>6 DEF DeductRefused, InsertFails
  <2>2. r \in Creates
    BY <2>1, Moves, RoleOf DEF LockInv
  <2>3. QED
    BY <1>6, <2>1, <2>2, KeyKept DEF DeductRefused, InsertFails, table, blame
<1>7. ASSUME NEW r \in Requests, Insert(r) PROVE KeyExplained'
  <2>1. PICK to : Goto(r, "insert", to)
    BY <1>7 DEF Insert
  <2>2. Owner[r] \in Users /\ placed' = [placed EXCEPT ![Owner[r]] = "sync"]
    BY <1>7, OwnerType DEF Insert
  <2>3. /\ placed'[Owner[r]] # "none"
        /\ \A u \in Users : placed[u] # "none" => placed'[u] # "none"
    BY <2>2 DEF TypeOK
  <2>4. QED
    BY <1>7, <2>1, <2>3, KeyKept DEF Insert, blame
<1>8. ASSUME NEW r \in Requests, Release(r) PROVE KeyExplained'
  <2>1. CASE Fault
    BY <1>3, <2>1
  <2>2. CASE keys' = keys \ {Owner[r]} /\ Fine
    BY <1>8, <2>2, KeyKept DEF Release, table, blame
  <2>3. QED
    BY <1>8, <2>1, <2>2 DEF Release
<1>9. ASSUME NEW c \in Requests, LockOrder(c) PROVE KeyExplained'
  <2>1. PICK to : Goto(c, "new", to)
    BY <1>9 DEF LockOrder
  <2>2. QED
    BY <1>9, <2>1, KeyKept DEF LockOrder, table, blame
<1>10. ASSUME NEW c \in Requests, Return(c) \/ ReturnFails(c) PROVE KeyExplained'
  <2>1. PICK to : Goto(c, "return", to)
    BY <1>10 DEF Return, ReturnFails
  <2>2. c \in Cancels
    BY <2>1, Moves, RoleOf DEF LockInv
  <2>3. QED
    BY <1>10, <2>1, <2>2, KeyKept DEF Return, ReturnFails, table, blame
<1>11. ASSUME NEW u \in Users, SeckillOrder(u) PROVE KeyExplained'
  <2>1. /\ keys' = keys \union {u} /\ placed' = [placed EXCEPT ![u] = "seckill"]
        /\ UNCHANGED <<pc, turnedAway, faults>>
    BY <1>11 DEF SeckillOrder, blame, Fine
  <2>2. \A v \in Users : v = u \/ placed[v] # "none" => placed'[v] # "none"
    BY <2>1 DEF TypeOK
  <2>3. keys \in SUBSET Users
    BY DEF TypeOK
  <2>4. QED
    BY <2>1, <2>2, <2>3 DEF KeyExplained
<1>12. ASSUME NEW u \in Users, KeyExpires(u) PROVE KeyExplained'
  BY <1>12 DEF KeyExpires, KeyExplained, table, blame, Fine
<1>13. QED
  BY <1>1, <1>2, <1>3, <1>4, <1>5, <1>6, <1>7, <1>8, <1>9, <1>10, <1>11, <1>12,
     BuyersAssumption
  DEF Next, Arrive, Continue, Fallback, Die, Requests

-----------------------------------------------------------------------------
(* Theorems *)

LEMMA SyncInit == Init => SyncInv
<1> SUFFICES ASSUME Init PROVE SyncInv
  OBVIOUS
<1>1. TypeOK
  <2>1. /\ pc \in [Creates \union Cancels -> {"new"} \union Busy \union Ended]
        /\ placed \in [Users -> {"none", "sync", "seckill"}]
        /\ rowLock \in [Users -> {None} \union {c \in Cancels : pc[c] = "return"}]
    BY DEF Init
  <2>2. faults \in 0..MaxFault /\ available \in Nat /\ locked \in Nat
    BY BoundsAssumption DEF Init
  <2>3. QED
    BY <2>1, <2>2 DEF Init, TypeOK
<1>2. LockInv
  BY DEF Init, LockInv, InventoryLocked, OrderLocked, Roles
<1>3. StockHeld
  <2>1. Pending = {}
    BY DEF Init, Pending
  <2>2. UNION {{u} \X (1..Quantity[u]) : u \in Pending} = {}
    BY <2>1
  <2>3. Units(Pending) = 0
    BY <2>2, FS_EmptySet DEF Units
  <2>4. QED
    BY <2>3, BoundsAssumption DEF Init, StockHeld, Pending
<1>4. KeyExplained
  BY DEF Init, KeyExplained
<1>5. QED
  BY <1>1, <1>2, <1>3, <1>4 DEF SyncInv

LEMMA SyncStep == SyncInv /\ [Next]_vars => SyncInv'
<1> SUFFICES ASSUME SyncInv, [Next]_vars PROVE SyncInv'
  OBVIOUS
<1>a. TypeOK /\ LockInv /\ StockHeld /\ KeyExplained
  BY DEF SyncInv
<1>1. CASE UNCHANGED vars
  BY <1>1, <1>a
  DEF vars, SyncInv, TypeOK, LockInv, InventoryLocked, OrderLocked, Roles, StockHeld,
      Units, KeyExplained
<1>2. CASE Next
  <2>1. KeyExplained'
    BY <1>2, <1>a, KeyStep
  <2>2. ASSUME NEW r \in Requests, Arrive(r) \/ Continue(r) \/ Die(r)
        PROVE  TypeOK' /\ LockInv' /\ StockHeld'
    BY <1>a, <2>2, OutsideStep, DeductStep, InsertStep, LockOrderStep, ReturnStep, DieStep
    DEF Arrive, Continue
  <2>3. ASSUME NEW u \in Users, SeckillOrder(u) \/ KeyExpires(u)
        PROVE  TypeOK' /\ LockInv' /\ StockHeld'
    BY <1>a, <2>3, OtherStep
  <2>4. TypeOK' /\ LockInv' /\ StockHeld'
    BY <1>2, <2>2, <2>3, BuyersAssumption DEF Next, Requests
  <2>5. QED
    BY <2>1, <2>4 DEF SyncInv
<1>3. QED
  BY <1>1, <1>2

\* The invariant holds however creates, cancels, Seckills, faults and deaths
\* interleave.
THEOREM SyncInvariant == Spec => []SyncInv
BY SyncInit, SyncStep, PTL DEF Spec

\* The inventory row never becomes negative, only an order that is there is
\* cancelled, and a row lock is held only by a transaction that has not ended.
THEOREM SyncTypeCorrect == Spec => []TypeOK
BY SyncInvariant, PTL DEF SyncInv

\* Two transactions never hold one row: not two CreateOrders the inventory row, and
\* not two CancelOrders the order of a user.
THEOREM TransactionsExclude ==
  Spec => [](/\ \A q, r \in Creates : pc[q] = "insert" /\ pc[r] = "insert" => q = r
             /\ \A c, d \in Cancels :
                  pc[c] = "return" /\ pc[d] = "return" /\ Target[c] = Target[d] => c = d)
<1>1. SyncInv =>
        /\ \A q, r \in Creates : pc[q] = "insert" /\ pc[r] = "insert" => q = r
        /\ \A c, d \in Cancels :
             pc[c] = "return" /\ pc[d] = "return" /\ Target[c] = Target[d] => c = d
  BY DEF SyncInv, LockInv, InventoryLocked, OrderLocked
<1>2. QED
  BY <1>1, SyncInvariant, PTL

\* Insert, Return and their rollbacks keep the inventory row equal to what the
\* pending orders of CreateOrder hold, until a Seckill order is cancelled.
THEOREM StockIsHeld == Spec => []StockHeld
BY SyncInvariant, PTL DEF SyncInv

\* Without errors, every failed CreateOrder has given its key back.
THEOREM KeysAreExplained == Spec => []KeyExplained
BY SyncInvariant, PTL DEF SyncInv

-----------------------------------------------------------------------------
(* The product cache *)

\* The flight and the updates carry what they have read: an update that is about to
\* save has read a row that the primary has had.
Carried ==
  /\ flight.stage = "fill" => flight.value \in Values
  /\ \A w \in Writers : writer[w] = "write" =>
       /\ Op[w] # "create"
       /\ read[w].at \in DOMAIN history
       /\ read[w].value = history[read[w].at] /\ read[w].value \in Rows

\* A flight that nothing has raced is about to cache the row as it is.
FlightFresh == flight.stage = "fill" /\ ~raced => flight.value = Row

ProductInv == /\ CacheTypeOK /\ Carried /\ FlightFresh
              /\ Coherent /\ UpdatesKept

\* What the constants mean for the values.
LEMMA ProductValues ==
  /\ \A w \in Writers : Op[w] \in Ops
  /\ NoRow \in Values /\ Rows \subseteq Values
  /\ NoRow \notin Rows /\ Absent \notin Values
  /\ \A w \in Writers : [f \in Fields |-> w] \in Rows
  /\ \A w \in Writers, v \in Rows, f \in Fields : [v EXCEPT ![f] = w] \in Rows
BY OpAssumption, ValueAssumption DEF Values, Rows

\* The history is never empty, and the replica holds one of its values.
LEMMA RowType ==
  ASSUME CacheTypeOK
  PROVE  /\ history \in Seq(Values) /\ Len(history) \in Nat
         /\ DOMAIN history = 1..Len(history) /\ applied \in 1..Len(history)
         /\ Len(history) \in 1..Len(history)
         /\ Row \in Values /\ Replica \in Values
<1>1. history \in Seq(Values) /\ applied \in 1..Len(history)
  BY DEF CacheTypeOK
<1>2. /\ Len(history) \in Nat /\ DOMAIN history = 1..Len(history)
      /\ \A i \in 1..Len(history) : history[i] \in Values
  BY <1>1
<1>3. Len(history) \in 1..Len(history)
  BY <1>1, <1>2
<1>4. QED
  BY <1>1, <1>2, <1>3 DEF Row, Replica

\* A change of the row adds a value to its history, which is the row from then on.
LEMMA ChangeStep ==
  ASSUME CacheTypeOK, NEW v \in Values, Change(v)
  PROVE  /\ history' \in Seq(Values) /\ Len(history') = Len(history) + 1
         /\ DOMAIN history' = 1..(Len(history) + 1)
         /\ applied \in 1..Len(history')
         /\ \A i \in DOMAIN history : i \in DOMAIN history' /\ history'[i] = history[i]
         /\ history'[Len(history) + 1] = v /\ Row' = v
         /\ raced' \in BOOLEAN
         /\ ~raced' => ~raced /\ flight.stage # "fill"
<1>1. /\ history \in Seq(Values) /\ Len(history) \in Nat
      /\ DOMAIN history = 1..Len(history) /\ applied \in 1..Len(history)
  BY RowType
<1>2. history' = Append(history, v) /\ raced' = (raced \/ flight.stage = "fill")
  BY DEF Change
<1>3. /\ history' \in Seq(Values) /\ Len(history') = Len(history) + 1
      /\ DOMAIN history' = 1..(Len(history) + 1)
      /\ \A i \in DOMAIN history : i \in DOMAIN history' /\ history'[i] = history[i]
      /\ history'[Len(history) + 1] = v
  BY <1>1, <1>2
<1>4. Row' = v
  BY <1>3 DEF Row
<1>5. raced' \in BOOLEAN /\ (~raced' => ~raced /\ flight.stage # "fill")
  <2>1. raced \in BOOLEAN
    BY DEF CacheTypeOK
  <2>2. QED
    BY <1>2, <2>1, Zenon
<1>6. QED
  BY <1>1, <1>3, <1>4, <1>5

\* The budget of errors is used up, never refilled.
LEMMA ProductBudget ==
  ASSUME CacheTypeOK, NoError \/ Error
  PROVE  errors' \in 0..MaxErrors /\ (Error => errors' > 0)
         /\ (errors > 0 => errors' > 0)
BY ErrorAssumption DEF CacheTypeOK, NoError, Error

-----------------------------------------------------------------------------
(* Steps of GetProductByID and of the environment: the row is left alone *)

\* A GET before its flight starts one if there is none, and reads the cache.
LEMMA GetStep ==
  ASSUME CacheTypeOK, NEW r \in Readers, Get(r)
  PROVE  /\ CacheTypeOK'
         /\ UNCHANGED <<history, cache, writer, read, raced, created, blind, last>>
         /\ flight'.stage = "fill" => flight' = flight
         /\ errors > 0 => errors' > 0
<1>1. CASE Hit(r)
  BY <1>1 DEF CacheTypeOK, Hit, NoError, dbVars,
              writerVars, blameVars, Idle
<1>2. CASE Miss(r)
  <2>1. errors' \in 0..MaxErrors /\ (errors > 0 => errors' > 0)
    BY <1>2, ProductBudget DEF Miss
  <2>2. UNCHANGED <<history, applied, cache, flight, writer, read, raced, created,
                    blind, last>>
    BY <1>2 DEF Miss, dbVars, writerVars, blameVars
  <2>3. reader' = [reader EXCEPT ![r] = "missed"]
    BY <1>2 DEF Miss
  <2>4. QED
    BY <2>1, <2>2, <2>3 DEF CacheTypeOK
<1>3. CASE Join(r)
  <2>1. /\ reader' = [reader EXCEPT ![r] = "waiting"]
        /\ flight' = IF flight = Idle THEN [Idle EXCEPT !.stage = "read"]
                                              ELSE flight
        /\ UNCHANGED <<history, applied, cache, writer, read, raced, created,
                       blind, last, errors>>
    BY <1>3 DEF Join, dbVars, writerVars, blameVars,
                NoError
  <2>2. /\ flight' \in [stage : {"idle", "read", "fill"},
                        value : Values \union {Unknown}]
        /\ flight' # Idle
        /\ flight'.stage = "fill" => flight' = flight
    BY <2>1 DEF CacheTypeOK, Idle
  <2>3. QED
    BY <2>1, <2>2 DEF CacheTypeOK
<1>4. QED
  BY <1>1, <1>2, <1>3 DEF Get

\* Everyone who waits for a flight that ends is answered.
LEMMA LandStep ==
  ASSUME CacheTypeOK, Land
  PROVE  /\ reader' \in [Readers -> {"start", "missed", "waiting", "done"}]
         /\ \A r \in Readers : reader'[r] # "waiting"
         /\ flight' = Idle /\ flight'.stage = "idle"
         /\ flight' \in [stage : {"idle", "read", "fill"},
                         value : Values \union {Unknown}]
BY DEF CacheTypeOK, Land, Idle

LEMMA FlyStep ==
  ASSUME ProductInv, Fly
  PROVE  ProductInv'
<1>a. /\ CacheTypeOK /\ Carried /\ FlightFresh
      /\ Coherent /\ UpdatesKept
  BY DEF ProductInv
<1>b. /\ Row \in Values /\ Replica \in Values
      /\ \A i \in DOMAIN history : i \in 1..Len(history)
  BY <1>a, RowType
<1>1. /\ UNCHANGED <<history, applied, writer, read, created, blind, last>>
      /\ Row' = Row
  BY DEF Fly, FlightReads, FlightFails, FlightFills,
         dbVars, writerVars, blameVars, Row
<1>2. UpdatesKept'
  BY <1>a, <1>1 DEF UpdatesKept
<1>3. CASE FlightReads
  <2>1. /\ flight' = [stage |-> "fill", value |-> Replica]
        /\ raced' = (raced \/ Replica # Row)
        /\ UNCHANGED <<cache, reader, errors>>
    BY <1>3 DEF FlightReads, NoError
  <2>2. raced' \in BOOLEAN /\ (~raced' => ~raced /\ Replica = Row)
    <3>1. raced \in BOOLEAN
      BY <1>a DEF CacheTypeOK
    <3>2. QED
      BY <2>1, <3>1, Zenon
  <2>3. CacheTypeOK'
    <3>1. flight' # Idle
      BY <2>1 DEF Idle
    <3>2. flight' \in [stage : {"idle", "read", "fill"},
                       value : Values \union {Unknown}]
      BY <1>b, <2>1
    <3>3. QED
      BY <1>a, <1>1, <2>1, <2>2, <3>1, <3>2 DEF CacheTypeOK
  <2>4. Carried' /\ FlightFresh'
    BY <1>a, <1>b, <1>1, <2>1, <2>2 DEF Carried, FlightFresh
  <2>5. Coherent'
    BY <1>a, <1>1, <2>1, <2>2 DEF Coherent
  <2>6. QED
    BY <1>2, <2>3, <2>4, <2>5 DEF ProductInv
<1>4. CASE FlightFails \/ FlightFills
  <2>1. /\ Land /\ UNCHANGED raced
        /\ \/ Error /\ UNCHANGED cache
           \/ NoError /\ flight.stage = "fill" /\ cache' = flight.value
    BY <1>4 DEF FlightFails, FlightFills, blameVars
  <2>2. /\ errors' \in 0..MaxErrors /\ (Error => errors' > 0)
        /\ errors > 0 => errors' > 0
    BY <1>a, <2>1, ProductBudget
  <2>3. cache' \in Values \union {Absent}
    BY <1>a, <2>1 DEF Carried, CacheTypeOK
  <2>4. CacheTypeOK'
    BY <1>a, <1>1, <2>1, <2>2, <2>3, LandStep DEF CacheTypeOK
  <2>5. Carried' /\ FlightFresh'
    <3>1. flight'.stage = "idle"
      BY <1>a, <2>1, LandStep
    <3>2. QED
      BY <1>a, <1>1, <3>1 DEF Carried, FlightFresh
  <2>6. Coherent'
    BY <1>a, <1>1, <2>1, <2>2 DEF Coherent, FlightFresh
  <2>7. QED
    BY <1>2, <2>4, <2>5, <2>6 DEF ProductInv
<1>5. QED
  BY <1>3, <1>4 DEF Fly

\* A GET before its flight, an expiry and the replica do not change what is cached
\* for the worse.
LEMMA QuietStep ==
  ASSUME ProductInv, \/ \E r \in Readers : Get(r)
                     \/ Expire \/ Replicate
                     \/ UNCHANGED cacheVars
  PROVE  ProductInv'
<1>a. /\ CacheTypeOK /\ Carried /\ FlightFresh
      /\ Coherent /\ UpdatesKept
  BY DEF ProductInv
<1>1. /\ UNCHANGED <<history, writer, read, raced, created, blind, last>>
      /\ cache' \in {cache, Absent} /\ (errors > 0 => errors' > 0)
      /\ flight'.stage = "fill" => flight' = flight
      /\ CacheTypeOK'
  <2>1. CASE \E r \in Readers : Get(r)
    BY <1>a, <2>1, GetStep
  <2>2. CASE Expire
    BY <1>a, <2>2 DEF Expire, CacheTypeOK, dbVars, readerVars,
                      writerVars, blameVars, NoError
  <2>3. CASE Replicate
    <3>1. applied' \in 1..Len(history)
      BY <1>a, <2>3, RowType DEF Replicate
    <3>2. QED
      BY <1>a, <2>3, <3>1 DEF Replicate, CacheTypeOK, readerVars,
                              writerVars, blameVars, NoError
  <2>4. CASE UNCHANGED cacheVars
    BY <1>a, <2>4 DEF cacheVars, CacheTypeOK
  <2>5. QED
    BY <2>1, <2>2, <2>3, <2>4
<1>2. Row' = Row
  BY <1>1 DEF Row
<1>3. Carried' /\ FlightFresh'
  BY <1>a, <1>1, <1>2 DEF Carried, FlightFresh
<1>4. Coherent' /\ UpdatesKept'
  BY <1>a, <1>1, <1>2 DEF Coherent, UpdatesKept
<1>5. QED
  BY <1>1, <1>3, <1>4 DEF ProductInv

-----------------------------------------------------------------------------
(* Steps of the admin: the row changes, then the entry is dropped *)

\* What an update or a deletion leaves true: the row is v, and whoever changed it is
\* yet to drop the entry, or it is new.
LEMMA WriteStep ==
  ASSUME ProductInv, NEW w \in Writers, NEW v \in Values, NEW to,
         Change(v), writer' = [writer EXCEPT ![w] = to],
         to = "invalidate" \/ (to = "done" /\ created'),
         UNCHANGED <<applied, cache, flight, reader, read, errors>>,
         created' \in BOOLEAN, created => created',
         blind' \in BOOLEAN, last' \in Rows, UpdatesKept'
  PROVE  ProductInv'
<1>a. /\ CacheTypeOK /\ Carried /\ FlightFresh /\ Coherent
  BY DEF ProductInv
<1>1. /\ history' \in Seq(Values) /\ applied' \in 1..Len(history')
      /\ \A i \in DOMAIN history : i \in DOMAIN history' /\ history'[i] = history[i]
      /\ raced' \in BOOLEAN
      /\ ~raced' => ~raced /\ flight.stage # "fill"
  BY <1>a, ChangeStep
<1>2. /\ writer' \in [Writers -> {"start", "write", "invalidate", "done"}]
      /\ writer'[w] = to
      /\ \A x \in Writers \ {w} : writer'[x] = writer[x]
  BY <1>a DEF CacheTypeOK
<1>3. CacheTypeOK'
  BY <1>a, <1>1, <1>2 DEF CacheTypeOK
<1>4. Carried'
  BY <1>a, <1>1, <1>2 DEF Carried
<1>5. FlightFresh'
  BY <1>1 DEF FlightFresh
<1>6. Coherent'
  BY <1>2 DEF Coherent
<1>7. QED
  BY <1>3, <1>4, <1>5, <1>6 DEF ProductInv

\* A row saved by an update that has read the row as it is has the updates of all.
LEMMA SaveStep ==
  ASSUME ProductInv, NEW w \in Writers, Save(w)
  PROVE  ProductInv'
<1> DEFINE v == [read[w].value EXCEPT ![Op[w]] = w]
           n == Len(history)
<1>a. /\ CacheTypeOK /\ Carried /\ UpdatesKept
  BY DEF ProductInv
<1>1. /\ Op[w] \in Fields /\ writer[w] = "write" /\ Change(v)
      /\ last' = IF Row = NoRow THEN v ELSE [last EXCEPT ![Op[w]] = w]
      /\ blind' = (blind \/ read[w].at < Len(history))
      /\ writer' = [writer EXCEPT ![w] = "invalidate"]
      /\ UNCHANGED <<applied, cache, flight, reader, read, created, errors>>
  BY DEF Save, readerVars, NoError
<1>2. /\ read[w].at \in DOMAIN history /\ read[w].value = history[read[w].at]
      /\ read[w].value \in Rows
  BY <1>a, <1>1 DEF Carried
<1>3. v \in Rows /\ v \in Values /\ NoRow \notin Rows
  BY <1>1, <1>2, ProductValues
<1>4. last' \in Rows
  BY <1>a, <1>1, <1>3, ProductValues DEF CacheTypeOK
<1>5. /\ n \in Nat /\ DOMAIN history = 1..n /\ DOMAIN history' = 1..(n + 1)
      /\ \A i \in 1..n : history'[i] = history[i]
      /\ history'[n + 1] = v /\ Row' = v
  BY <1>a, <1>1, <1>3, ChangeStep, RowType
<1>6. blind' \in BOOLEAN /\ (~blind' => ~blind /\ ~(read[w].at < Len(history)))
  <2>1. blind \in BOOLEAN
    BY <1>a DEF CacheTypeOK
  <2>2. QED
    BY <1>1, <2>1, Zenon
<1>7. UpdatesKept'
  <2> SUFFICES ASSUME ~blind'
               PROVE  /\ v = last'
                      /\ \A i, j \in DOMAIN history' :
                           i < j /\ history'[i] # NoRow /\ history'[j] = NoRow => FALSE
    BY <1>5 DEF UpdatesKept
  <2>1. read[w].at = n
    BY <1>2, <1>5, <1>6
  <2>2. read[w].value = Row /\ Row # NoRow
    BY <1>2, <1>3, <2>1 DEF Row
  <2>3. /\ Row = last
        /\ \A i, j \in DOMAIN history : 
             ~(i < j /\ history[i] # NoRow /\ history[j] = NoRow)
    BY <1>a, <1>6, <2>2 DEF UpdatesKept
  <2>4. v = last'
    BY <1>1, <2>2, <2>3
  <2>5. ASSUME NEW i \in DOMAIN history', NEW j \in DOMAIN history',
               i < j, history'[i] # NoRow, history'[j] = NoRow
        PROVE  FALSE
    <3>1. j # n + 1
      BY <1>3, <1>5, <2>5
    <3>2. i \in 1..n /\ j \in 1..n
      BY <1>5, <2>5, <3>1
    <3>3. QED
      BY <1>5, <2>3, <2>5, <3>2
  <2>6. QED
    BY <2>4, <2>5
<1>8. created' \in BOOLEAN /\ (created => created')
  <2>1. created \in BOOLEAN /\ created' = created
    BY <1>a, <1>1 DEF CacheTypeOK
  <2>2. QED
    BY <2>1, Zenon
<1> HIDE DEF v, n
<1>9. QED
  BY <1>1, <1>3, <1>4, <1>6, <1>7, <1>8, WriteStep

\* A row that is deleted, and a row of a new id, have no update to keep.
LEMMA DeleteStep ==
  ASSUME ProductInv, NEW w \in Writers, DeleteRow(w)
  PROVE  ProductInv'
<1>a. CacheTypeOK
  BY DEF ProductInv
<1>1. /\ Change(NoRow) /\ writer' = [writer EXCEPT ![w] = "invalidate"]
      /\ UNCHANGED <<applied, cache, flight, reader, read, created, blind, last, errors>>
  BY DEF DeleteRow, readerVars, NoError
<1>2. NoRow \in Values
  BY ProductValues
<1>3. Row' = NoRow
  BY <1>a, <1>1, <1>2, ChangeStep
<1>4. UpdatesKept'
  BY <1>3 DEF UpdatesKept
<1>5. /\ created' \in BOOLEAN /\ (created => created')
      /\ blind' \in BOOLEAN /\ last' \in Rows
  <2>1. /\ created \in BOOLEAN /\ created' = created
        /\ blind \in BOOLEAN /\ blind' = blind
        /\ last' \in Rows
    BY <1>a, <1>1 DEF CacheTypeOK
  <2>2. QED
    BY <2>1, Zenon
<1>6. QED
  BY <1>1, <1>2, <1>4, <1>5, WriteStep

LEMMA CreateStep ==
  ASSUME ProductInv, NEW w \in Writers, CreateProduct(w)
  PROVE  ProductInv'
<1> DEFINE v == [f \in Fields |-> w]
           n == Len(history)
<1>a. CacheTypeOK
  BY DEF ProductInv
<1>1. /\ \A i \in DOMAIN history : history[i] = NoRow
      /\ Change(v) /\ last' = v /\ created' = TRUE
      /\ writer' = [writer EXCEPT ![w] = "done"]
      /\ UNCHANGED <<applied, cache, flight, reader, read, blind, errors>>
  BY DEF CreateProduct, readerVars, NoError
<1>2. v \in Rows /\ v \in Values /\ v # NoRow
  BY ProductValues
<1>3. /\ n \in Nat /\ DOMAIN history = 1..n /\ DOMAIN history' = 1..(n + 1)
      /\ \A i \in 1..n : history'[i] = history[i]
      /\ history'[n + 1] = v /\ Row' = v
  BY <1>a, <1>1, <1>2, ChangeStep, RowType
<1>4. UpdatesKept'
  <2>1. ASSUME NEW i \in DOMAIN history', NEW j \in DOMAIN history',
               i < j, history'[i] # NoRow
        PROVE  FALSE
    BY <1>1, <1>3, <2>1
  <2>2. QED
    BY <1>1, <1>3, <2>1 DEF UpdatesKept
<1>5. blind \in BOOLEAN
  BY <1>a DEF CacheTypeOK
<1> HIDE DEF v, n
<1>6. QED
  BY <1>1, <1>2, <1>4, <1>5, WriteStep

\* The read of an update, and the deletion of the entry.
LEMMA AroundWriteStep ==
  ASSUME ProductInv, NEW w \in Writers,
         FindProduct(w) \/ Invalidate(w)
  PROVE  ProductInv'
<1>a. /\ CacheTypeOK /\ Carried /\ FlightFresh
      /\ Coherent /\ UpdatesKept
  BY DEF ProductInv
<1>1. /\ UNCHANGED <<history, applied, flight, reader, raced, created, blind, last>>
      /\ Row' = Row
  BY DEF FindProduct, Invalidate, dbVars, readerVars,
         blameVars, Row
<1>2. FlightFresh' /\ UpdatesKept'
  BY <1>a, <1>1 DEF FlightFresh, UpdatesKept
<1>3. CASE FindProduct(w)
  <2> DEFINE x == [value |-> Replica, at |-> applied]
             to == IF Replica = NoRow THEN "done" ELSE "write"
  <2>1. /\ Op[w] # "create" /\ writer[w] = "start"
        /\ writer' = [writer EXCEPT ![w] = to] /\ read' = [read EXCEPT ![w] = x]
        /\ UNCHANGED <<cache, errors>>
    BY <1>3 DEF FindProduct, NoError
  <2>2. /\ Replica \in Values /\ applied \in DOMAIN history
        /\ applied \in Nat /\ Replica = history[applied]
    BY <1>a, RowType DEF Replica
  <2>3. x \in [value : Values, at : Nat]
    BY <2>2
  <2>4. /\ writer' \in [Writers -> {"start", "write", "invalidate", "done"}]
        /\ read' \in [Writers -> [value : Values, at : Nat]]
        /\ writer'[w] = to /\ read'[w] = x
        /\ \A y \in Writers \ {w} : writer'[y] = writer[y] /\ read'[y] = read[y]
    <3> HIDE DEF x
    <3>1. QED
      BY <1>a, <2>1, <2>3 DEF CacheTypeOK
  <2>5. CacheTypeOK'
    BY <1>a, <1>1, <2>1, <2>4 DEF CacheTypeOK
  <2>6. to = "write" => Replica \in Rows
    BY <2>2 DEF Values
  <2>7. Carried'
    BY <1>a, <1>1, <2>1, <2>2, <2>4, <2>6 DEF Carried
  <2>8. Coherent'
    BY <1>a, <1>1, <2>1, <2>4 DEF Coherent
  <2>9. QED
    BY <1>2, <2>5, <2>7, <2>8 DEF ProductInv
<1>4. CASE Invalidate(w)
  <2>1. /\ writer' = [writer EXCEPT ![w] = "done"] /\ UNCHANGED read
        /\ \/ cache' = Absent /\ NoError
           \/ UNCHANGED cache /\ Error
    BY <1>4 DEF Invalidate
  <2>2. /\ errors' \in 0..MaxErrors /\ (Error => errors' > 0)
    BY <1>a, <2>1, ProductBudget
  <2>3. /\ writer' \in [Writers -> {"start", "write", "invalidate", "done"}]
        /\ \A y \in Writers : writer'[y] = "write" => writer[y] = "write"
    BY <1>a, <2>1 DEF CacheTypeOK
  <2>4. CacheTypeOK'
    BY <1>a, <1>1, <2>1, <2>2, <2>3 DEF CacheTypeOK
  <2>5. Carried'
    BY <1>a, <1>1, <2>1, <2>3 DEF Carried
  <2>6. Coherent'
    BY <2>1, <2>2 DEF Coherent
  <2>7. QED
    BY <1>2, <2>4, <2>5, <2>6 DEF ProductInv
<1>5. QED
  BY <1>3, <1>4

-----------------------------------------------------------------------------
(* Theorems about the product cache *)

LEMMA ProductStart ==
  ASSUME CacheInit
  PROVE  ProductInv
<1>1. PICK v \in {NoRow, [f \in Fields |-> "before"]} : history = <<v>>
  BY DEF CacheInit
<1>2. [f \in Fields |-> "before"] \in Rows
  BY DEF Rows
<1>3. v \in Values
  BY <1>2 DEF Values
<1>4. /\ history \in Seq(Values) /\ Len(history) = 1 /\ DOMAIN history = 1..1
      /\ history[1] = v /\ Row = v
  BY <1>1, <1>3 DEF Row
<1>5. CacheTypeOK
  <2>1. /\ reader \in [Readers -> {"start", "missed", "waiting", "done"}]
        /\ writer \in [Writers -> {"start", "write", "invalidate", "done"}]
        /\ \A r \in Readers : reader[r] # "waiting"
    BY DEF CacheInit
  <2>2. read \in [Writers -> [value : Values, at : Nat]]
    <3>1. [value |-> NoRow, at |-> 0] \in [value : Values, at : Nat]
      BY DEF Values
    <3>2. read = [w \in Writers |-> [value |-> NoRow, at |-> 0]]
      BY DEF CacheInit
    <3>3. QED
      BY <3>1, <3>2, Zenon
  <2>3. /\ flight \in [stage : {"idle", "read", "fill"},
                       value : Values \union {Unknown}]
        /\ cache \in Values \union {Absent}
    BY DEF CacheInit, Idle
  <2>4. errors \in 0..MaxErrors /\ applied \in 1..Len(history)
    BY <1>4, ErrorAssumption DEF CacheInit
  <2>5. last \in Rows
    BY <1>2 DEF CacheInit
  <2>6. raced \in BOOLEAN /\ created \in BOOLEAN /\ blind \in BOOLEAN
    BY DEF CacheInit
  <2>7. QED
    BY <1>4, <2>1, <2>2, <2>3, <2>4, <2>5, <2>6 DEF CacheTypeOK
<1>6. Carried /\ FlightFresh
  BY DEF CacheInit, Idle, Carried, FlightFresh
<1>7. Coherent
  BY DEF CacheInit, Coherent
<1>8. UpdatesKept
  BY <1>1, <1>4 DEF CacheInit, UpdatesKept
<1>9. QED
  BY <1>5, <1>6, <1>7, <1>8 DEF ProductInv

LEMMA ProductStep ==
  ASSUME ProductInv, [CacheNext]_cacheVars
  PROVE  ProductInv'
BY FlyStep, QuietStep, SaveStep, DeleteStep, CreateStep, AroundWriteStep
DEF CacheNext, Write

\* The invariant holds however GETs, flights, admin requests, expiries, errors and
\* the lag of the replica interleave.
THEOREM ProductInvariant == CacheSpec => []ProductInv
<1>1. CacheInit => ProductInv
  BY ProductStart
<1>2. ProductInv /\ [CacheNext]_cacheVars => ProductInv'
  BY ProductStep
<1>3. QED
  BY <1>1, <1>2, PTL DEF CacheSpec

\* In particular nobody waits for a flight that is over: Land answers all of them.
THEOREM ProductTypeCorrect == CacheSpec => []CacheTypeOK
<1>1. ProductInv => CacheTypeOK
  BY DEF ProductInv
<1>2. QED
  BY <1>1, ProductInvariant, PTL

\* Dropping the entry after each change keeps the cache equal to the row, but for
\* the four things cache-aside is not proof against.
THEOREM CacheCoherent == CacheSpec => []Coherent
<1>1. ProductInv => Coherent
  BY DEF ProductInv
<1>2. QED
  BY <1>1, ProductInvariant, PTL

\* As long as no Save hits a row that has changed since it was read, updates of
\* different fields last and a deleted row stays deleted.
THEOREM NoUpdateLost == CacheSpec => []UpdatesKept
<1>1. ProductInv => UpdatesKept
  BY DEF ProductInv
<1>2. QED
  BY <1>1, ProductInvariant, PTL
=============================================================================
