--------------------------- MODULE SeckillProofs ---------------------------
(***************************************************************************)
(* Theorems about Seckill, for any finite set of requests, any users,       *)
(* quantities and budgets: the counter in Redis balances, never admits more *)
(* than the opening stock, and the key admits one request of a user at a    *)
(* time, with the premises on faults that the properties state.            *)
(***************************************************************************)
EXTENDS Seckill, FiniteSetTheorems, TLAPS

\* An order row belongs to the user of the request that created it; unless its
\* commit was taken for a failure, that request runs no command that gives up.
Created ==
  \A u \in Users : order[u] # None =>
    /\ Owner[order[u]] = u
    /\ excess = 0 => pc[order[u]] \in {"answer", "accepted", "died"}

\* Requests that have units of the counter, ...
Held == Reserving \union Live

\* ... and those that the counter admitted.
Kept == {r \in Requests : pc[r] \in {"insert", "rollback"}} \union Live

\* Faults only make the counter too small, and a request is admitted only by a
\* counter that is not negative.
Balance ==
  excess = 0 => /\ stock <= RedisStock - Units(Held)
                /\ faults = 0 => stock = RedisStock - Units(Held)
                /\ Units(Kept) <= RedisStock

\* Without faults: who is admitted has the key and is alone, and an order that is
\* open, or whose compensation is not over, keeps the key from everyone.
Exclusive ==
  faults = 0 /\ excess = 0 =>
    /\ \A r \in Requests : pc[r] \in Admitted => Owner[r] \in lock
    /\ OneAtATime
    /\ \A u \in Users : order[u] # None /\ (fate[u] = "open" \/ u \in releasing) =>
         u \in lock /\ \A r \in Requests : Owner[r] = u => pc[r] \notin Admitted

SeckillInv == TypeOK /\ Created /\ Balance /\ Exclusive

-----------------------------------------------------------------------------
(* Counting units *)

\* Finitely many requests ask for finitely many units.
LEMMA UnitsFinite ==
  ASSUME NEW S \in SUBSET Requests
  PROVE  /\ IsFiniteSet(UNION {{r} \X (1..Want[r]) : r \in S})
         /\ Units(S) \in Nat
<1> DEFINE of(r) == {r} \X (1..Want[r])
           T == {of(r) : r \in S}
           f == [r \in S |-> of(r)]
<1>1. IsFiniteSet(S)
  BY RequestsAssumption, FS_Subset
<1>2. IsFiniteSet(T)
  <2>1. T = {f[r] : r \in S} /\ f \in [S -> T]
    OBVIOUS
  <2>2. f \in Surjection(S, T)
    BY <2>1 DEF Surjection
  <2>3. QED
    BY <1>1, <2>2, FS_Surjection
<1>3. ASSUME NEW t \in T PROVE IsFiniteSet(t)
  <2>1. PICK r \in S : t = {r} \X (1..Want[r])
    BY <1>3
  <2>2. Want[r] \in Nat
    BY <2>1, WantAssumption
  <2>3. IsFiniteSet({r})
    BY FS_Singleton
  <2>4. IsFiniteSet(1..Want[r])
    BY <2>2, FS_Interval
  <2>5. QED
    BY <2>1, <2>3, <2>4, FS_Product
<1>4. IsFiniteSet(UNION T)
  BY <1>2, <1>3, FS_UNION
<1>5. QED
  BY <1>4, FS_CardinalityType DEF Units

\* One more request asks for its quantity more.
LEMMA UnitsAdd ==
  ASSUME NEW S \in SUBSET Requests, NEW r \in Requests, r \notin S
  PROVE  Units(S \union {r}) = Units(S) + Want[r]
<1> DEFINE old == UNION {{q} \X (1..Want[q]) : q \in S}
           new == {r} \X (1..Want[r])
           all == UNION {{q} \X (1..Want[q]) : q \in S \union {r}}
<1>1. all = old \union new /\ old \cap new = {}
  OBVIOUS
<1>2. IsFiniteSet(new) /\ Cardinality(new) = Want[r] /\ Want[r] \in Nat
  <2>1. Want[r] \in Nat /\ Want[r] >= 1
    BY WantAssumption
  <2>2. IsFiniteSet(1..Want[r]) /\ Cardinality(1..Want[r]) = Want[r]
    BY <2>1, FS_Interval
  <2>3. IsFiniteSet({r}) /\ Cardinality({r}) = 1
    BY FS_Singleton
  <2>4. IsFiniteSet(new) /\ Cardinality(new) = 1 * Want[r]
    BY <2>2, <2>3, FS_Product
  <2>5. QED
    BY <2>1, <2>4
<1>3. IsFiniteSet(old) /\ Cardinality(old) \in Nat
  BY UnitsFinite, FS_CardinalityType
<1>4. Units(S) = Cardinality(old) /\ Units(S \union {r}) = Cardinality(all)
  BY DEF Units
<1> HIDE DEF old, new, all
<1>5. Cardinality(old \cap new) = 0
  BY <1>1, FS_EmptySet
<1>6. Cardinality(old \union new)
        = Cardinality(old) + Cardinality(new) - Cardinality(old \cap new)
  BY <1>2, <1>3, FS_Union
<1> DEFINE a == Cardinality(old)
           b == Cardinality(all)
<1>7. a \in Nat /\ b = a + Want[r] - 0
  BY <1>1, <1>2, <1>3, <1>5, <1>6
<1> HIDE DEF a, b
<1>8. b = a + Want[r]
  BY <1>2, <1>7
<1>9. QED
  BY <1>4, <1>8 DEF a, b

\* Fewer requests ask for no more units.
LEMMA UnitsSubset ==
  ASSUME NEW S \in SUBSET Requests, NEW R \in SUBSET S
  PROVE  Units(R) <= Units(S)
<1> DEFINE of(X) == UNION {{q} \X (1..Want[q]) : q \in X}
<1>1. of(R) \subseteq of(S)
  OBVIOUS
<1>2. IsFiniteSet(of(S))
  BY UnitsFinite
<1> HIDE DEF of
<1>3. Cardinality(of(R)) <= Cardinality(of(S))
  BY <1>1, <1>2, FS_Subset
<1>4. QED
  BY <1>3 DEF of, Units

-----------------------------------------------------------------------------
(* Steps *)

\* A request that moves on, and only it.
LEMMA Moves ==
  ASSUME TypeOK, NEW r \in Requests, NEW from, NEW to, Goto(r, from, to)
  PROVE  /\ pc[r] = from /\ pc'[r] = to
         /\ \A q \in Requests \ {r} : pc'[q] = pc[q]
         /\ to \in PCs => pc' \in [Requests -> PCs]
BY DEF Goto, TypeOK

\* The budgets are used up, never refilled.
LEMMA Budget ==
  ASSUME TypeOK, Fine \/ Fault
  PROVE  /\ faults' \in 0..MaxFault /\ excess' = excess /\ excess \in 0..MaxExcess
         /\ faults' = 0 => faults = 0
         /\ Fault => faults' # 0
<1>1. faults \in Nat /\ MaxFault \in Nat
  BY FaultAssumption DEF TypeOK
<1>2. QED
  BY <1>1 DEF TypeOK, Fine, Fault

LEMMA TypeInit == Init => TypeOK
BY StockAssumption, FaultAssumption DEF Init, TypeOK, PCs

\* Of the variables that a request's step changes, most keep their types.
LEMMA TypeRequest ==
  ASSUME TypeOK, NEW r \in Requests, NEW from, NEW to \in PCs, Goto(r, from, to),
         stock' \in Int, lock' \in SUBSET Users,
         faults' \in 0..MaxFault, excess' \in 0..MaxExcess,
         UNCHANGED <<order, fate, releasing>>
  PROVE  TypeOK'
<1>1. pc' \in [Requests -> PCs]
  BY Moves
<1>2. QED
  BY <1>1 DEF TypeOK

LEMMA TypeStep == TypeOK /\ [Next]_vars => TypeOK'
<1> SUFFICES ASSUME TypeOK, [Next]_vars PROVE TypeOK'
  OBVIOUS
<1>a. /\ stock \in Int /\ lock \in SUBSET Users
      /\ faults \in 0..MaxFault /\ excess \in 0..MaxExcess
  BY DEF TypeOK
<1>b. \A r \in Requests : Owner[r] \in Users /\ Want[r] \in Nat
                          /\ stock - Want[r] \in Int /\ stock + Want[r] \in Int
  BY <1>a, OwnerAssumption, WantAssumption
<1> USE DEF PCs, Busy, Ended
<1>1. ASSUME NEW r \in Requests, Acquire(r) \/ Duplicate(r) PROVE TypeOK'
  <2>1. PICK to \in {"check", "rejected"} : Goto(r, "new", to)
    BY <1>1 DEF Acquire, Duplicate
  <2>2. lock' \in SUBSET Users
    BY <1>1, <1>a, <1>b DEF Acquire, Duplicate
  <2>3. QED
    BY <1>1, <1>a, <2>1, <2>2, TypeRequest DEF Acquire, Duplicate, Fine
<1>2. ASSUME NEW r \in Requests, Fallback(r) PROVE TypeOK'
  <2>1. PICK to \in {"check", "rejected"} : Goto(r, "new", to)
    BY <1>2 DEF Fallback
  <2>2. lock' \in SUBSET Users
    BY <1>2, <1>a, <1>b DEF Fallback
  <2>3. faults' \in 0..MaxFault /\ excess' \in 0..MaxExcess
    BY <1>2, <1>a, Budget DEF Fallback
  <2>4. QED
    BY <1>2, <1>a, <2>1, <2>2, <2>3, TypeRequest DEF Fallback
<1>3. ASSUME NEW r \in Requests, OnSale(r) \/ NotOnSale(r) \/ Answer(r) \/ InsertDuplicate(r)
      PROVE  TypeOK'
  <2>1. PICK from, to \in PCs : Goto(r, from, to)
    BY <1>3 DEF OnSale, NotOnSale, Answer, InsertDuplicate
  <2>2. QED
    BY <1>3, <1>a, <2>1, TypeRequest DEF OnSale, NotOnSale, Answer, InsertDuplicate, Fine
<1>4. ASSUME NEW r \in Requests, DecrBy(r) PROVE TypeOK'
  <2>1. PICK to \in PCs : Goto(r, "deduct", to)
    BY <1>4 DEF DecrBy
  <2>2. QED
    BY <1>4, <1>a, <1>b, <2>1, TypeRequest DEF DecrBy, Fine
<1>5. ASSUME NEW r \in Requests, DecrByFails(r) \/ InsertFails(r) PROVE TypeOK'
  <2>1. PICK from, to \in PCs : Goto(r, from, to)
    BY <1>5 DEF DecrByFails, InsertFails
  <2>2. faults' \in 0..MaxFault /\ excess' \in 0..MaxExcess
    BY <1>5, <1>a, Budget DEF DecrByFails, InsertFails
  <2>3. stock' \in Int
    BY <1>5, <1>a, <1>b DEF DecrByFails, InsertFails
  <2>4. QED
    BY <1>5, <1>a, <2>1, <2>2, <2>3, TypeRequest DEF DecrByFails, InsertFails
<1>6. ASSUME NEW r \in Requests, IncrBy(r) PROVE TypeOK'
  <2>1. PICK from : Goto(r, from, "release")
    BY <1>6 DEF IncrBy
  <2>2. faults' \in 0..MaxFault /\ excess' \in 0..MaxExcess
    BY <1>6, <1>a, Budget DEF IncrBy
  <2>3. stock' \in Int
    BY <1>6, <1>a, <1>b DEF IncrBy
  <2>4. QED
    BY <1>6, <1>a, <2>1, <2>2, <2>3, TypeRequest DEF IncrBy
<1>7. ASSUME NEW r \in Requests, Insert(r) \/ InsertUnacknowledged(r) PROVE TypeOK'
  <2>1. PICK to \in PCs : Goto(r, "insert", to)
    BY <1>7 DEF Insert, InsertUnacknowledged
  <2>2. pc' \in [Requests -> PCs]
    BY <2>1, Moves
  <2>3. order' \in [Users -> Requests \union {None}]
    BY <1>7, <1>b DEF Insert, InsertUnacknowledged, TypeOK
  <2>4. \A u \in Users : order'[u] = None => fate[u] = "open"
    BY <1>7, <1>b, NoneAssumption DEF Insert, InsertUnacknowledged, TypeOK
  <2>5. faults' \in 0..MaxFault /\ excess' \in 0..MaxExcess
    BY <1>7, <1>a, FaultAssumption DEF Insert, InsertUnacknowledged, Fine
  <2>6. QED
    BY <1>7, <2>2, <2>3, <2>4, <2>5 DEF Insert, InsertUnacknowledged, TypeOK
<1>8. ASSUME NEW r \in Requests, Release(r) PROVE TypeOK'
  <2>1. faults' \in 0..MaxFault /\ excess' \in 0..MaxExcess
    BY <1>8, <1>a, Budget DEF Release
  <2>2. lock' \in SUBSET Users
    BY <1>8, <1>a DEF Release
  <2>3. QED
    BY <1>8, <1>a, <2>1, <2>2, TypeRequest DEF Release
<1>9. ASSUME NEW r \in Requests, Die(r) PROVE TypeOK'
  <2>1. Goto(r, pc[r], "died")
    BY <1>9 DEF Die, Goto
  <2>2. faults' \in 0..MaxFault /\ excess' \in 0..MaxExcess
    BY <1>9, <1>a, Budget DEF Die
  <2>3. QED
    BY <1>9, <1>a, <2>1, <2>2, TypeRequest DEF Die
<1>10. ASSUME NEW u \in Users, Settle(u) PROVE TypeOK'
  BY <1>10 DEF Settle, Fine, TypeOK
<1>11. ASSUME NEW u \in Users, CompensateStock(u) PROVE TypeOK'
  <2>1. order[u] \in Requests
    BY <1>11 DEF CompensateStock, TypeOK
  <2>2. stock' \in Int
    BY <1>11, <1>a, <1>b, <2>1 DEF CompensateStock, RollbackRedis
  <2>3. faults' \in 0..MaxFault /\ excess' \in 0..MaxExcess
    BY <1>11, <1>a, Budget DEF CompensateStock, RollbackRedis
  <2>4. QED
    BY <1>11, <2>2, <2>3 DEF CompensateStock, TypeOK
<1>12. ASSUME NEW u \in Users, CompensateAgain(u) PROVE TypeOK'
  <2>1. order[u] \in Requests
    BY <1>12 DEF CompensateAgain, TypeOK
  <2>2. stock' \in Int
    BY <1>12, <1>b, <2>1 DEF CompensateAgain
  <2>3. excess' \in 0..MaxExcess
    BY <1>12, <1>a, FaultAssumption DEF CompensateAgain
  <2>4. QED
    BY <1>12, <2>2, <2>3 DEF CompensateAgain, TypeOK
<1>13. ASSUME NEW u \in Users, CompensateKey(u) PROVE TypeOK'
  <2>1. faults' \in 0..MaxFault /\ excess' \in 0..MaxExcess
    BY <1>13, <1>a, Budget DEF CompensateKey
  <2>2. QED
    BY <1>13, <2>1 DEF CompensateKey, TypeOK
<1>14. ASSUME NEW u \in Users, KeyExpires(u) PROVE TypeOK'
  BY <1>14 DEF KeyExpires, TypeOK
<1>15. CASE UNCHANGED vars
  BY <1>15 DEF vars, TypeOK
<1>16. QED
  BY <1>1, <1>2, <1>3, <1>4, <1>5, <1>6, <1>7, <1>8, <1>9, <1>10, <1>11, <1>12,
     <1>13, <1>14, <1>15
  DEF Next, Arrive, Continue

-----------------------------------------------------------------------------
(* Orders and the requests that created them *)

\* A step of a request that creates no order.
LEMMA CreatedRequest ==
  ASSUME TypeOK, Created, NEW r \in Requests, NEW from, NEW to, Goto(r, from, to),
         from \in {"answer", "accepted", "died"} => to \in {"answer", "accepted", "died"},
         excess' = 0 => excess = 0, order' = order
  PROVE  Created'
<1> SUFFICES ASSUME NEW u \in Users, order[u] # None
             PROVE  /\ Owner[order[u]] = u
                    /\ excess' = 0 => pc'[order[u]] \in {"answer", "accepted", "died"}
  BY DEF Created
<1>1. order[u] \in Requests /\ Owner[order[u]] = u
      /\ (excess = 0 => pc[order[u]] \in {"answer", "accepted", "died"})
  BY DEF Created, TypeOK
<1>2. pc[r] = from /\ pc'[r] = to /\ \A q \in Requests \ {r} : pc'[q] = pc[q]
  BY Moves
<1>3. QED
  BY <1>1, <1>2

LEMMA CreatedStep == TypeOK /\ Created /\ [Next]_vars => Created'
<1> SUFFICES ASSUME TypeOK, Created, [Next]_vars PROVE Created'
  OBVIOUS
<1>1. ASSUME NEW r \in Requests, Arrive(r) PROVE Created'
  <2>1. PICK to : Goto(r, "new", to)
    BY <1>1 DEF Arrive, Acquire, Duplicate, Fallback
  <2>2. order' = order /\ excess' = excess
    BY <1>1 DEF Arrive, Acquire, Duplicate, Fallback, Fine, Fault
  <2>3. QED
    BY <2>1, <2>2, CreatedRequest
<1>2. ASSUME NEW r \in Requests,
             \/ OnSale(r) \/ NotOnSale(r) \/ DecrBy(r) \/ DecrByFails(r) \/ IncrBy(r)
             \/ InsertDuplicate(r) \/ InsertFails(r) \/ Release(r) \/ Answer(r) \/ Die(r)
      PROVE  Created'
  <2>1. order' = order /\ excess' = excess
    BY <1>2 DEF OnSale, NotOnSale, DecrBy, DecrByFails, IncrBy, InsertDuplicate,
                InsertFails, Release, Answer, Die, Fine, Fault
  <2>2. PICK from, to : Goto(r, from, to)
          /\ (from \in {"answer", "accepted", "died"} => to \in {"answer", "accepted", "died"})
    BY <1>2 DEF OnSale, NotOnSale, DecrBy, DecrByFails, IncrBy, InsertDuplicate,
                InsertFails, Release, Answer, Die, Goto
  <2>3. QED
    BY <2>1, <2>2, CreatedRequest
<1>3. ASSUME NEW r \in Requests, Insert(r) \/ InsertUnacknowledged(r) PROVE Created'
  <2>1. /\ order[Owner[r]] = None /\ order' = [order EXCEPT ![Owner[r]] = r]
        /\ Owner[r] \in Users
    BY <1>3, OwnerAssumption DEF Insert, InsertUnacknowledged
  <2>2. /\ pc[r] = "insert" /\ \A q \in Requests \ {r} : pc'[q] = pc[q]
        /\ excess' = 0 => pc'[r] = "answer" /\ excess = 0
    BY <1>3, Moves DEF Insert, InsertUnacknowledged, Fine, TypeOK
  <2> SUFFICES ASSUME NEW u \in Users, order'[u] # None
               PROVE  /\ Owner[order'[u]] = u
                      /\ excess' = 0 => pc'[order'[u]] \in {"answer", "accepted", "died"}
    BY DEF Created
  <2>3. CASE u = Owner[r]
    BY <2>1, <2>2, <2>3 DEF TypeOK
  <2>4. CASE u # Owner[r]
    <3>1. order'[u] = order[u] /\ order[u] \in Requests /\ Owner[order[u]] = u
          /\ (excess = 0 => pc[order[u]] \in {"answer", "accepted", "died"})
      BY <2>1, <2>4 DEF TypeOK, Created
    <3>2. order[u] # r
      BY <2>4, <3>1
    <3>3. QED
      BY <2>2, <3>1, <3>2
  <2>5. QED
    BY <2>3, <2>4
<1>4. ASSUME NEW u \in Users,
             \/ Settle(u) \/ CompensateStock(u) \/ CompensateAgain(u)
             \/ CompensateKey(u) \/ KeyExpires(u)
      PROVE  Created'
  <2>1. order' = order /\ pc' = pc
    BY <1>4 DEF Settle, CompensateStock, CompensateAgain, CompensateKey, KeyExpires
  <2>2. excess' = 0 => excess = 0
    <3>1. excess \in Nat
      BY FaultAssumption DEF TypeOK
    <3>2. QED
      BY <1>4, <3>1 DEF Settle, CompensateStock, CompensateAgain, CompensateKey,
                        KeyExpires, RollbackRedis, Fine, Fault
  <2>3. QED
    BY <2>1, <2>2 DEF Created
<1>5. CASE UNCHANGED vars
  BY <1>5 DEF vars, Created
<1>6. QED
  BY <1>1, <1>2, <1>3, <1>4, <1>5 DEF Next, Continue

-----------------------------------------------------------------------------
(* The counter *)

\* Who holds units are requests; a live order's request gives up nothing.
LEMMA HeldType ==
  ASSUME TypeOK
  PROVE  /\ Held \in SUBSET Requests /\ Kept \in SUBSET Held /\ Live \in SUBSET Held
         /\ \A S \in SUBSET Requests : Units(S) \in Nat
         /\ stock \in Int /\ RedisStock \in Nat
         /\ \A r \in Requests : Want[r] \in Nat
BY UnitsFinite, StockAssumption, WantAssumption DEF Held, Kept, Reserving, Live, TypeOK

LEMMA LiveDone ==
  ASSUME Created, excess = 0, NEW r \in Live
  PROVE  pc[r] \in {"answer", "accepted", "died"}
BY DEF Created, Live

\* Nothing is taken or given.
LEMMA Same ==
  ASSUME TypeOK, TypeOK', Balance, excess' = 0 => excess = 0 /\ Held' = Held /\ Kept' \subseteq Kept,
         faults' = 0 => faults = 0, stock' = stock
  PROVE  Balance'
<1> SUFFICES ASSUME excess' = 0
             PROVE  /\ stock' <= RedisStock - Units(Held')
                    /\ faults' = 0 => stock' = RedisStock - Units(Held')
                    /\ Units(Kept') <= RedisStock
  BY DEF Balance, Units
<1>1. Units(Kept') <= Units(Kept) /\ Units(Kept') \in Nat /\ Units(Kept) \in Nat
  <2>1. Kept \in SUBSET Requests /\ Kept' \in SUBSET Kept
    BY HeldType
  <2>2. QED
    BY <2>1, UnitsSubset, UnitsFinite
<1>2. QED
  BY <1>1, HeldType DEF Balance

\* A fault takes units from the counter, or fails to give some back.
LEMMA Lose ==
  ASSUME TypeOK, TypeOK', Balance, faults' # 0, stock' <= stock,
         excess' = 0 => excess = 0 /\ Held' \subseteq Held /\ Kept' \subseteq Kept
  PROVE  Balance'
<1> SUFFICES ASSUME excess' = 0
             PROVE  /\ stock' <= RedisStock - Units(Held')
                    /\ Units(Kept') <= RedisStock
  BY DEF Balance, Units
<1>1. /\ Held \in SUBSET Requests /\ Kept \in SUBSET Requests
      /\ Held' \in SUBSET Held /\ Kept' \in SUBSET Kept
      /\ stock \in Int /\ stock' \in Int /\ RedisStock \in Nat
  BY HeldType DEF TypeOK
<1>2. Units(Kept') <= Units(Kept) /\ Units(Held') <= Units(Held)
  BY <1>1, UnitsSubset
<1>3. /\ Units(Kept') \in Nat /\ Units(Kept) \in Nat
      /\ Units(Held') \in Nat /\ Units(Held) \in Nat
  BY <1>1, UnitsFinite
<1>4. stock <= RedisStock - Units(Held) /\ Units(Kept) <= RedisStock
  BY DEF Balance
<1>5. QED
  BY <1>1, <1>2, <1>3, <1>4

\* A DECRBY, which admits the request if the counter is not negative.
LEMMA Take ==
  ASSUME TypeOK, TypeOK', Balance, NEW r \in Requests, stock' = stock - Want[r],
         UNCHANGED <<faults, excess>>,
         excess = 0 => /\ r \notin Held /\ Held' = Held \union {r}
                       /\ Kept' \subseteq Kept \/ (stock' >= 0 /\ Kept' \subseteq Held')
  PROVE  Balance'
<1> SUFFICES ASSUME excess = 0
             PROVE  /\ stock' <= RedisStock - Units(Held')
                    /\ faults = 0 => stock' = RedisStock - Units(Held')
                    /\ Units(Kept') <= RedisStock
  BY DEF Balance, Units
<1>1. /\ Held \in SUBSET Requests /\ Kept \in SUBSET Requests
      /\ Held' \in SUBSET Requests
      /\ stock \in Int /\ stock' \in Int /\ RedisStock \in Nat /\ Want[r] \in Nat
  BY HeldType DEF TypeOK
<1>2. Units(Held') = Units(Held) + Want[r]
  BY <1>1, UnitsAdd
<1>3. Units(Held) \in Nat /\ Units(Held') \in Nat /\ Units(Kept) \in Nat
  BY <1>1, UnitsFinite
<1>4. /\ stock <= RedisStock - Units(Held)
      /\ faults = 0 => stock = RedisStock - Units(Held)
      /\ Units(Kept) <= RedisStock
  BY DEF Balance
<1>5. stock' <= RedisStock - Units(Held')
      /\ (faults = 0 => stock' = RedisStock - Units(Held'))
  BY <1>1, <1>2, <1>3, <1>4
<1>6. CASE Kept' \subseteq Kept
  <2>1. Units(Kept') <= Units(Kept) /\ Units(Kept') \in Nat
    BY <1>1, <1>6, UnitsSubset, UnitsFinite
  <2>2. QED
    BY <1>1, <1>3, <1>4, <1>5, <2>1
<1>7. CASE stock' >= 0 /\ Kept' \subseteq Held'
  <2>1. Units(Kept') <= Units(Held') /\ Units(Kept') \in Nat
    BY <1>1, <1>7, UnitsSubset, UnitsFinite
  <2>2. QED
    BY <1>1, <1>3, <1>5, <1>7, <2>1
<1>8. QED
  BY <1>6, <1>7

\* An INCRBY of what a request that held units held.
LEMMA Give ==
  ASSUME TypeOK, TypeOK', Balance, NEW r \in Requests, stock' = stock + Want[r],
         UNCHANGED <<faults, excess>>,
         excess = 0 => r \in Held /\ Held' = Held \ {r} /\ Kept' \subseteq Kept
  PROVE  Balance'
<1> SUFFICES ASSUME excess = 0
             PROVE  /\ stock' <= RedisStock - Units(Held')
                    /\ faults = 0 => stock' = RedisStock - Units(Held')
                    /\ Units(Kept') <= RedisStock
  BY DEF Balance, Units
<1>1. /\ Held \in SUBSET Requests /\ Kept \in SUBSET Requests
      /\ Held' \in SUBSET Requests /\ Held = Held' \union {r} /\ r \notin Held'
      /\ stock \in Int /\ stock' \in Int /\ RedisStock \in Nat /\ Want[r] \in Nat
  BY HeldType DEF TypeOK
<1>2. Units(Held' \union {r}) = Units(Held') + Want[r]
  BY <1>1, UnitsAdd
<1>3. Units(Held) = Units(Held') + Want[r]
  BY <1>1, <1>2
<1>4. Units(Kept') <= Units(Kept)
  BY <1>1, UnitsSubset
<1>5. /\ Units(Held) \in Nat /\ Units(Held') \in Nat
      /\ Units(Kept) \in Nat /\ Units(Kept') \in Nat
  BY <1>1, UnitsFinite
<1>6. /\ stock <= RedisStock - Units(Held)
      /\ faults = 0 => stock = RedisStock - Units(Held)
      /\ Units(Kept) <= RedisStock
  BY DEF Balance
<1>7. QED
  BY <1>1, <1>3, <1>4, <1>5, <1>6

\* A request's step that creates no order and moves between commands at which it
\* holds the same changes nothing of who holds units.
LEMMA HeldSame ==
  ASSUME TypeOK, NEW r \in Requests, NEW from, NEW to, Goto(r, from, to),
         UNCHANGED <<order, fate>>,
         from \in {"giveback", "insert", "rollback"} <=> to \in {"giveback", "insert", "rollback"},
         from \in {"insert", "rollback"} <=> to \in {"insert", "rollback"}
  PROVE  Held' = Held /\ Kept' = Kept
<1>1. Live' = Live
  BY DEF Live
<1>2. pc[r] = from /\ pc'[r] = to /\ \A q \in Requests \ {r} : pc'[q] = pc[q]
  BY Moves
<1>3. Reserving' = Reserving
  BY <1>2 DEF Reserving
<1>4. QED
  BY <1>1, <1>2, <1>3 DEF Held, Kept

LEMMA BalanceStep == TypeOK /\ TypeOK' /\ Created /\ Balance /\ [Next]_vars => Balance'
<1> SUFFICES ASSUME TypeOK, TypeOK', Created, Balance, [Next]_vars PROVE Balance'
  OBVIOUS
<1>a. stock \in Int /\ \A r \in Requests : Want[r] \in Nat \ {0}
  BY WantAssumption DEF TypeOK
<1>1. ASSUME NEW r \in Requests, Arrive(r) PROVE Balance'
  <2>1. PICK to \in {"check", "rejected"} : Goto(r, "new", to)
    BY <1>1 DEF Arrive, Acquire, Duplicate, Fallback
  <2>2. stock' = stock /\ UNCHANGED <<order, fate>> /\ (Fine \/ Fault)
    BY <1>1 DEF Arrive, Acquire, Duplicate, Fallback, Fine
  <2>3. Held' = Held /\ Kept' = Kept
    BY <2>1, <2>2, HeldSame
  <2>4. QED
    BY <2>2, <2>3, Budget, Same
<1>2. ASSUME NEW r \in Requests,
             \/ OnSale(r) \/ NotOnSale(r) \/ InsertDuplicate(r) \/ InsertFails(r)
             \/ Release(r) \/ Answer(r)
      PROVE  Balance'
  <2>1. PICK from, to : Goto(r, from, to)
          /\ <<from, to>> \in {<<"check", "deduct">>, <<"check", "release">>,
                               <<"insert", "rollback">>, <<"release", "rejected">>,
                               <<"answer", "accepted">>}
    BY <1>2 DEF OnSale, NotOnSale, InsertDuplicate, InsertFails, Release, Answer
  <2>2. stock' = stock /\ UNCHANGED <<order, fate>> /\ (Fine \/ Fault)
    BY <1>2 DEF OnSale, NotOnSale, InsertDuplicate, InsertFails, Release, Answer, Fine
  <2>3. Held' = Held /\ Kept' = Kept
    BY <2>1, <2>2, HeldSame
  <2>4. QED
    BY <2>2, <2>3, Budget, Same
<1>3. ASSUME NEW r \in Requests, DecrBy(r) PROVE Balance'
  <2> DEFINE to == IF stock - Want[r] < 0 THEN "giveback" ELSE "insert"
  <2>1. /\ Goto(r, "deduct", to) /\ stock' = stock - Want[r]
        /\ UNCHANGED <<order, fate, faults, excess>>
    BY <1>3 DEF DecrBy, Fine
  <2>2. to \in {"giveback", "insert"} /\ (to = "insert" => stock' >= 0)
    BY <1>a, <2>1
  <2> HIDE DEF to
  <2>3. pc[r] = "deduct" /\ pc'[r] = to /\ \A q \in Requests \ {r} : pc'[q] = pc[q]
    BY <2>1, Moves
  <2>4. Reserving' = Reserving \union {r} /\ r \notin Reserving
    BY <2>2, <2>3 DEF Reserving
  <2>5. Live' = Live
    BY <2>1 DEF Live
  <2>6. ASSUME excess = 0
        PROVE  /\ r \notin Held /\ Held' = Held \union {r}
               /\ Kept' \subseteq Kept \/ (stock' >= 0 /\ Kept' \subseteq Held')
    <3>1. r \notin Live
      BY <2>3, <2>6, LiveDone
    <3>2. Kept' \subseteq Held'
      BY DEF Kept, Held, Reserving
    <3>3. to = "giveback" => Kept' \subseteq Kept
      BY <2>3, <2>5 DEF Kept
    <3>4. QED
      BY <2>2, <2>4, <2>5, <3>1, <3>2, <3>3 DEF Held
  <2>7. QED
    BY <2>1, <2>6, Take
<1>4. ASSUME NEW r \in Requests, DecrByFails(r) PROVE Balance'
  <2>1. Goto(r, "deduct", "release") /\ Fault /\ UNCHANGED <<order, fate>>
    BY <1>4 DEF DecrByFails
  <2>2. stock' <= stock
    BY <1>4, <1>a DEF DecrByFails
  <2>3. Held' = Held /\ Kept' = Kept
    BY <2>1, HeldSame
  <2>4. QED
    BY <2>1, <2>2, <2>3, Budget, Lose
<1>5. ASSUME NEW r \in Requests, IncrBy(r) PROVE Balance'
  <2>1. /\ pc[r] \in {"giveback", "rollback"} /\ pc'[r] = "release"
        /\ \A q \in Requests \ {r} : pc'[q] = pc[q]
        /\ UNCHANGED <<order, fate>>
    BY <1>5, Moves DEF IncrBy
  <2>2. Reserving' = Reserving \ {r} /\ r \in Reserving /\ Live' = Live
    BY <2>1 DEF Reserving, Live
  <2>3. Kept' \subseteq Kept
    BY <2>1, <2>2 DEF Kept
  <2>4. excess = 0 => r \in Held /\ Held' = Held \ {r}
    BY <2>1, <2>2, LiveDone DEF Held
  <2>5. CASE stock' = stock + Want[r] /\ Fine
    BY <2>3, <2>4, <2>5, Give DEF Fine
  <2>6. CASE UNCHANGED stock /\ Fault
    <3>1. stock' <= stock /\ faults' # 0 /\ excess' = excess
      BY <1>a, <2>6, Budget
    <3>2. Held' \subseteq Held
      BY <2>2 DEF Held
    <3>3. QED
      BY <2>3, <3>1, <3>2, Lose
  <2>7. QED
    BY <1>5, <2>5, <2>6 DEF IncrBy
<1>6. ASSUME NEW r \in Requests, Insert(r) PROVE Balance'
  <2>1. /\ pc[r] = "insert" /\ pc'[r] = "answer"
        /\ \A q \in Requests \ {r} : pc'[q] = pc[q]
        /\ order[Owner[r]] = None /\ order' = [order EXCEPT ![Owner[r]] = r]
        /\ UNCHANGED <<stock, fate, faults, excess>> /\ Owner[r] \in Users
    BY <1>6, Moves, OwnerAssumption DEF Insert, Fine
  <2>2. fate[Owner[r]] = "open" /\ r # None
    BY <2>1, NoneAssumption DEF TypeOK
  <2>3. /\ order'[Owner[r]] = r
        /\ \A u \in Users \ {Owner[r]} : order'[u] = order[u]
    BY <2>1 DEF TypeOK
  <2>4. Live' = Live \union {r}
    BY <2>1, <2>2, <2>3 DEF Live
  <2>5. Held' = Held /\ Kept' = Kept
    BY <2>1, <2>4 DEF Held, Kept, Reserving
  <2>6. QED
    BY <2>1, <2>5, Same
<1>7. ASSUME NEW r \in Requests, InsertUnacknowledged(r) PROVE Balance'
  <2>1. excess' # 0
    BY <1>7, FaultAssumption DEF InsertUnacknowledged, TypeOK
  <2>2. QED
    BY <2>1 DEF Balance
<1>8. ASSUME NEW r \in Requests, Die(r) PROVE Balance'
  <2>1. Goto(r, pc[r], "died") /\ Fault /\ UNCHANGED <<stock, order, fate>>
    BY <1>8 DEF Die, Goto
  <2>2. Held' \subseteq Held /\ Kept' \subseteq Kept
    BY <2>1, Moves DEF Held, Kept, Reserving, Live
  <2>3. QED
    BY <1>a, <2>1, <2>2, Budget, Lose
<1>9. ASSUME NEW u \in Users, Settle(u) PROVE Balance'
  <2>1. /\ pc' = pc /\ order' = order /\ stock' = stock /\ Fine
        /\ fate[u] = "open" /\ fate' = [fate EXCEPT ![u] = "paid"]
    BY <1>9 DEF Settle
  <2>2. Live' = Live
    BY <2>1 DEF Live, TypeOK
  <2>3. Held' = Held /\ Kept' = Kept
    BY <2>1, <2>2 DEF Held, Kept, Reserving
  <2>4. QED
    BY <2>1, <2>3, Budget, Same
<1>10. ASSUME NEW u \in Users, CompensateStock(u) PROVE Balance'
  <2> DEFINE r == order[u]
  <2>1. /\ pc' = pc /\ order' = order /\ RollbackRedis(u)
        /\ order[u] # None /\ fate[u] = "open"
        /\ fate' = [fate EXCEPT ![u] = "cancelled"]
    BY <1>10 DEF CompensateStock
  <2>2. r \in Requests /\ r \in Live
    BY <2>1 DEF TypeOK, Live
  <2>3. fate'[u] = "cancelled" /\ \A v \in Users \ {u} : fate'[v] = fate[v]
    BY <2>1 DEF TypeOK
  <2>4. \A v \in Users : order[v] = r => v = u
    BY <2>1 DEF Created
  <2>5. Live' = Live \ {r}
    BY <2>1, <2>3, <2>4 DEF Live
  <2>6. Kept' \subseteq Kept /\ Held' \subseteq Held
    BY <2>1, <2>5 DEF Kept, Held, Reserving
  <2>7. excess = 0 => r \in Held /\ Held' = Held \ {r}
    <3>1. excess = 0 => r \notin Reserving
      BY <2>2, LiveDone DEF Reserving
    <3>2. Reserving' = Reserving
      BY <2>1 DEF Reserving
    <3>3. QED
      BY <2>2, <2>5, <3>1, <3>2 DEF Held
  <2>8. CASE stock' = stock + Want[r] /\ Fine
    BY <2>2, <2>6, <2>7, <2>8, Give DEF Fine
  <2>9. CASE UNCHANGED stock /\ Fault
    <3>1. stock' <= stock /\ faults' # 0 /\ excess' = excess
      BY <1>a, <2>9, Budget
    <3>2. QED
      BY <2>6, <3>1, Lose
  <2>10. QED
    BY <2>1, <2>8, <2>9 DEF RollbackRedis
<1>11. ASSUME NEW u \in Users, CompensateAgain(u) PROVE Balance'
  <2>1. excess' # 0
    BY <1>11, FaultAssumption DEF CompensateAgain, TypeOK
  <2>2. QED
    BY <2>1 DEF Balance
<1>12. ASSUME NEW u \in Users, CompensateKey(u) \/ KeyExpires(u) PROVE Balance'
  <2>1. UNCHANGED <<pc, stock, order, fate>> /\ (Fine \/ Fault)
    BY <1>12 DEF CompensateKey, KeyExpires, Fine
  <2>2. Held' = Held /\ Kept' = Kept
    BY <2>1 DEF Held, Kept, Reserving, Live
  <2>3. QED
    BY <2>1, <2>2, Budget, Same
<1>13. CASE UNCHANGED vars
  <2>1. Held' = Held /\ Kept' = Kept
    BY <1>13 DEF vars, Held, Kept, Reserving, Live
  <2>2. QED
    BY <1>13, <2>1, Same DEF vars
<1>14. QED
  BY <1>1, <1>2, <1>3, <1>4, <1>5, <1>6, <1>7, <1>8, <1>9, <1>10, <1>11, <1>12, <1>13
  DEF Next, Continue

-----------------------------------------------------------------------------
(* The key *)

\* Who is admitted has the key; who is not done with it keeps it.
KeyHeld  == \A r \in Requests : pc[r] \in Admitted => Owner[r] \in lock
KeyGuard == \A u \in Users : order[u] # None /\ (fate[u] = "open" \/ u \in releasing) =>
              u \in lock /\ \A r \in Requests : Owner[r] = u => pc[r] \notin Admitted
KeyInv   == KeyHeld /\ OneAtATime /\ KeyGuard

\* OneAtATime needs no premise where there is no fault.
LEMMA ExclusiveIsKeyInv ==
  Exclusive <=> (faults = 0 /\ excess = 0 => KeyInv)
BY DEF Exclusive, KeyInv, KeyHeld, KeyGuard

\* A request that moves on within, or out of, the admitted steps.
LEMMA ExclusiveMove ==
  ASSUME TypeOK, Exclusive, NEW r \in Requests, NEW from, NEW to, Goto(r, from, to),
         to \in Admitted => from \in Admitted,
         faults' = 0 => faults = 0, excess' = 0 => excess = 0,
         UNCHANGED <<lock, order, fate, releasing>>
  PROVE  Exclusive'
<1> SUFFICES ASSUME faults' = 0, excess' = 0 PROVE KeyInv'
  BY ExclusiveIsKeyInv DEF Exclusive, KeyInv, KeyHeld, KeyGuard
<1>1. KeyInv /\ faults = 0 /\ excess = 0
  BY ExclusiveIsKeyInv
<1>2. pc[r] = from /\ pc'[r] = to /\ \A q \in Requests \ {r} : pc'[q] = pc[q]
  BY Moves
<1>3. \A q \in Requests : pc'[q] \in Admitted => pc[q] \in Admitted
  BY <1>2
<1>4. QED
  BY <1>1, <1>3 DEF KeyInv, KeyHeld, OneAtATime, KeyGuard

LEMMA ExclusiveStep == TypeOK /\ TypeOK' /\ Exclusive /\ [Next]_vars => Exclusive'
<1> SUFFICES ASSUME TypeOK, TypeOK', Exclusive, [Next]_vars PROVE Exclusive'
  OBVIOUS
<1>a. \A r \in Requests : Owner[r] \in Users
  BY OwnerAssumption
<1>b. ASSUME Fault PROVE Exclusive'
  BY <1>b, Budget DEF Exclusive
<1>1. ASSUME NEW r \in Requests, Acquire(r) PROVE Exclusive'
  <2> SUFFICES ASSUME faults' = 0, excess' = 0 PROVE KeyInv'
    BY DEF Exclusive, KeyInv, KeyHeld, KeyGuard
  <2>1. KeyInv
    BY <1>1, ExclusiveIsKeyInv DEF Acquire, Fine
  <2>2. /\ pc'[r] = "check" /\ \A q \in Requests \ {r} : pc'[q] = pc[q]
        /\ Owner[r] \notin lock /\ lock' = lock \union {Owner[r]}
        /\ UNCHANGED <<order, fate, releasing>>
    BY <1>1, Moves DEF Acquire
  <2>3. \A q \in Requests : Owner[q] = Owner[r] => pc[q] \notin Admitted
    BY <2>1, <2>2 DEF KeyInv, KeyHeld
  <2>4. KeyHeld'
    BY <2>1, <2>2 DEF KeyInv, KeyHeld
  <2>5. OneAtATime'
    <3> SUFFICES ASSUME NEW q \in Requests, NEW s \in Requests, Owner[q] = Owner[s],
                        pc'[q] \in Admitted, pc'[s] \in Admitted
                 PROVE  q = s
      BY DEF OneAtATime
    <3>1. CASE q = r \/ s = r
      BY <2>2, <2>3, <3>1
    <3>2. CASE q # r /\ s # r
      BY <1>1, <2>1, <2>2, <3>2 DEF KeyInv, OneAtATime, Acquire, Fine
    <3>3. QED
      BY <3>1, <3>2
  <2>6. KeyGuard'
    <3> SUFFICES ASSUME NEW u \in Users, order[u] # None, fate[u] = "open" \/ u \in releasing
                 PROVE  u \in lock' /\ \A q \in Requests : Owner[q] = u => pc'[q] \notin Admitted
      BY <2>2 DEF KeyGuard
    <3>1. u \in lock /\ \A q \in Requests : Owner[q] = u => pc[q] \notin Admitted
      BY <2>1 DEF KeyInv, KeyGuard
    <3>2. QED
      BY <2>2, <3>1
  <2>7. QED
    BY <2>4, <2>5, <2>6 DEF KeyInv
<1>2. ASSUME NEW r \in Requests, Duplicate(r) PROVE Exclusive'
  <2>1. Goto(r, "new", "rejected") /\ UNCHANGED <<lock, order, fate, releasing, faults, excess>>
    BY <1>2 DEF Duplicate, Fine
  <2>2. "rejected" \notin Admitted
    BY DEF Admitted
  <2>3. QED
    BY <2>1, <2>2, ExclusiveMove
<1>3. ASSUME NEW r \in Requests, Fallback(r) \/ DecrByFails(r) \/ InsertFails(r) \/ Die(r)
      PROVE  Exclusive'
  BY <1>3, <1>b DEF Fallback, DecrByFails, InsertFails, Die
<1>4. ASSUME NEW r \in Requests,
             \/ OnSale(r) \/ NotOnSale(r) \/ DecrBy(r) \/ InsertDuplicate(r) \/ Answer(r)
      PROVE  Exclusive'
  <2>1. PICK from, to : Goto(r, from, to) /\ (to \in Admitted => from \in Admitted)
    BY <1>4 DEF OnSale, NotOnSale, DecrBy, InsertDuplicate, Answer, Admitted
  <2>2. UNCHANGED <<lock, order, fate, releasing, faults, excess>>
    BY <1>4 DEF OnSale, NotOnSale, DecrBy, InsertDuplicate, Answer, Fine
  <2>3. QED
    BY <2>1, <2>2, ExclusiveMove
<1>5. ASSUME NEW r \in Requests, IncrBy(r) PROVE Exclusive'
  <2>1. PICK from \in {"giveback", "rollback"} : Goto(r, from, "release")
    BY <1>5 DEF IncrBy
  <2>2. UNCHANGED <<lock, order, fate, releasing>> /\ (Fine \/ Fault)
    BY <1>5 DEF IncrBy
  <2>3. from \in Admitted
    BY DEF Admitted
  <2>4. QED
    BY <2>1, <2>2, <2>3, Budget, ExclusiveMove
<1>6. ASSUME NEW r \in Requests, Insert(r) PROVE Exclusive'
  <2> SUFFICES ASSUME faults' = 0, excess' = 0 PROVE KeyInv'
    BY DEF Exclusive, KeyInv, KeyHeld, KeyGuard
  <2>1. KeyInv /\ faults = 0 /\ excess = 0
    BY <1>6, ExclusiveIsKeyInv DEF Insert, Fine
  <2>2. /\ pc[r] = "insert" /\ pc'[r] = "answer"
        /\ \A q \in Requests \ {r} : pc'[q] = pc[q]
        /\ order' = [order EXCEPT ![Owner[r]] = r]
        /\ UNCHANGED <<lock, fate, releasing>>
    BY <1>6, Moves DEF Insert
  <2>3. "insert" \in Admitted /\ "answer" \notin Admitted
    BY DEF Admitted
  <2>4. \A q \in Requests : pc'[q] \in Admitted => pc[q] \in Admitted
    BY <2>2, <2>3
  <2>5. KeyHeld' /\ OneAtATime'
    BY <2>1, <2>2, <2>4 DEF KeyInv, KeyHeld, OneAtATime
  <2>6. KeyGuard'
    <3> SUFFICES ASSUME NEW u \in Users, order'[u] # None, fate[u] = "open" \/ u \in releasing
                 PROVE  u \in lock /\ \A q \in Requests : Owner[q] = u => pc'[q] \notin Admitted
      BY <2>2 DEF KeyGuard
    <3>1. CASE u = Owner[r]
      <4>1. u \in lock
        BY <2>1, <2>2, <2>3, <3>1 DEF KeyInv, KeyHeld
      <4>2. \A q \in Requests : Owner[q] = u /\ pc[q] \in Admitted => q = r
        BY <2>1, <2>2, <2>3, <3>1 DEF KeyInv, OneAtATime
      <4>3. QED
        BY <2>2, <2>3, <2>4, <4>1, <4>2
    <3>2. CASE u # Owner[r]
      <4>1. order[u] # None
        BY <2>2, <3>2 DEF TypeOK
      <4>2. QED
        BY <2>1, <2>4, <4>1 DEF KeyInv, KeyGuard
    <3>3. QED
      BY <3>1, <3>2
  <2>7. QED
    BY <2>5, <2>6 DEF KeyInv
<1>7. ASSUME NEW r \in Requests, InsertUnacknowledged(r) PROVE Exclusive'
  <2>1. excess' # 0
    BY <1>7, FaultAssumption DEF InsertUnacknowledged, TypeOK
  <2>2. QED
    BY <2>1 DEF Exclusive
<1>8. ASSUME NEW r \in Requests, Release(r) PROVE Exclusive'
  <2>1. CASE Fault
    BY <2>1, <1>b
  <2>2. CASE lock' = lock \ {Owner[r]} /\ Fine
    <3> SUFFICES ASSUME faults' = 0, excess' = 0 PROVE KeyInv'
      BY DEF Exclusive, KeyInv, KeyHeld, KeyGuard
    <3>1. KeyInv /\ faults = 0 /\ excess = 0
      BY <2>2, ExclusiveIsKeyInv DEF Fine
    <3>2. /\ pc[r] = "release" /\ pc'[r] = "rejected"
          /\ \A q \in Requests \ {r} : pc'[q] = pc[q]
          /\ UNCHANGED <<order, fate, releasing>>
      BY <1>8, Moves DEF Release
    <3>3. "release" \in Admitted /\ "rejected" \notin Admitted
      BY DEF Admitted
    <3>4. \A q \in Requests : pc'[q] \in Admitted => pc[q] \in Admitted /\ q # r
      BY <3>2, <3>3
    <3>5. \A q \in Requests : pc'[q] \in Admitted => Owner[q] # Owner[r]
      BY <3>1, <3>2, <3>3, <3>4 DEF KeyInv, OneAtATime
    <3>6. KeyHeld' /\ OneAtATime'
      BY <2>2, <3>1, <3>4, <3>5 DEF KeyInv, KeyHeld, OneAtATime
    <3>7. KeyGuard'
      BY <2>2, <3>1, <3>2, <3>3, <3>4 DEF KeyInv, KeyGuard
    <3>8. QED
      BY <3>6, <3>7 DEF KeyInv
  <2>3. QED
    BY <1>8, <2>1, <2>2 DEF Release
<1>9. ASSUME NEW u \in Users, Settle(u) \/ CompensateStock(u) PROVE Exclusive'
  <2>1. CASE Fault
    BY <2>1, <1>b
  <2>2. CASE Fine
    <3> SUFFICES ASSUME faults' = 0, excess' = 0 PROVE KeyInv'
      BY DEF Exclusive, KeyInv, KeyHeld, KeyGuard
    <3>1. KeyInv /\ faults = 0 /\ excess = 0
      BY <2>2, ExclusiveIsKeyInv DEF Fine
    <3>2. /\ UNCHANGED <<pc, lock, order>> /\ order[u] # None /\ fate[u] = "open"
          /\ releasing' \subseteq releasing \union {u}
          /\ \A v \in Users : fate'[v] = "open" => fate[v] = "open"
      BY <1>9 DEF Settle, CompensateStock, TypeOK
    <3>3. KeyHeld' /\ OneAtATime'
      BY <3>1, <3>2 DEF KeyInv, KeyHeld, OneAtATime
    <3>4. KeyGuard'
      BY <3>1, <3>2 DEF KeyInv, KeyGuard
    <3>5. QED
      BY <3>3, <3>4 DEF KeyInv
  <2>3. QED
    BY <1>9, <2>1, <2>2 DEF Settle, CompensateStock, RollbackRedis
<1>10. ASSUME NEW u \in Users, CompensateAgain(u) PROVE Exclusive'
  <2>1. excess' # 0
    BY <1>10, FaultAssumption DEF CompensateAgain, TypeOK
  <2>2. QED
    BY <2>1 DEF Exclusive
<1>11. ASSUME NEW u \in Users, CompensateKey(u) PROVE Exclusive'
  <2>1. CASE Fault
    BY <2>1, <1>b
  <2>2. CASE lock' = lock \ {u} /\ Fine
    <3> SUFFICES ASSUME faults' = 0, excess' = 0 PROVE KeyInv'
      BY DEF Exclusive, KeyInv, KeyHeld, KeyGuard
    <3>1. KeyInv /\ faults = 0 /\ excess = 0
      BY <2>2, ExclusiveIsKeyInv DEF Fine
    <3>2. /\ UNCHANGED <<pc, order, fate>> /\ u \in releasing
          /\ releasing' = releasing \ {u}
      BY <1>11 DEF CompensateKey
    <3>3. fate[u] = "cancelled" /\ order[u] # None
      BY <3>2 DEF TypeOK
    <3>4. \A r \in Requests : Owner[r] = u => pc[r] \notin Admitted
      BY <3>1, <3>2, <3>3 DEF KeyInv, KeyGuard
    <3>5. KeyHeld' /\ OneAtATime'
      BY <2>2, <3>1, <3>2, <3>4 DEF KeyInv, KeyHeld, OneAtATime
    <3>6. KeyGuard'
      BY <2>2, <3>1, <3>2, <3>3 DEF KeyInv, KeyGuard
    <3>7. QED
      BY <3>5, <3>6 DEF KeyInv
  <2>3. QED
    BY <1>11, <2>1, <2>2 DEF CompensateKey
<1>12. ASSUME NEW u \in Users, KeyExpires(u) PROVE Exclusive'
  <2> SUFFICES ASSUME faults' = 0, excess' = 0 PROVE KeyInv'
    BY DEF Exclusive, KeyInv, KeyHeld, KeyGuard
  <2>1. KeyInv /\ faults = 0 /\ excess = 0
    BY <1>12, ExclusiveIsKeyInv DEF KeyExpires
  <2>2. /\ UNCHANGED <<pc, order, fate, releasing>> /\ lock' = lock \ {u}
        /\ u \notin releasing /\ (order[u] = None \/ fate[u] # "open")
    BY <1>12 DEF KeyExpires
  <2>3. \A r \in Requests : Owner[r] = u => pc[r] \notin Admitted
    BY <1>12 DEF KeyExpires, Busy, Admitted
  <2>4. KeyHeld' /\ OneAtATime'
    BY <2>1, <2>2, <2>3 DEF KeyInv, KeyHeld, OneAtATime
  <2>5. KeyGuard'
    BY <2>1, <2>2 DEF KeyInv, KeyGuard
  <2>6. QED
    BY <2>4, <2>5 DEF KeyInv
<1>13. CASE UNCHANGED vars
  BY <1>13 DEF vars, Exclusive, OneAtATime
<1>14. QED
  BY <1>1, <1>2, <1>3, <1>4, <1>5, <1>6, <1>7, <1>8, <1>9, <1>10, <1>11, <1>12, <1>13
  DEF Next, Arrive, Continue

-----------------------------------------------------------------------------
(* Theorems *)

LEMMA InvInit == Init => SeckillInv
<1> SUFFICES ASSUME Init PROVE SeckillInv
  OBVIOUS
<1>1. TypeOK /\ Created
  BY TypeInit DEF Init, Created
<1>2. Held = {} /\ Kept = {}
  BY DEF Init, Held, Kept, Reserving, Live
<1>3. Units({}) = 0
  <2>1. UNION {{r} \X (1..Want[r]) : r \in {}} = {}
    OBVIOUS
  <2>2. QED
    BY <2>1, FS_EmptySet DEF Units
<1>4. Balance
  BY <1>2, <1>3, StockAssumption DEF Init, Balance
<1>5. Exclusive
  BY DEF Init, Exclusive, OneAtATime, Admitted
<1>6. QED
  BY <1>1, <1>4, <1>5 DEF SeckillInv

\* The invariant holds in every state, for any users, requests and budgets.
THEOREM SeckillInvariant == Spec => []SeckillInv
<1>1. SeckillInv /\ [Next]_vars => SeckillInv'
  BY TypeStep, CreatedStep, BalanceStep, ExclusiveStep DEF SeckillInv
<1>2. QED
  BY <1>1, InvInit, PTL DEF Spec

\* The variables keep their types; only cancelled orders are compensated.
THEOREM SeckillTypeCorrect == Spec => []TypeOK
<1>1. SeckillInv => TypeOK
  BY DEF SeckillInv
<1>2. QED
  BY <1>1, SeckillInvariant, PTL

\* Without faults, each path of Seckill that gives up and the compensation of
\* inventory-service give back exactly what DECRBY took.
THEOREM CounterBalances == Spec => []StockBalanced
<1>1. SeckillInv => StockBalanced
  BY DEF SeckillInv, Balance, StockBalanced, Held
<1>2. QED
  BY <1>1, SeckillInvariant, PTL

\* Whatever fails or dies, the live orders fit in the opening stock of the counter.
THEOREM NothingOverAdmitted == Spec => []NeverOverAdmitted
<1>1. ASSUME SeckillInv, excess = 0 PROVE Units(Live) <= RedisStock
  <2>1. Kept \in SUBSET Requests /\ Live \in SUBSET Kept
    BY <1>1, HeldType DEF SeckillInv, Kept
  <2>2. Units(Live) <= Units(Kept) /\ Units(Live) \in Nat /\ Units(Kept) \in Nat
    BY <2>1, UnitsSubset, UnitsFinite
  <2>3. Units(Kept) <= RedisStock /\ RedisStock \in Nat
    BY <1>1, StockAssumption DEF SeckillInv, Balance
  <2>4. QED
    BY <2>2, <2>3
<1>2. SeckillInv => NeverOverAdmitted
  BY <1>1 DEF NeverOverAdmitted
<1>3. QED
  BY <1>2, SeckillInvariant, PTL

\* Without faults, SETNX of the idempotency key admits one request of a user at a
\* time, although three different paths delete the key.
THEOREM AdmittedAlone == Spec => []OneAtATime
<1>1. SeckillInv => OneAtATime
  BY DEF SeckillInv, Exclusive, OneAtATime
<1>2. QED
  BY <1>1, SeckillInvariant, PTL
=============================================================================
