-------------------------- MODULE InventoryProofs --------------------------
(***************************************************************************)
(* Theorems about Inventory, for any finite set of calls, amounts, initial  *)
(* stocks and number of attempts: the columns of the row stay natural       *)
(* numbers, no granted deduction is forgotten and the row adds up until     *)
(* SetInventory overwrites an update, and a Deduct gives up only after      *)
(* maxDeductRetries other calls have succeeded.                             *)
(***************************************************************************)
EXTENDS Inventory, FiniteSetTheorems, TLAPS

\* A Deduct that is still trying has an attempt left.
TriesLeft == \A c \in Calls : pc[c] \in {"start", "update"} => tries[c] < maxDeductRetries

TypeInv == TypeOK /\ TriesLeft

\* Only with a row can a call be about to update or save it.
Existing == \A c \in Calls : pc[c] \in {"update", "save"} => exists

\* A row that does not exist counts nothing.
Blank == ~exists => row.locked = 0 /\ sold = 0

RowInv == /\ Existing /\ Blank
          /\ LockedAccountedUnlessClobbered /\ RowAddsUpUnlessClobbered

\* The other calls that have succeeded,
OthersOk(c) == {d \in Calls \ {c} : pc[d] = "ok"}

\* ... one for each attempt a Deduct has lost, and one more if the row is not the
\* one it has read: then the attempt under way may be lost too.
LostToOthers ==
  \A c \in Calls :
    /\ tries[c] <= Cardinality(OthersOk(c))
    /\ Kind[c] = "deduct" /\ pc[c] = "update" =>
         /\ seen[c].available >= Amount[c]
         /\ row # seen[c] => tries[c] + 1 <= Cardinality(OthersOk(c))
    /\ pc[c] = "exhausted" => tries[c] >= maxDeductRetries

InventoryInv == TypeInv /\ RowInv /\ LostToOthers

-----------------------------------------------------------------------------
(* Counting units *)

\* Finitely many calls move finitely many units.
LEMMA UnitsFinite ==
  ASSUME NEW S \in SUBSET Calls
  PROVE  IsFiniteSet(Units(S)) /\ Cardinality(Units(S)) \in Nat
<1> DEFINE of(c) == {c} \X (1..Amount[c])
           T == {of(c) : c \in S}
           f == [c \in S |-> of(c)]
<1>1. IsFiniteSet(S)
  BY CallsAssumption, FS_Subset
<1>3. IsFiniteSet(T)
  <2>1. T = {f[c] : c \in S} /\ f \in [S -> T]
    OBVIOUS
  <2>2. f \in Surjection(S, T)
    BY <2>1 DEF Surjection
  <2>3. QED
    BY <1>1, <2>2, FS_Surjection
<1>4. ASSUME NEW t \in T PROVE IsFiniteSet(t)
  <2>1. PICK c \in S : t = {c} \X (1..Amount[c])
    BY <1>4
  <2>2. Amount[c] \in Nat
    BY <2>1, AmountAssumption
  <2>3. IsFiniteSet({c})
    BY FS_Singleton
  <2>4. IsFiniteSet(1..Amount[c])
    BY <2>2, FS_Interval
  <2>5. QED
    BY <2>1, <2>3, <2>4, FS_Product
<1>5. IsFiniteSet(UNION T)
  BY <1>3, <1>4, FS_UNION
<1>6. Units(S) = UNION T
  BY DEF Units
<1>7. QED
  BY <1>5, <1>6, FS_CardinalityType

\* One more call moves its amount more.
LEMMA UnitsAdd ==
  ASSUME NEW S \in SUBSET Calls, NEW c \in Calls, c \notin S
  PROVE  Cardinality(Units(S \union {c})) = Cardinality(Units(S)) + Amount[c]
<1> DEFINE new == {c} \X (1..Amount[c])
<1>1. Units(S \union {c}) = Units(S) \union new /\ Units(S) \cap new = {}
  BY DEF Units
<1>2. IsFiniteSet(new) /\ Cardinality(new) = Amount[c] /\ Amount[c] \in Nat
  <2>1. Amount[c] \in Nat /\ Amount[c] >= 1
    BY AmountAssumption
  <2>2. IsFiniteSet(1..Amount[c]) /\ Cardinality(1..Amount[c]) = Amount[c]
    BY <2>1, FS_Interval
  <2>3. IsFiniteSet({c}) /\ Cardinality({c}) = 1
    BY FS_Singleton
  <2>4. IsFiniteSet(new) /\ Cardinality(new) = 1 * Amount[c]
    BY <2>2, <2>3, FS_Product
  <2>5. QED
    BY <2>1, <2>4
<1>3. IsFiniteSet(Units(S)) /\ Cardinality(Units(S)) \in Nat
  BY UnitsFinite
<1> HIDE DEF new
<1>4. Cardinality(Units(S) \cap new) = 0
  BY <1>1, FS_EmptySet
<1>5. Cardinality(Units(S) \union new)
        = Cardinality(Units(S)) + Cardinality(new) - Cardinality(Units(S) \cap new)
  BY <1>2, <1>3, FS_Union
<1> DEFINE a == Cardinality(Units(S))
           b == Cardinality(Units(S \union {c}))
<1>6. a \in Nat /\ b = a + Amount[c] - 0
  BY <1>1, <1>2, <1>3, <1>4, <1>5
<1> HIDE DEF a, b
<1>7. b = a + Amount[c]
  BY <1>2, <1>6
<1>8. QED
  BY <1>7 DEF a, b

\* What has been moved is a natural number.
LEMMA MovedType == ASSUME NEW kind PROVE Moved(kind) \in Nat
<1>1. Done(kind) \in SUBSET Calls
  BY DEF Done
<1>2. QED
  BY <1>1, UnitsFinite DEF Moved

\* A call that succeeds counts, for its kind only.
LEMMA MovedOk ==
  ASSUME TypeOK, NEW c \in Calls, NEW kind, pc[c] # "ok", Goto(c, "ok")
  PROVE  Moved(kind)' = Moved(kind) + IF Kind[c] = kind THEN Amount[c] ELSE 0
<1>1. \A d \in Calls : pc'[d] = "ok" <=> d = c \/ pc[d] = "ok"
  BY DEF Goto, TypeOK
<1>2. CASE Kind[c] = kind
  <2>1. Done(kind)' = Done(kind) \union {c} /\ c \notin Done(kind)
    BY <1>1, <1>2 DEF Done
  <2>2. Done(kind) \in SUBSET Calls
    BY DEF Done
  <2>3. Units(Done(kind)') = Units(Done(kind))' 
    BY DEF Units
  <2>4. Cardinality(Units(Done(kind) \union {c})) = Cardinality(Units(Done(kind))) + Amount[c]
    BY <2>1, <2>2, UnitsAdd
  <2>5. QED
    BY <1>2, <2>1, <2>3, <2>4 DEF Moved
<1>3. CASE Kind[c] # kind
  <2>1. Done(kind)' = Done(kind)
    BY <1>1, <1>3 DEF Done
  <2>2. Moved(kind)' = Moved(kind)
    BY <2>1 DEF Moved, Units
  <2>3. QED
    BY <1>3, <2>2, MovedType
<1>4. QED
  BY <1>2, <1>3

\* A call that goes on or fails does not count.
LEMMA MovedSame ==
  ASSUME TypeOK, NEW c \in Calls, NEW to, NEW kind, pc[c] # "ok", to # "ok", Goto(c, to)
  PROVE  Moved(kind)' = Moved(kind)
<1>1. Done(kind)' = Done(kind)
  BY DEF Done, Goto, TypeOK
<1>2. QED
  BY <1>1 DEF Moved, Units

-----------------------------------------------------------------------------
(* Type correctness *)

LEMMA NewRowType == ASSUME NEW t \in Nat PROVE NewRow(t) \in Rows
BY DEF NewRow, Rows

LEMMA TypeInit == Init => TypeInv
<1> SUFFICES ASSUME Init PROVE TypeInv
  OBVIOUS
<1>1. exists \in BOOLEAN /\ row \in Rows
  <2>1. PICK n \in Initials : exists = (n > 0) /\ row = NewRow(n)
    BY DEF Init
  <2>2. n \in Nat
    BY InitialsAssumption
  <2>3. QED
    BY <2>1, <2>2, NewRowType
<1>2. seen \in [Calls -> Rows]
  <2>1. NewRow(0) \in Rows
    BY NewRowType
  <2>2. QED
    BY <2>1 DEF Init
<1>3. pc \in [Calls -> Steps \union Ends] /\ sold \in Nat
      /\ clobbered \in BOOLEAN /\ clamped \in BOOLEAN
  BY DEF Init, Steps
<1>4. tries \in [Calls -> 0..maxDeductRetries] /\ TriesLeft
  BY RetriesAssumption DEF Init, TriesLeft
<1>5. QED
  BY <1>1, <1>2, <1>3, <1>4 DEF TypeInv, TypeOK

\* A call that moves on, its attempts unchanged, keeps the type of pc, and keeps an
\* attempt left.
LEMMA GotoType ==
  ASSUME TypeInv, NEW c \in Calls, NEW to \in Steps \union Ends, Goto(c, to),
         pc[c] = "start" \/ to \notin {"start", "update"}, UNCHANGED tries
  PROVE  pc' \in [Calls -> Steps \union Ends] /\ TriesLeft'
BY DEF Goto, TypeInv, TypeOK, TriesLeft

LEMMA ResizedType ==
  ASSUME NEW r \in Rows, NEW t \in Nat
  PROVE  Resized(r, t) \in Rows
<1>1. Shifted(r, t) \in Int
  BY DEF Shifted, Rows
<1> DEFINE a == IF Shifted(r, t) < 0 THEN 0 ELSE Shifted(r, t)
<1>2. a \in Nat
  BY <1>1
<1> HIDE DEF a
<1>3. [r EXCEPT !.total = t, !.available = a] \in Rows
  BY <1>2 DEF Rows
<1>4. QED
  BY <1>3 DEF Resized, a

\* An update of the three counters of a row whose results are not negative.
LEMMA UpdatedType ==
  ASSUME NEW r \in Rows, NEW a \in Nat, NEW l \in Nat
  PROVE  [r EXCEPT !.available = a, !.locked = l, !.version = @ + 1] \in Rows
<1>1. r.version + 1 \in Nat
  BY DEF Rows
<1>2. QED
  BY <1>1 DEF Rows

LEMMA TypeStep == TypeInv /\ [Next]_vars => TypeInv'
<1> SUFFICES ASSUME TypeInv, [Next]_vars PROVE TypeInv'
  OBVIOUS
<1>a. TypeOK /\ \A c \in Calls : Amount[c] \in Nat /\ seen[c] \in Rows
  BY AmountAssumption DEF TypeInv, TypeOK
<1>b. /\ row \in Rows /\ row.available \in Nat /\ row.locked \in Nat
      /\ row.total \in Nat /\ row.version \in Nat
  BY <1>a DEF TypeOK, Rows
<1>1. ASSUME NEW c \in Calls, DeductRead(c) PROVE TypeInv'
  <2>1. PICK to \in {"notfound", "short", "update"} : Goto(c, to)
    BY <1>1 DEF DeductRead
  <2>2. pc' \in [Calls -> Steps \union Ends] /\ TriesLeft'
    BY <1>1, <2>1, GotoType DEF DeductRead, Steps, Ends
  <2>3. seen' \in [Calls -> Rows]
    BY <1>1, <1>a, <1>b DEF DeductRead, TypeOK
  <2>4. QED
    BY <1>1, <1>a, <2>2, <2>3 DEF DeductRead, TypeInv, TypeOK
<1>2. ASSUME NEW c \in Calls, DeductWithLock(c) PROVE TypeInv'
  <2>1. pc' \in [Calls -> Steps \union Ends] /\ TriesLeft'
    BY <1>2, GotoType DEF DeductWithLock, Ends
  <2>2. row.available - Amount[c] \in Nat /\ row.locked + Amount[c] \in Nat
    BY <1>2, <1>a, <1>b DEF DeductWithLock, Matches
  <2>3. row' = [row EXCEPT !.available = row.available - Amount[c],
                           !.locked = row.locked + Amount[c], !.version = @ + 1]
    BY <1>2 DEF DeductWithLock
  <2>4. row' \in Rows
    BY <1>b, <2>2, <2>3, UpdatedType
  <2>5. QED
    BY <1>2, <1>a, <2>1, <2>4 DEF DeductWithLock, TypeInv, TypeOK
<1>3. ASSUME NEW c \in Calls, DeductConflict(c) PROVE TypeInv'
  <2>1. pc' \in [Calls -> Steps \union Ends]
    BY <1>3, <1>a DEF DeductConflict, Goto, Steps, Ends, TypeOK
  <2>2. tries[c] \in Nat /\ tries[c] + 1 \in 0..maxDeductRetries
    BY <1>3, <1>a, RetriesAssumption DEF DeductConflict, TypeInv, TypeOK, TriesLeft
  <2>3. tries' \in [Calls -> 0..maxDeductRetries]
    BY <1>3, <1>a, <2>2 DEF DeductConflict, TypeOK
  <2>4. TriesLeft'
    BY <1>3, <1>a DEF DeductConflict, Goto, TypeInv, TypeOK, TriesLeft
  <2>5. QED
    BY <1>3, <1>a, <2>1, <2>3, <2>4 DEF DeductConflict, TypeInv, TypeOK
<1>4. ASSUME NEW c \in Calls, NEW kind, NEW backTo \in Nat,
             FromLocked(c, kind, backTo), sold' \in Nat
      PROVE  TypeInv'
  <2>1. pc' \in [Calls -> Steps \union Ends] /\ TriesLeft'
    BY <1>4, GotoType DEF FromLocked, Ends
  <2>2. row.available + backTo \in Nat /\ row.locked - Amount[c] \in Nat
    BY <1>4, <1>a, <1>b DEF FromLocked
  <2>3. row' = [row EXCEPT !.available = row.available + backTo,
                           !.locked = row.locked - Amount[c], !.version = @ + 1]
    BY <1>4 DEF FromLocked
  <2>4. row' \in Rows
    BY <1>b, <2>2, <2>3, UpdatedType
  <2>5. QED
    BY <1>4, <1>a, <2>1, <2>4 DEF FromLocked, TypeInv, TypeOK
<1>5. ASSUME NEW c \in Calls, ReturnStock(c) PROVE TypeInv'
  <2>1. sold' \in Nat
    BY <1>5, <1>a DEF ReturnStock, TypeOK
  <2>2. QED
    BY <1>4, <1>5, <1>a, <2>1 DEF ReturnStock
<1>6. ASSUME NEW c \in Calls, ConfirmDeduction(c) PROVE TypeInv'
  <2>1. sold' \in Nat
    BY <1>6, <1>a DEF ConfirmDeduction, TypeOK
  <2>2. QED
    BY <1>4, <1>6, <2>1 DEF ConfirmDeduction
<1>7. ASSUME NEW c \in Calls, LockedTooSmall(c) PROVE TypeInv'
  <2>1. pc' \in [Calls -> Steps \union Ends] /\ TriesLeft'
    BY <1>7, GotoType DEF LockedTooSmall, Ends
  <2>2. QED
    BY <1>7, <1>a, <2>1 DEF LockedTooSmall, TypeInv, TypeOK
<1>8. ASSUME NEW c \in Calls, SetRead(c) PROVE TypeInv'
  <2>1. PICK to \in {"save", "insert"} : Goto(c, to)
    BY <1>8 DEF SetRead
  <2>2. pc' \in [Calls -> Steps \union Ends] /\ TriesLeft'
    BY <1>8, <2>1, GotoType DEF SetRead, Steps
  <2>3. seen' \in [Calls -> Rows]
    BY <1>8, <1>a, <1>b DEF SetRead, TypeOK
  <2>4. QED
    BY <1>8, <1>a, <2>2, <2>3 DEF SetRead, TypeInv, TypeOK
<1>9. ASSUME NEW c \in Calls, SetInsert(c) PROVE TypeInv'
  <2>1. PICK to \in {"failed", "ok"} : Goto(c, to)
    BY <1>9 DEF SetInsert
  <2>2. pc' \in [Calls -> Steps \union Ends] /\ TriesLeft'
    BY <1>9, <2>1, GotoType DEF SetInsert, Ends
  <2>3. row' \in Rows /\ exists' \in BOOLEAN
    BY <1>9, <1>a, <1>b, NewRowType DEF SetInsert, TypeOK
  <2>4. QED
    BY <1>9, <1>a, <2>2, <2>3 DEF SetInsert, TypeInv, TypeOK
<1>10. ASSUME NEW c \in Calls, SetSave(c) PROVE TypeInv'
  <2>1. pc' \in [Calls -> Steps \union Ends] /\ TriesLeft'
    BY <1>10, GotoType DEF SetSave, Ends
  <2>2. row' \in Rows
    BY <1>10, <1>a, ResizedType DEF SetSave
  <2>3. clobbered' \in BOOLEAN /\ clamped' \in BOOLEAN
    <3>1. clobbered \in BOOLEAN /\ clamped \in BOOLEAN
      BY <1>a DEF TypeOK
    <3>2. QED
      BY <1>10, <3>1, Zenon DEF SetSave
  <2>4. QED
    BY <1>10, <1>a, <2>1, <2>2, <2>3 DEF SetSave, TypeInv, TypeOK
<1>11. CASE UNCHANGED vars
  BY <1>11 DEF vars, TypeInv, TypeOK, TriesLeft
<1>12. QED
  BY <1>1, <1>2, <1>3, <1>5, <1>6, <1>7, <1>8, <1>9, <1>10, <1>11 DEF Next, Step

-----------------------------------------------------------------------------
(* The row accounts for what the calls did *)

\* With nothing overwritten, nothing clamped and no call done, a row adds up.
LEMMA InvInit == Init => RowInv
<1> SUFFICES ASSUME Init PROVE RowInv
  OBVIOUS
<1>1. PICK n \in Initials : exists = (n > 0) /\ row = NewRow(n)
  BY DEF Init
<1>2. n \in Nat
  BY InitialsAssumption
<1>3. Existing /\ Blank
  BY <1>1 DEF Init, Existing, Blank, NewRow
<1>4. \A kind : Moved(kind) = 0
  <2>1. TAKE kind
  <2>2. Done(kind) = {}
    BY DEF Done, Init
  <2>3. Units({}) = {}
    BY DEF Units
  <2>4. QED
    BY <2>2, <2>3, FS_EmptySet DEF Moved
<1>5. LockedAccountedUnlessClobbered
  BY <1>1, <1>4 DEF LockedAccountedUnlessClobbered, LockedAccounted, NewRow
<1>6. RowAddsUpUnlessClobbered
  BY <1>1, <1>2 DEF Init, RowAddsUpUnlessClobbered, NewRow
<1>7. QED
  BY <1>3, <1>5, <1>6 DEF RowInv

\* The row moves by what a successful call is counted for.
LEMMA AccountedOk ==
  ASSUME TypeOK, LockedAccountedUnlessClobbered, NEW c \in Calls, pc[c] # "ok",
         Goto(c, "ok"), clobbered' = clobbered,
         row'.locked = row.locked
                       + (IF Kind[c] = "deduct" THEN Amount[c] ELSE 0)
                       - (IF Kind[c] = "return" THEN Amount[c] ELSE 0)
                       - (IF Kind[c] = "confirm" THEN Amount[c] ELSE 0)
  PROVE  LockedAccountedUnlessClobbered'
<1>1. /\ Moved("deduct")' = Moved("deduct") + IF Kind[c] = "deduct" THEN Amount[c] ELSE 0
      /\ Moved("return")' = Moved("return") + IF Kind[c] = "return" THEN Amount[c] ELSE 0
      /\ Moved("confirm")' = Moved("confirm") + IF Kind[c] = "confirm" THEN Amount[c] ELSE 0
  BY MovedOk
<1>2. /\ Moved("deduct") \in Nat /\ Moved("return") \in Nat /\ Moved("confirm") \in Nat
      /\ Amount[c] \in Nat /\ row.locked \in Nat
  BY MovedType, AmountAssumption DEF TypeOK, Rows
<1>3. QED
  BY <1>1, <1>2 DEF LockedAccountedUnlessClobbered, LockedAccounted

\* Nothing but where a call is changes, and it has not succeeded.
LEMMA InvSame ==
  ASSUME TypeOK, RowInv, NEW c \in Calls,
         NEW to \in {"start", "update", "insert", "save"} \union (Ends \ {"ok"}),
         Goto(c, to), pc[c] # "ok", to \in {"update", "save"} => exists,
         UNCHANGED <<exists, row, sold, clobbered, clamped>>
  PROVE  RowInv'
<1>1. Existing' /\ Blank' /\ RowAddsUpUnlessClobbered'
  BY DEF RowInv, Existing, Blank, RowAddsUpUnlessClobbered, Goto, TypeOK
<1>2. \A kind : Moved(kind)' = Moved(kind)
  BY MovedSame DEF Ends
<1>3. /\ Moved("deduct")' = Moved("deduct") /\ Moved("return")' = Moved("return")
      /\ Moved("confirm")' = Moved("confirm")
  BY <1>2
<1>4. LockedAccountedUnlessClobbered'
  BY <1>3 DEF RowInv, LockedAccountedUnlessClobbered, LockedAccounted
<1>5. QED
  BY <1>1, <1>4 DEF RowInv

LEMMA InvStep == TypeInv /\ RowInv /\ [Next]_vars => RowInv'
<1> SUFFICES ASSUME TypeInv, RowInv, [Next]_vars PROVE RowInv'
  OBVIOUS
<1>a. TypeOK /\ \A c \in Calls : Amount[c] \in Nat \ {0}
  BY AmountAssumption DEF TypeInv
<1>b. /\ row \in Rows /\ row.available \in Nat /\ row.locked \in Nat
      /\ row.total \in Nat /\ row.version \in Nat /\ sold \in Nat
      /\ clobbered \in BOOLEAN /\ clamped \in BOOLEAN
  BY <1>a DEF TypeOK, Rows
<1>1. ASSUME NEW c \in Calls, DeductRead(c) PROVE RowInv'
  <2>1. PICK to \in {"notfound", "short", "update"} :
          Goto(c, to) /\ (to = "update" => exists)
    BY <1>1 DEF DeductRead
  <2>2. QED
    BY <1>1, <1>a, <2>1, InvSame DEF DeductRead, Ends
<1>2. ASSUME NEW c \in Calls, DeductWithLock(c) PROVE RowInv'
  <2>1. /\ row'.total = row.total /\ row'.available = row.available - Amount[c]
        /\ row'.locked = row.locked + Amount[c]
    BY <1>2, <1>b DEF DeductWithLock, Rows
  <2>2. LockedAccountedUnlessClobbered'
    BY <1>2, <1>a, <1>b, <2>1, AccountedOk DEF DeductWithLock, RowInv
  <2>3. Existing' /\ Blank'
    BY <1>2, <1>a DEF DeductWithLock, RowInv, Existing, Blank, Goto, TypeOK
  <2>4. RowAddsUpUnlessClobbered'
    BY <1>2, <1>a, <1>b, <2>1 DEF DeductWithLock, RowInv, RowAddsUpUnlessClobbered
  <2>5. QED
    BY <2>2, <2>3, <2>4 DEF RowInv
<1>3. ASSUME NEW c \in Calls, DeductConflict(c) PROVE RowInv'
  <2>1. PICK to \in {"start", "exhausted"} : Goto(c, to)
    BY <1>3 DEF DeductConflict
  <2>2. QED
    BY <1>3, <1>a, <2>1, InvSame DEF DeductConflict, Ends
<1>4. ASSUME NEW c \in Calls, ReturnStock(c) PROVE RowInv'
  <2>1. FromLocked(c, "return", Amount[c]) /\ sold' = sold
    BY <1>4 DEF ReturnStock
  <2>2. /\ row'.total = row.total /\ row'.available = row.available + Amount[c]
        /\ row'.locked = row.locked - Amount[c]
    BY <2>1, <1>b DEF FromLocked, Rows
  <2>3. LockedAccountedUnlessClobbered'
    BY <1>a, <1>b, <2>1, <2>2, AccountedOk DEF FromLocked, RowInv
  <2>4. Existing' /\ Blank'
    BY <1>a, <2>1 DEF FromLocked, RowInv, Existing, Blank, Goto, TypeOK
  <2>5. RowAddsUpUnlessClobbered'
    BY <1>a, <1>b, <2>1, <2>2 DEF FromLocked, RowInv, RowAddsUpUnlessClobbered
  <2>6. QED
    BY <2>3, <2>4, <2>5 DEF RowInv
<1>5. ASSUME NEW c \in Calls, ConfirmDeduction(c) PROVE RowInv'
  <2>1. FromLocked(c, "confirm", 0) /\ sold' = sold + Amount[c]
    BY <1>5 DEF ConfirmDeduction
  <2>2. /\ row'.total = row.total /\ row'.available = row.available
        /\ row'.locked = row.locked - Amount[c]
    BY <2>1, <1>b DEF FromLocked, Rows
  <2>3. LockedAccountedUnlessClobbered'
    BY <1>a, <1>b, <2>1, <2>2, AccountedOk DEF FromLocked, RowInv
  <2>4. Existing' /\ Blank'
    BY <1>a, <2>1 DEF FromLocked, RowInv, Existing, Blank, Goto, TypeOK
  <2>5. RowAddsUpUnlessClobbered'
    BY <1>a, <1>b, <2>1, <2>2 DEF FromLocked, RowInv, RowAddsUpUnlessClobbered
  <2>6. QED
    BY <2>3, <2>4, <2>5 DEF RowInv
<1>6. ASSUME NEW c \in Calls, LockedTooSmall(c) PROVE RowInv'
  BY <1>6, <1>a, InvSame DEF LockedTooSmall, Ends
<1>7. ASSUME NEW c \in Calls, SetRead(c) PROVE RowInv'
  <2>1. PICK to \in {"save", "insert"} : Goto(c, to) /\ (to = "save" => exists)
    BY <1>7 DEF SetRead
  <2>2. QED
    BY <1>7, <1>a, <2>1, InvSame DEF SetRead
<1>8. ASSUME NEW c \in Calls, SetInsert(c) PROVE RowInv'
  <2>1. CASE exists
    BY <1>8, <1>a, <2>1, InvSame DEF SetInsert, Ends
  <2>2. CASE ~exists
    <3>1. exists' /\ row' = NewRow(Amount[c]) /\ Goto(c, "ok")
      BY <1>8, <2>2 DEF SetInsert
    <3>2. row.locked = 0 /\ sold = 0
      BY <2>2 DEF RowInv, Blank
    <3>3. LockedAccountedUnlessClobbered'
      BY <1>8, <1>a, <3>1, <3>2, AccountedOk DEF SetInsert, RowInv, NewRow
    <3>4. Existing' /\ Blank' /\ RowAddsUpUnlessClobbered'
      BY <1>8, <1>a, <3>1, <3>2
      DEF SetInsert, Existing, Blank, RowAddsUpUnlessClobbered, NewRow
    <3>5. QED
      BY <3>3, <3>4 DEF RowInv
  <2>3. QED
    BY <2>1, <2>2
<1>9. ASSUME NEW c \in Calls, SetSave(c) PROVE RowInv'
  <2>1. exists
    BY <1>9 DEF SetSave, RowInv, Existing
  <2>2. Existing' /\ Blank'
    BY <1>9, <1>a, <2>1 DEF SetSave, Existing, Blank
  <2>3. CASE clobbered'
    BY <2>2, <2>3
    DEF RowInv, LockedAccountedUnlessClobbered, RowAddsUpUnlessClobbered
  <2>4. CASE ~clobbered'
    <3>1. ~clobbered /\ seen[c] = row
      BY <1>9, <2>4 DEF SetSave
    <3>2. row' = Resized(row, Amount[c])
      BY <1>9, <3>1 DEF SetSave
    <3>3. /\ row'.total = Amount[c] /\ row'.locked = row.locked
          /\ row'.available = IF Shifted(row, Amount[c]) < 0
                                THEN 0 ELSE Shifted(row, Amount[c])
      BY <1>b, <3>2 DEF Resized, Rows
    <3>4. LockedAccountedUnlessClobbered'
      <4>1. clobbered' = (clobbered \/ row # seen[c])
        BY <1>9 DEF SetSave
      <4>2. clobbered' = FALSE /\ clobbered = FALSE
        BY <1>b, <3>1, <4>1, Zenon
      <4>3. pc[c] # "ok" /\ Goto(c, "ok") /\ Kind[c] = "set"
        BY <1>9 DEF SetSave
      <4>4. row'.locked = row.locked + 0 - 0 - 0
        BY <1>b, <3>3
      <4>5. QED
        BY <1>a, <4>2, <4>3, <4>4, AccountedOk DEF RowInv
    <3>5. RowAddsUpUnlessClobbered'
      <4>1. /\ row.total <= row.available + row.locked + sold
            /\ ~clamped => row.total = row.available + row.locked + sold
        BY <3>1 DEF RowInv, RowAddsUpUnlessClobbered
      <4>2. Shifted(row, Amount[c]) = row.available + Amount[c] - row.total
        BY DEF Shifted
      <4>3. sold' = sold /\ (~clamped' => ~clamped /\ ~(Shifted(row, Amount[c]) < 0))
        BY <1>9, <3>1 DEF SetSave
      <4>4. QED
        BY <1>a, <1>b, <3>3, <4>1, <4>2, <4>3 DEF RowAddsUpUnlessClobbered
    <3>6. QED
      BY <2>2, <3>4, <3>5 DEF RowInv
  <2>5. QED
    BY <2>3, <2>4
<1>10. CASE UNCHANGED vars
  <2>1. Existing' /\ Blank' /\ RowAddsUpUnlessClobbered'
    BY <1>10 DEF vars, RowInv, Existing, Blank, RowAddsUpUnlessClobbered
  <2>2. LockedAccountedUnlessClobbered'
    BY <1>10 DEF vars, RowInv, LockedAccountedUnlessClobbered, LockedAccounted,
                 Moved, Units, Done
  <2>3. QED
    BY <2>1, <2>2 DEF RowInv
<1>11. QED
  BY <1>1, <1>2, <1>3, <1>4, <1>5, <1>6, <1>7, <1>8, <1>9, <1>10 DEF Next, Step

-----------------------------------------------------------------------------
(* Attempts are lost to calls that succeed *)

\* A call that moves on, and has not yet succeeded, leaves the others their
\* successes; its own counts for each of them.
LEMMA OthersMove ==
  ASSUME TypeOK, NEW c \in Calls, NEW d \in Calls, NEW to, pc[d] # "ok", Goto(d, to)
  PROVE  /\ Cardinality(OthersOk(c)) \in Nat /\ Cardinality(OthersOk(c))' \in Nat
         /\ Cardinality(OthersOk(c))' >= Cardinality(OthersOk(c))
         /\ to = "ok" /\ d # c =>
              Cardinality(OthersOk(c))' >= Cardinality(OthersOk(c)) + 1
<1>1. \A e \in Calls : pc'[e] = IF e = d THEN to ELSE pc[e]
  BY DEF Goto, TypeOK
<1>2. IsFiniteSet(OthersOk(c)) /\ IsFiniteSet(OthersOk(c)')
  <2>1. OthersOk(c) \in SUBSET Calls /\ OthersOk(c)' \in SUBSET Calls
    BY DEF OthersOk
  <2>2. QED
    BY <2>1, CallsAssumption, FS_Subset
<1>3. /\ Cardinality(OthersOk(c)) \in Nat /\ Cardinality(OthersOk(c)') \in Nat
  BY <1>2, FS_CardinalityType
<1>4. OthersOk(c) \subseteq OthersOk(c)'
  BY <1>1 DEF OthersOk
<1>5. Cardinality(OthersOk(c)') >= Cardinality(OthersOk(c))
  BY <1>2, <1>4, FS_Subset
<1>6. ASSUME to = "ok", d # c
      PROVE  Cardinality(OthersOk(c)') = Cardinality(OthersOk(c)) + 1
  <2>1. OthersOk(c)' = OthersOk(c) \union {d} /\ d \notin OthersOk(c)
    BY <1>1, <1>6 DEF OthersOk
  <2>2. QED
    BY <1>2, <2>1, FS_AddElement
<1>7. QED
  BY <1>3, <1>5, <1>6

\* A step that loses no attempt: the row changes only with a call that succeeds,
\* and a Deduct goes on to its update with the row as it is.
LEMMA LostKept ==
  ASSUME TypeOK, LostToOthers, NEW d \in Calls, NEW to, Goto(d, to), pc[d] # "ok",
         to # "exhausted", to = "ok" \/ row' = row, UNCHANGED tries,
         \A c \in Calls : c # d => seen'[c] = seen[c],
         Kind[d] = "deduct" /\ to = "update" =>
           row' = row /\ seen'[d] = row /\ row.available >= Amount[d]
  PROVE  LostToOthers'
<1> SUFFICES ASSUME NEW c \in Calls
             PROVE  (/\ tries[c] <= Cardinality(OthersOk(c))
                     /\ Kind[c] = "deduct" /\ pc[c] = "update" =>
                          /\ seen[c].available >= Amount[c]
                          /\ row # seen[c] => tries[c] + 1 <= Cardinality(OthersOk(c))
                     /\ pc[c] = "exhausted" => tries[c] >= maxDeductRetries)'
  BY DEF LostToOthers
<1> DEFINE n == Cardinality(OthersOk(c))
<1>1. /\ n \in Nat /\ n' \in Nat /\ n' >= n
      /\ to = "ok" /\ d # c => n' >= n + 1
  BY OthersMove
<1>2. /\ tries[c] \in Nat /\ tries'[c] = tries[c] /\ tries[c] <= n
  BY RetriesAssumption DEF TypeOK, LostToOthers
<1>3. pc'[c] = IF c = d THEN to ELSE pc[c]
  BY DEF Goto, TypeOK
<1> HIDE DEF n
<1>4. tries'[c] <= n'
  BY <1>1, <1>2
<1>5. CASE c = d
  BY <1>2, <1>3, <1>4, <1>5 DEF n
<1>6. CASE c # d
  <2>1. /\ pc'[c] = pc[c] /\ seen'[c] = seen[c]
        /\ pc[c] = "exhausted" => tries[c] >= maxDeductRetries
        /\ Kind[c] = "deduct" /\ pc[c] = "update" =>
             /\ seen[c].available >= Amount[c]
             /\ row # seen[c] => tries[c] + 1 <= n
    BY <1>3, <1>6 DEF LostToOthers, n
  <2>2. ASSUME Kind[c] = "deduct", pc[c] = "update", row' # seen[c]
        PROVE  tries[c] + 1 <= n'
    BY <1>1, <1>2, <1>6, <2>1, <2>2
  <2>3. QED
    BY <1>2, <1>4, <2>1, <2>2 DEF n
<1>7. QED
  BY <1>5, <1>6

\* A lost attempt: the row is not the one the Deduct has read, for that one had
\* enough for it.
LEMMA LostConflict ==
  ASSUME TypeOK, LostToOthers, NEW d \in Calls, DeductConflict(d)
  PROVE  LostToOthers'
<1>1. /\ Kind[d] = "deduct" /\ pc[d] = "update" /\ ~Matches(d)
      /\ tries' = [tries EXCEPT ![d] = @ + 1]
      /\ UNCHANGED <<row, seen>>
  BY DEF DeductConflict
<1>2. PICK to \in {"start", "exhausted"} :
        Goto(d, to) /\ (to = "exhausted" => tries[d] + 1 >= maxDeductRetries)
  BY RetriesAssumption DEF DeductConflict, TypeOK
<1>3. row # seen[d]
  BY <1>1 DEF LostToOthers, Matches
<1> SUFFICES ASSUME NEW c \in Calls
             PROVE  (/\ tries[c] <= Cardinality(OthersOk(c))
                     /\ Kind[c] = "deduct" /\ pc[c] = "update" =>
                          /\ seen[c].available >= Amount[c]
                          /\ row # seen[c] => tries[c] + 1 <= Cardinality(OthersOk(c))
                     /\ pc[c] = "exhausted" => tries[c] >= maxDeductRetries)'
  BY DEF LostToOthers
<1> DEFINE n == Cardinality(OthersOk(c))
<1>4. n \in Nat /\ n' \in Nat /\ n' >= n
  BY <1>1, <1>2, OthersMove
<1>5. pc'[c] = (IF c = d THEN to ELSE pc[c]) /\ tries[c] \in Nat
  BY <1>2, RetriesAssumption DEF Goto, TypeOK
<1>6. /\ tries[c] <= n
      /\ Kind[c] = "deduct" /\ pc[c] = "update" =>
           /\ seen[c].available >= Amount[c]
           /\ row # seen[c] => tries[c] + 1 <= n
      /\ pc[c] = "exhausted" => tries[c] >= maxDeductRetries
  BY DEF LostToOthers
<1> HIDE DEF n
<1>7. CASE c = d
  <2>1. tries'[c] = tries[c] + 1 /\ tries[c] + 1 <= n
    BY <1>1, <1>3, <1>6, <1>7 DEF TypeOK
  <2>2. QED
    BY <1>2, <1>4, <1>5, <1>7, <2>1 DEF n
<1>8. CASE c # d
  <2>1. tries'[c] = tries[c]
    BY <1>1, <1>8 DEF TypeOK
  <2>2. tries'[c] <= n' /\ (tries[c] + 1 <= n => tries[c] + 1 <= n')
    BY <1>4, <1>5, <1>6, <2>1
  <2>3. QED
    BY <1>1, <1>5, <1>6, <1>8, <2>1, <2>2 DEF n
<1>9. QED
  BY <1>7, <1>8

LEMMA LostInit == Init => LostToOthers
<1> SUFFICES ASSUME Init PROVE LostToOthers
  OBVIOUS
<1>1. \A c \in Calls : pc[c] = "start" /\ tries[c] = 0 /\ OthersOk(c) = {}
  BY DEF Init, OthersOk
<1>2. QED
  BY <1>1, FS_EmptySet DEF LostToOthers

LEMMA LostStep == TypeInv /\ LostToOthers /\ [Next]_vars => LostToOthers'
<1> SUFFICES ASSUME TypeInv, LostToOthers, [Next]_vars PROVE LostToOthers'
  OBVIOUS
<1>a. TypeOK
  BY DEF TypeInv
<1>1. ASSUME NEW d \in Calls, DeductRead(d) PROVE LostToOthers'
  <2>1. PICK to \in {"notfound", "short", "update"} :
          /\ Goto(d, to)
          /\ to = "update" => /\ row.available >= Amount[d]
                              /\ seen' = [seen EXCEPT ![d] = row]
          /\ to # "update" => seen' = seen
    BY <1>1 DEF DeductRead
  <2>2. \A c \in Calls : c # d => seen'[c] = seen[c]
    BY <1>a, <2>1 DEF TypeOK
  <2>3. to = "update" => seen'[d] = row
    BY <1>a, <2>1 DEF TypeOK
  <2>4. QED
    BY <1>1, <1>a, <2>1, <2>2, <2>3, LostKept DEF DeductRead
<1>2. ASSUME NEW d \in Calls, DeductWithLock(d) PROVE LostToOthers'
  BY <1>2, <1>a, LostKept DEF DeductWithLock
<1>3. ASSUME NEW d \in Calls, DeductConflict(d) PROVE LostToOthers'
  BY <1>3, <1>a, LostConflict
<1>4. ASSUME NEW d \in Calls, ReturnStock(d) \/ ConfirmDeduction(d) PROVE LostToOthers'
  <2>1. Goto(d, "ok") /\ pc[d] = "start" /\ UNCHANGED <<seen, tries>>
    BY <1>4 DEF ReturnStock, ConfirmDeduction, FromLocked
  <2>2. QED
    BY <1>a, <2>1, LostKept
<1>5. ASSUME NEW d \in Calls, LockedTooSmall(d) PROVE LostToOthers'
  BY <1>5, <1>a, LostKept DEF LockedTooSmall
<1>6. ASSUME NEW d \in Calls, SetRead(d) PROVE LostToOthers'
  <2>1. PICK to \in {"save", "insert"} : Goto(d, to)
    BY <1>6 DEF SetRead
  <2>2. \A c \in Calls : c # d => seen'[c] = seen[c]
    BY <1>6, <1>a DEF SetRead, TypeOK
  <2>3. QED
    BY <1>6, <1>a, <2>1, <2>2, LostKept DEF SetRead
<1>7. ASSUME NEW d \in Calls, SetInsert(d) PROVE LostToOthers'
  <2>1. PICK to \in {"failed", "ok"} : Goto(d, to) /\ (to = "ok" \/ row' = row)
    BY <1>7 DEF SetInsert
  <2>2. QED
    BY <1>7, <1>a, <2>1, LostKept DEF SetInsert
<1>8. ASSUME NEW d \in Calls, SetSave(d) PROVE LostToOthers'
  BY <1>8, <1>a, LostKept DEF SetSave
<1>9. CASE UNCHANGED vars
  BY <1>9 DEF vars, LostToOthers, OthersOk
<1>10. QED
  BY <1>1, <1>2, <1>3, <1>4, <1>5, <1>6, <1>7, <1>8, <1>9 DEF Next, Step

-----------------------------------------------------------------------------
(* Theorems *)

\* The invariant holds in every state, whatever the calls, amounts and attempts.
THEOREM InventoryInvariant == Spec => []InventoryInv
<1>1. Init => InventoryInv
  BY TypeInit, InvInit, LostInit DEF InventoryInv
<1>2. InventoryInv /\ [Next]_vars => InventoryInv'
  BY TypeStep, InvStep, LostStep DEF InventoryInv
<1>3. QED
  BY <1>1, <1>2, PTL DEF Spec

\* The columns of the row never become negative, and no Deduct makes more than
\* maxDeductRetries attempts.
THEOREM InventoryTypeCorrect == Spec => []TypeOK
<1>1. InventoryInv => TypeOK
  BY DEF InventoryInv, TypeInv
<1>2. QED
  BY <1>1, InventoryInvariant, PTL

\* No deduction granted by the version check is ever forgotten (DeductWithLock,
\* Return, ConfirmDeduction), until SetInventory saves over one it has not read.
THEOREM GrantsAccounted == Spec => []LockedAccountedUnlessClobbered
<1>1. InventoryInv => LockedAccountedUnlessClobbered
  BY DEF InventoryInv, RowInv
<1>2. QED
  BY <1>1, InventoryInvariant, PTL

\* total is what is available, locked or sold, and never more: SetInventory loses
\* no unit, and makes some up only when it shrinks total below what is out.
THEOREM RowAddsUp == Spec => []RowAddsUpUnlessClobbered
<1>1. InventoryInv => RowAddsUpUnlessClobbered
  BY DEF InventoryInv, RowInv
<1>2. QED
  BY <1>1, InventoryInvariant, PTL

\* "Insufficient" for want of attempts is said only to a Deduct that lost each of
\* them to a different call that succeeded: Matches fails for no other reason.
THEOREM RefusedUnderContention == Spec => []RefusedOnlyUnderContention
<1>1. InventoryInv => RefusedOnlyUnderContention
  <2> SUFFICES ASSUME InventoryInv, NEW c \in Calls, pc[c] = "exhausted"
               PROVE  Cardinality(OthersOk(c)) >= maxDeductRetries
    BY DEF RefusedOnlyUnderContention, OthersOk
  <2>1. tries[c] <= Cardinality(OthersOk(c)) /\ tries[c] >= maxDeductRetries
    BY DEF InventoryInv, LostToOthers
  <2>2. OthersOk(c) \in SUBSET Calls
    BY DEF OthersOk
  <2>3. Cardinality(OthersOk(c)) \in Nat
    BY <2>2, CallsAssumption, FS_Subset, FS_CardinalityType
  <2>4. tries[c] \in Nat
    BY RetriesAssumption DEF InventoryInv, TypeInv, TypeOK
  <2>5. QED
    BY <2>1, <2>3, <2>4, RetriesAssumption
<1>2. QED
  BY <1>1, InventoryInvariant, PTL
=============================================================================
