----------------------------- MODULE Inventory -----------------------------
(***************************************************************************)
(* One row of the inventories table under concurrent calls of              *)
(* InventoryService: the consumer's Deduct, Return and ConfirmDeduction    *)
(* and the admin's PUT /inventory (SetInventory) and POST .../deduct.      *)
(*                                                                         *)
(* Every SQL statement is one step.  Deduct reads the row and then updates *)
(* it where the version is still the one it read, at most                  *)
(* maxDeductRetries times; Return and ConfirmDeduction are single guarded  *)
(* updates; SetInventory reads the row and saves all of it back.  When     *)
(* Deduct runs in a transaction, its update is the step at which the       *)
(* transaction commits: until then the row is locked against updates and   *)
(* readers see the old one.                                                *)
(***************************************************************************)
EXTENDS Integers, FiniteSets

CONSTANTS Calls,             \* calls made on the service, each once
          Kind,              \* what each call does
          Amount,            \* its quantity, or the total it sets
          Initials,          \* stocks the row may start with, 0 for no row
          maxDeductRetries   \* attempts of a Deduct

Kinds == {"deduct", "return", "confirm", "set"}

ASSUME CallsAssumption   == IsFiniteSet(Calls)
ASSUME KindAssumption    == Kind \in [Calls -> Kinds]
ASSUME AmountAssumption  == Amount \in [Calls -> Nat \ {0}]
ASSUME InitialsAssumption == Initials \subseteq Nat
ASSUME RetriesAssumption == maxDeductRetries \in Nat \ {0}

VARIABLES exists,   \* whether the row has been inserted
          row,      \* the row
          pc,       \* where each call is, or how it ended
          seen,     \* the row as each call last read it
          tries,    \* failed attempts of each Deduct
          sold,     \* history: units confirmed
          clobbered, \* history: a Save overwrote an update it had not read
          clamped   \* history: a Save would have made available negative

vars == <<exists, row, pc, seen, tries, sold, clobbered, clamped>>

Rows == [total : Nat, available : Nat, locked : Nat, version : Nat]
NewRow(t) == [total |-> t, available |-> t, locked |-> 0, version |-> 0]

\* "short" and "exhausted" are the same ErrStockInsufficient to the caller.
Ends == {"ok", "short", "exhausted", "notfound", "failed"}
Steps == {"start", "update", "insert", "save"}

Goto(c, to) == pc' = [pc EXCEPT ![c] = to]

-----------------------------------------------------------------------------
\* Deduct's read: the loop stops at once if there is no row or too little stock.
DeductRead(c) ==
  /\ Kind[c] = "deduct" /\ pc[c] = "start"
  /\ \/ ~exists /\ Goto(c, "notfound") /\ UNCHANGED seen
     \/ /\ exists /\ row.available < Amount[c]
        /\ Goto(c, "short") /\ UNCHANGED seen
     \/ /\ exists /\ row.available >= Amount[c]
        /\ seen' = [seen EXCEPT ![c] = row]
        /\ Goto(c, "update")
  /\ UNCHANGED <<exists, row, tries, sold, clobbered, clamped>>

Matches(c) == row.available >= Amount[c] /\ row.version = seen[c].version

\* Mutant of DeductWithLock: the row read is saved back, whatever it is now.
DeductBlind(c) ==
  /\ Kind[c] = "deduct" /\ pc[c] = "update"
  /\ row' = [seen[c] EXCEPT !.available = @ - Amount[c],
                            !.locked = @ + Amount[c], !.version = @ + 1]
  /\ Goto(c, "ok")
  /\ UNCHANGED <<exists, seen, tries, sold, clobbered, clamped>>

\* DeductWithLock: one row affected,
DeductWithLock(c) ==
  /\ Kind[c] = "deduct" /\ pc[c] = "update"
  /\ Matches(c)
  /\ row' = [row EXCEPT !.available = @ - Amount[c], !.locked = @ + Amount[c],
                        !.version = @ + 1]
  /\ Goto(c, "ok")
  /\ UNCHANGED <<exists, seen, tries, sold, clobbered, clamped>>

\* Mutant of DeductConflict: one attempt fewer.
DeductConflictEarly(c) ==
  /\ Kind[c] = "deduct" /\ pc[c] = "update"
  /\ ~Matches(c)
  /\ tries' = [tries EXCEPT ![c] = @ + 1]
  /\ Goto(c, IF tries[c] + 2 < maxDeductRetries THEN "start" ELSE "exhausted")
  /\ UNCHANGED <<exists, row, seen, sold, clobbered, clamped>>

\* ... or none: read again, unless this was the last attempt.
DeductConflict(c) ==
  /\ Kind[c] = "deduct" /\ pc[c] = "update"
  /\ ~Matches(c)
  /\ tries' = [tries EXCEPT ![c] = @ + 1]
  /\ Goto(c, IF tries[c] + 1 < maxDeductRetries THEN "start" ELSE "exhausted")
  /\ UNCHANGED <<exists, row, seen, sold, clobbered, clamped>>

\* A guarded update that needs Amount[c] locked units.
FromLocked(c, kind, backTo) ==
  /\ Kind[c] = kind /\ pc[c] = "start"
  /\ exists /\ row.locked >= Amount[c]
  /\ row' = [row EXCEPT !.available = @ + backTo, !.locked = @ - Amount[c],
                        !.version = @ + 1]
  /\ Goto(c, "ok")
  /\ UNCHANGED <<exists, seen, tries, clobbered, clamped>>

ReturnStock(c) == FromLocked(c, "return", Amount[c]) /\ UNCHANGED sold

ConfirmDeduction(c) == /\ FromLocked(c, "confirm", 0)
                       /\ sold' = sold + Amount[c]

\* No row affected: an error, and nothing changes.
LockedTooSmall(c) ==
  /\ Kind[c] \in {"return", "confirm"} /\ pc[c] = "start"
  /\ ~(exists /\ row.locked >= Amount[c])
  /\ Goto(c, "failed")
  /\ UNCHANGED <<exists, row, seen, tries, sold, clobbered, clamped>>

\* SetInventory's read.
SetRead(c) ==
  /\ Kind[c] = "set" /\ pc[c] = "start"
  /\ seen' = [seen EXCEPT ![c] = row]
  /\ Goto(c, IF exists THEN "save" ELSE "insert")
  /\ UNCHANGED <<exists, row, tries, sold, clobbered, clamped>>

\* Upsert of a new row; the unique index on product_id refuses a second one.
SetInsert(c) ==
  /\ Kind[c] = "set" /\ pc[c] = "insert"
  /\ IF exists THEN Goto(c, "failed") /\ UNCHANGED <<exists, row>>
               ELSE /\ Goto(c, "ok")
                    /\ exists' = TRUE /\ row' = NewRow(Amount[c])
  /\ UNCHANGED <<seen, tries, sold, clobbered, clamped>>

\* Mutant of Resized: what is not locked is available.
ResizedUnlocked(r, t) ==
  [r EXCEPT !.total = t, !.available = IF t < r.locked THEN 0 ELSE t - r.locked]

\* What is available after total has been set, before it is kept from being
\* negative,
Shifted(r, t) == r.available + t - r.total

\* ... and the row: locked and version are as they were read.
Resized(r, t) ==
  [r EXCEPT !.total = t, !.available = IF Shifted(r, t) < 0 THEN 0 ELSE Shifted(r, t)]

\* Upsert of the row read: every column is written.

SetSave(c) ==
  /\ Kind[c] = "set" /\ pc[c] = "save"
  /\ row' = Resized(seen[c], Amount[c])
  /\ clobbered' = (clobbered \/ row # seen[c])
  /\ clamped' = (clamped \/ Shifted(seen[c], Amount[c]) < 0)
  /\ Goto(c, "ok")
  /\ UNCHANGED <<exists, seen, tries, sold>>

-----------------------------------------------------------------------------
Init ==
  /\ \E n \in Initials : exists = (n > 0) /\ row = NewRow(n)
  /\ pc = [c \in Calls |-> "start"]
  /\ seen = [c \in Calls |-> NewRow(0)]
  /\ tries = [c \in Calls |-> 0]
  /\ sold = 0
  /\ clobbered = FALSE /\ clamped = FALSE

Step(c) == \/ DeductRead(c) \/ DeductWithLock(c) \/ DeductConflict(c)
           \/ ReturnStock(c) \/ ConfirmDeduction(c) \/ LockedTooSmall(c)
           \/ SetRead(c) \/ SetInsert(c) \/ SetSave(c)

Next == \E c \in Calls : Step(c)

Spec == Init /\ [][Next]_vars

-----------------------------------------------------------------------------
(* Properties *)

TypeOK ==
  /\ exists \in BOOLEAN
  /\ row \in Rows
  /\ pc \in [Calls -> Steps \union Ends]
  /\ seen \in [Calls -> Rows]
  /\ tries \in [Calls -> 0..maxDeductRetries]
  /\ sold \in Nat
  /\ clobbered \in BOOLEAN /\ clamped \in BOOLEAN

\* The units that the successful calls of one kind moved, one by one.
Units(S)    == UNION {{c} \X (1..Amount[c]) : c \in S}
Done(kind)  == {c \in Calls : Kind[c] = kind /\ pc[c] = "ok"}
Moved(kind) == Cardinality(Units(Done(kind)))

\* Every unit in locked was put there by a Deduct that told its caller so and
\* has not been returned or confirmed: no granted deduction is ever forgotten.
LockedAccounted ==
  row.locked = Moved("deduct") - Moved("return") - Moved("confirm")

\* ... which optimistic locking guarantees among the calls that check the row
\* they update; only SetInventory's blind Save can break it.
LockedAccountedUnlessClobbered == ~clobbered => LockedAccounted

\* Deduct answers "insufficient" to a caller for whom there is stock only when
\* it lost every attempt to a different concurrent call.
RefusedOnlyUnderContention ==
  \A c \in Calls : pc[c] = "exhausted" =>
    Cardinality({d \in Calls \ {c} : pc[d] = "ok"}) >= maxDeductRetries

\* total counts every unit there has been: it is what is available, locked or sold.
\* Shrinking it below what is locked or sold makes units out of nothing, as many as
\* available is short of; no unit ever disappears, and without such a resize none
\* appears, until SetInventory overwrites an update.
RowAddsUpUnlessClobbered ==
  ~clobbered => /\ row.total <= row.available + row.locked + sold
                /\ ~clamped => row.total = row.available + row.locked + sold
=============================================================================
