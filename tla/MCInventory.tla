---------------------------- MODULE MCInventory ----------------------------
(* Calls on one inventory row: two Deducts against a Return, a Confirm and  *)
(* two Sets, enough updates to exhaust the three attempts of a Deduct.      *)
EXTENDS Inventory, TLC

CONSTANTS d1, d2, r1, c1, s1, s2

MCKind == [c \in Calls |-> CASE c = r1 -> "return" [] c = c1 -> "confirm"
                             [] c \in {s1, s2} -> "set" [] OTHER -> "deduct"]
MCAmount == [c \in Calls |-> CASE c = d2 -> 2 [] c = s1 -> 3 [] c = s2 -> 1
                               [] OTHER -> 1]
=============================================================================
