--------------------------- MODULE MCProductCache ---------------------------
(* Two GETs against a creation, an update of each field and a deletion. *)
EXTENDS ProductCache, TLC

CONSTANTS g1, g2, new, price, status, drop

MCOp == [w \in Writers |-> CASE w = new -> "create" [] w = drop -> "delete"
                             [] w = price -> "price" [] w = status -> "status"]
=============================================================================
