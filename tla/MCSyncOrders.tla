---------------------------- MODULE MCSyncOrders ----------------------------
(* Three users order one unit each, of two in stock; u1, who may have        *)
(* ordered with Seckill, cancels twice, and u2 tries to cancel u1's order.   *)
EXTENDS SyncOrders, TLC

CONSTANTS u1, u2, u3, n1, n2, n3, x1, x2, x3

MCOwner == [r \in Creates \union Cancels |->
              CASE r \in {n2, x3} -> u2 [] r = n3 -> u3 [] OTHER -> u1]
MCTarget == [c \in Cancels |-> u1]
MCQuantity == [u \in Users |-> 1]
=============================================================================
