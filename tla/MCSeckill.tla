----------------------------- MODULE MCSeckill -----------------------------
(* Three requests of u1 for one unit each, and one of u2 for two units. *)
EXTENDS Seckill, TLC

CONSTANTS u1, u2, a1, a2, a3, b1

MCOwner == [r \in Requests |-> IF r = b1 THEN u2 ELSE u1]
MCWant  == [r \in Requests |-> IF r = b1 THEN 2 ELSE 1]
=============================================================================
