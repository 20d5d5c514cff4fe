------------------------------ MODULE MCOutbox ------------------------------
(* Two events: both fit in a batch. *)
EXTENDS Outbox, TLC

CONSTANTS e1, e2
=============================================================================
