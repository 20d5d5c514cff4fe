----------------------------- MODULE MCGateway -----------------------------
(* Two instances and one request at a time. *)
EXTENDS Gateway
=============================================================================
