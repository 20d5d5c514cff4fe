---------------------------- MODULE MCSnowflake ----------------------------
(* Two nodes with two ids per millisecond. *)
EXTENDS Snowflake, TLC

CONSTANTS p1, p2

MCNodeId == p1 :> 0 @@ p2 :> 1
=============================================================================
