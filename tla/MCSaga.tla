------------------------------- MODULE MCSaga -------------------------------
(* Instances of Saga for TLC: o2 asks for two units, the others for one. *)
EXTENDS Saga, TLC

CONSTANTS o1, o2, o3

MCQuantity == [o \in Orders |-> IF o = o2 THEN 2 ELSE 1]

\* o1 and o3 ask for the same quantity: the state space is symmetric in them.
MCSymmetry == Permutations({o1, o3})
=============================================================================
