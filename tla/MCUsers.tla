------------------------------ MODULE MCUsers ------------------------------
(* Four requests about two names and three emails, all interchangeable. *)
EXTENDS Users, TLC

MCSymmetry == Permutations(Names) \union Permutations(Emails) \union Permutations(Requests)
=============================================================================
