-------------------------- MODULE MCUserManagement -------------------------
(* UserManagement with two requests and a token for TLC.                   *)
EXTENDS UserManagement, TLC
CONSTANTS r1, r2, t1

Symmetry == Permutations(Requests)
=============================================================================
