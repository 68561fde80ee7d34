--------------------------- MODULE MCRankRequests ---------------------------
(* RankRequests with a few users and one map for TLC: a submission names the *)
(* map alone, or along with a set that it does not belong to.                *)
EXTENDS RankRequests, TLC
CONSTANTS r1, r2, u1, u2, b1, s1, s2

MCSetOf == b1 :> s1
MCAsks == {[id |-> b1, set |-> None], [id |-> b1, set |-> s2]}

Symmetry == Permutations(Requests) \cup Permutations(Users)
=============================================================================
