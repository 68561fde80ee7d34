------------------------- MODULE MCRateLimiterClock ------------------------
(* RateLimiterClock with a few requesters and channels for TLC.             *)
EXTENDS RateLimiterClock, TLC
CONSTANTS p1, p2, ch1, ch2, ch3

Symmetry == Permutations(Requesters) \cup Permutations(Chans)
=============================================================================
