--------------------------- MODULE MCRateLimiter ---------------------------
(* RateLimiter with a few requesters and channels for TLC.                  *)
EXTENDS RateLimiter
CONSTANTS p1, p2, ch1, ch2, ch3
=============================================================================
