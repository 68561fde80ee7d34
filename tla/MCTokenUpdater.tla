--------------------------- MODULE MCTokenUpdater ---------------------------
(* TokenUpdater with a few requests and a short channel for TLC.            *)
EXTENDS TokenUpdater
CONSTANTS r1, r2, i1, i2
=============================================================================
