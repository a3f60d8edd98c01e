----------------------------- MODULE MCCarCounts -----------------------------
(* One coil, in each of the protocols, for TLC.                            *)
EXTENDS CarCounts
=============================================================================
