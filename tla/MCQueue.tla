------------------------------- MODULE MCQueue ------------------------------
(* Two threads on one queue of at most three nodes, all operations.          *)
EXTENDS Queue, TLC

Symmetry == Permutations(Threads) \cup Permutations(Nodes)
=============================================================================
