------------------------- MODULE MCClientLifecycle -------------------------
(* ClientLifecycle on small instances.  Clients and broadcast goroutines are *)
(* interchangeable, so the safety runs take them up to permutation.          *)
EXTENDS ClientLifecycle, TLC

Symmetry == Permutations(Clients) \cup Permutations(Bcasts)
=============================================================================
