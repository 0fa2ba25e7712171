--------------------------- MODULE MCTryOnStores ---------------------------
(* TryOnStores for TLC: attempts are interchangeable.                       *)
EXTENDS TryOnStores, TLC

Symmetry == Permutations(Attempts)
=============================================================================
