--------------------------- MODULE MCSharedBuffer ---------------------------
(* Model checking SharedBuffer.  Producers are alike, and so are consumers;*)
(* the symmetry is used by the runs that check no liveness property.       *)
EXTENDS SharedBuffer, TLC

Symmetry == Permutations(Producers) \cup Permutations(Consumers)
=============================================================================
