------------------------- MODULE MCSearchProjection -------------------------
(* Small instances of SearchProjection for TLC. *)
EXTENDS SearchProjection, TLC

Symmetry == Permutations(Text) \cup Permutations(Drainers) \cup Permutations(Reindexers)
=============================================================================
