--------------------------- MODULE MCDocumentSets ---------------------------
(* Small instances of DocumentSets for TLC. *)
EXTENDS DocumentSets, TLC

Symmetry == Permutations(Sets) \cup Permutations(Names) \cup Permutations(Docs)
                \cup Permutations(Users)
=============================================================================
