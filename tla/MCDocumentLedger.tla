-------------------------- MODULE MCDocumentLedger --------------------------
(* Small instances of DocumentLedger for TLC. *)
EXTENDS DocumentLedger, TLC

\* The identities are not interchangeable: one of them may be shared.
Symmetry == Permutations(Docs) \cup Permutations(Places) \cup Permutations(Users)
=============================================================================
