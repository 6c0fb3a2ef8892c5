------------------------- MODULE MCLedgerSnapshots --------------------------
(* Small instances of LedgerSnapshots for TLC. *)
EXTENDS LedgerSnapshots, TLC

Symmetry == Permutations(Docs) \cup Permutations(Idents)
                \cup Permutations(Operators)
=============================================================================
