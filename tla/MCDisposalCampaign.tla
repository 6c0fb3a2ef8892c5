------------------------- MODULE MCDisposalCampaign -------------------------
(* Small instances of DisposalCampaign for TLC. *)
EXTENDS DisposalCampaign, TLC

Symmetry == Permutations(Docs \ Seeds) \cup Permutations(Campaigns) \cup Permutations(Users)
                \cup Permutations(Groups)
=============================================================================
