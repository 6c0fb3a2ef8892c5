---------------------------- MODULE MCImportJobs ----------------------------
(* Small instances of ImportJobs and ReferenceData for TLC. *)
EXTENDS ImportJobs
=============================================================================
