--------------------------- MODULE MCBootstrapLoad ---------------------------
(* Small instances of BootstrapLoad for TLC. *)
EXTENDS BootstrapLoad
=============================================================================
