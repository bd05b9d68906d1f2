------------------------------ MODULE MCAudio -------------------------------
(* The model checker's entry to Audio; its constants are in the .cfg.      *)
EXTENDS Audio
=============================================================================
