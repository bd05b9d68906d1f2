------------------------------- MODULE MCTSC --------------------------------
(* The model checker's entry to TSC; its constants are all in the .cfg.      *)
EXTENDS TSC
=============================================================================
