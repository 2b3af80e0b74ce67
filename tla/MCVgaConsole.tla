---------------------------- MODULE MCVgaConsole ----------------------------
(* Model of VgaConsole for TLC; the constants are in the .cfg.              *)
EXTENDS VgaConsole
=============================================================================
