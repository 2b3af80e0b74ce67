---------------------------- MODULE MCPS2Keyboard ----------------------------
(* Model of PS2Keyboard for TLC; the constants are in                        *)
(* MCPS2KeyboardRepeat.cfg.                                                  *)
EXTENDS PS2Keyboard
=============================================================================
