--------------------------- MODULE MCPS2Controller ---------------------------
(* Model of PS2Controller for TLC; the constants that a .cfg cannot express *)
(* are defined here, the others are in MCPS2Controller.cfg and              *)
(* MCPS2ControllerWait.cfg.                                                 *)
EXTENDS PS2Controller

\* Nothing, or a byte of the keyboard.
MCLeftOvers == {<<>>, <<<<ScanCode, 0>>>>}
=============================================================================
