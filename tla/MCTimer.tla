------------------------------- MODULE MCTimer -------------------------------
(* Model of Timer for TLC; the constants are in MCTimerDivider.cfg and     *)
(* MCTimerSleep.cfg.                                                       *)
EXTENDS Timer
=============================================================================
