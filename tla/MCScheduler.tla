----------------------------- MODULE MCScheduler -----------------------------
(* Model of Scheduler for TLC; the constants are in MCScheduler.cfg.        *)
EXTENDS Scheduler
=============================================================================
