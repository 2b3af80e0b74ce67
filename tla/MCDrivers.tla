----------------------------- MODULE MCDrivers -----------------------------
(***************************************************************************)
(* Model of two interrupt handlers for TLC, the timer's and the            *)
(* keyboard's; the constants are in MCDrivers.cfg.  They share no state:   *)
(* the initial state chooses the device that is used.                      *)
(***************************************************************************)
EXTENDS PS2Keyboard, Timer

VARIABLE which      \* the device that is used

DriverVars == <<which, vars, timer_vars>>

DriversInit ==
  /\ which \in {"keyboard", "timer"}
  /\ Init
  /\ TimerInit

\* A step of the device that is used.
OfKeyboard(step) == which = "keyboard" /\ step /\ UNCHANGED <<which, timer_vars>>
OfTimer(step) == which = "timer" /\ step /\ UNCHANGED <<which, vars>>

DriversNext == OfKeyboard(Next) \/ OfTimer(TimerNext)

\* The fairness of PS2Keyboard and of Timer.
DriversSpec ==
  /\ DriversInit /\ [][DriversNext]_DriverVars
  /\ WF_DriverVars(OfKeyboard(handle_irq))
  /\ WF_DriverVars(OfKeyboard(HandleByte))
  /\ WF_DriverVars(OfTimer(pit_handle_irq))
  /\ WF_DriverVars(OfTimer(SleepEnds))
=============================================================================
