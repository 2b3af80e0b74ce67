-------------------------------- MODULE Timer --------------------------------
(***************************************************************************)
(* The timer interrupt and sleep_ms: PitIRQHandler (src/kernel/devices/    *)
(* src/pit.cpp), FrequencyDivider::do_tick (frequency_divider.hpp), and    *)
(* sleep_ of src/kernel/libkernelcxx/src/time.cpp.                         *)
(*                                                                         *)
(* The sleeping task looks at jiffies whenever the scheduler lets it run;  *)
(* the hardware timer ticks at any time.  Time is counted in hardware      *)
(* ticks.                                                                  *)
(***************************************************************************)
EXTENDS TimeArithmetic

CONSTANTS
  HZ,                \* ticks per second that the kernel is configured for
  PIT_FREQUENCY,     \* 1193182
  MAX_DIVIDER,       \* 65535
  Sleeps,            \* bound: arguments of sleep_ms, in milliseconds
  MaxTime            \* bound: hardware ticks

ASSUME TimerAssumption ==
  /\ HZ \in Nat \ {0}
  /\ PIT_FREQUENCY \in Nat
  /\ MAX_DIVIDER \in Nat
  /\ Sleeps \subseteq Nat
  /\ MaxTime \in Nat

divider == set_frequency(HZ, PIT_FREQUENCY, MAX_DIVIDER)
pit_ == divider.pit_
restart_ == divider.restart_

VARIABLES
  counter_,          \* as in FrequencyDivider
  jiffies,           \* as in time.cpp
  end_of_sleep,      \* sleep_(): its local
  pc,                \* "running" or, inside sleep_(), "sleeping" or "panic"
  irq_on,            \* irq::is_enabled()
  time,              \* history: hardware ticks so far
  ticked,            \* history: hardware ticks since the last software tick
  ms,                \* history: the argument of the last sleep_ms
  began              \* history: the time of that call

timer_vars == <<counter_, jiffies, end_of_sleep, pc, irq_on, time, ticked, ms, began>>

\* pit::init(): the divider is programmed, interrupts are off.
TimerInit ==
  /\ counter_ = restart_
  /\ jiffies = 0
  /\ end_of_sleep = 0
  /\ pc = "running"
  /\ irq_on = FALSE
  /\ time = 0
  /\ ticked = 0
  /\ ms = 0
  /\ began = 0

\* kernel_main calls irq::enable().
irq_enable ==
  /\ ~irq_on
  /\ pc = "running"
  /\ irq_on' = TRUE
  /\ UNCHANGED <<counter_, jiffies, end_of_sleep, pc, time, ticked, ms, began>>

\* Mutant of SoftwareTick: the counter starts one too low.
SoftwareTickReloadsLess ==
  /\ counter_ = 0
  /\ counter_' = restart_ - 1
  /\ jiffies' = (jiffies + 1) % UInt32
  /\ ticked' = 0

\* Mutant of SoftwareTick: jiffies is not incremented.
SoftwareTickLost ==
  /\ counter_ = 0
  /\ counter_' = restart_
  /\ ticked' = 0
  /\ UNCHANGED jiffies

\* do_tick() returns true: software tick.
SoftwareTick ==
  /\ counter_ = 0
  /\ counter_' = restart_
  /\ jiffies' = (jiffies + 1) % UInt32
  /\ ticked' = 0

\* do_tick() returns false.
NoSoftwareTick ==
  /\ counter_ # 0
  /\ counter_' = counter_ - 1
  /\ ticked' = ticked + 1
  /\ UNCHANGED jiffies

\* PitIRQHandler::handle_irq()
pit_handle_irq ==
  /\ irq_on
  /\ time < MaxTime
  /\ time' = time + 1
  /\ SoftwareTick \/ NoSoftwareTick
  /\ UNCHANGED <<end_of_sleep, pc, irq_on, ms, began>>

\* sleep_ms(m) up to the loop of sleep_; it begins only when the bound on
\* time leaves room for its end.
sleep_ms(m) ==
  /\ pc = "running"
  /\ irq_on
  /\ time + ms_to_ticks(m, HZ) * (restart_ + 1) <= MaxTime
  /\ end_of_sleep' = (jiffies + ms_to_ticks(m, HZ)) % UInt32
  /\ pc' = "sleeping"
  /\ ms' = m
  /\ began' = time
  /\ UNCHANGED <<counter_, jiffies, irq_on, time, ticked>>

\* sleep_ms() is called while interrupts are off.
SleepPanics ==
  /\ pc = "running"
  /\ ~irq_on
  /\ pc' = "panic"
  /\ UNCHANGED <<counter_, jiffies, end_of_sleep, irq_on, time, ticked, ms, began>>

\* The loop of sleep_ ends.  While it does not, it yields, which changes
\* nothing here.
SleepEnds ==
  /\ pc = "sleeping"
  /\ ~(jiffies < end_of_sleep)
  /\ pc' = "running"
  /\ UNCHANGED <<counter_, jiffies, end_of_sleep, irq_on, time, ticked, ms, began>>

\* panic() halts for ever.
Halted == pc = "panic" /\ UNCHANGED timer_vars

TimerNext ==
  \/ irq_enable
  \/ pit_handle_irq
  \/ \E m \in Sleeps : sleep_ms(m)
  \/ SleepPanics
  \/ SleepEnds
  \/ Halted

TimerSpec == TimerInit /\ [][TimerNext]_timer_vars

\* The hardware ticks, and the scheduler runs every task again and again.
TimerFairness == WF_timer_vars(pit_handle_irq) /\ WF_timer_vars(SleepEnds)

TimerFairSpec == TimerSpec /\ TimerFairness

-----------------------------------------------------------------------------
(* Properties.                                                             *)

\* jiffies is the number of software ticks since the start of the kernel
\* (time.hpp:9), and no hardware tick is lost between them: do_tick() is true
\* once in restart_ + 1 calls (frequency_divider.hpp:71-79).
JiffiesCountTicks ==
  /\ jiffies = (time \div (restart_ + 1)) % UInt32
  /\ ticked + counter_ = restart_

\* "restart_ is a number of HW ticks in one SW timer tick"
\* (frequency_divider.hpp:28).
TickIsRestartLong == [][jiffies' # jiffies => ticked + 1 = restart_]_timer_vars

\* A sleep that ends has lasted for as long as the number of software ticks
\* that its argument comes to, less at most the part of a tick that was over
\* when it began, however late the task looks at jiffies (time.cpp:13-26).
SleepsToWithinATick ==
  [][SleepEnds =>
       (time - began + restart_) * MS_IN_SEC >= ms * HZ * (restart_ + 1)]_timer_vars

\* "Function does nothing during specified at least specified time"
\* (time.hpp:16).  A hardware tick takes pit_ periods of the chip's clock,
\* and less than time - began + 1 of them lie between the call and its end.
SleepsAtLeastItsTime ==
  [][SleepEnds =>
       (time - began + 1) * pit_ * MS_IN_SEC >= ms * PIT_FREQUENCY]_timer_vars

\* Every sleep ends.
SleepsEnd == pc = "sleeping" ~> pc = "running"
=============================================================================
