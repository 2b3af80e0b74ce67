-------------------------- MODULE InterruptDelivery --------------------------
(***************************************************************************)
(* Delivery of hardware interrupts: irq::InterruptsManager (src/kernel/    *)
(* x86/src/irq.cpp), the entry code of x86/src/idt.cpp and devices::       *)
(* PIC8259 (src/kernel/devices/interrupt_controller/pic_8259.cpp), and the *)
(* critical sections that hold it back: thr::RecursiveIrqLocker            *)
(* (src/kernel/threading/src/lock.cpp) over irq::enable() and disable(),   *)
(* and the switch from one task to another (sched/scheduler.cpp), which    *)
(* sets the flag behind their back.                                        *)
(*                                                                         *)
(* The two cascaded 8259 chips are external, modelled as the driver sets   *)
(* them up: edge triggered, fully nested, nothing masked, ended by         *)
(* non-specific EOI commands.  Line 2 of the master is the slave.          *)
(***************************************************************************)
EXTENDS Integers, Sequences

CONSTANTS
  Lines,         \* the lines that devices raise, a subset of 0..15
  Handled,       \* the lines that have a handler that returns HANDLED
  MaxRequests,   \* bound: how often devices raise their lines
  MaxLocks       \* bound: how deep critical sections nest

ASSUME LinesAssumption ==
  /\ Lines \subseteq (0..15) \ {2}
  /\ Handled \subseteq Lines
  /\ MaxRequests \in Nat
  /\ MaxLocks \in Nat

NoVector == -1

min_irq_vector == 32     \* 0x20
exception_max == 32      \* exception_t::max, 0x20
nmi == 2                 \* the CPU's vector that install_traps() leaves out

\* initialize_controller() programs the chips with offset1 and offset2.
vector_of(line) ==
  LET offset1 == 32
      offset2 == 40
  IN  IF line \in 0..7 THEN offset1 + line ELSE offset2 + line - 8

VARIABLES
  irr,           \* PIC: lines with a request that is not yet acknowledged
  isr,           \* PIC: lines in service, master and slave
  flags,         \* the CPU's interrupt flag
  vector,        \* the vector in handle_irq, or NoVector
  status,        \* handle_irq: "DISPATCH" before, then what dispatch returned
  interrupts_enabled,  \* what irq::enable() and disable() last did
  locks,         \* _enable_on_unlock of the held locks, the innermost last
  switching,     \* where switch_to() is: "no", "disabled" or "switched"
  started,       \* history: kernel_main has enabled interrupts
  requests       \* history: how often a line was raised

sections == <<interrupts_enabled, locks, switching, started>>
irq_vars == <<irr, isr, flags, vector, status, sections, requests>>

-----------------------------------------------------------------------------
(* The interrupt controller.                                               *)

Master(lines) == lines \cap 0..7
Slave(lines) == lines \cap 8..15

\* The master's line on which a line interrupts.
MasterLine(line) == IF line \in 0..7 THEN line ELSE 2

\* Fully nested mode: a line in service holds back its own chip's lines of
\* the same and of lower priority.
Blocked(line) ==
  \/ \E l \in Master(isr) : l <= MasterLine(line)
  \/ line \in 8..15 /\ \E l \in Slave(isr) : l <= line

\* The line the controller presents to the CPU.
Presented(line) ==
  /\ line \in irr
  /\ ~Blocked(line)
  /\ \A other \in irr \ {line} :
       \/ Blocked(other)
       \/ MasterLine(line) < MasterLine(other)
       \/ MasterLine(line) = MasterLine(other) /\ line < other

\* A non-specific EOI command ends the line of the highest priority that the
\* chip has in service.
Ended(lines) == {line \in lines : \A other \in lines : line <= other}

Raise(line) ==
  /\ requests < MaxRequests
  /\ requests' = requests + 1
  /\ irr' = irr \cup {line}
  /\ UNCHANGED <<isr, flags, vector, status, sections>>

\* Mutant of end_of_interrupt: the slave is never told.
end_of_interrupt_of_master(v) == isr \ Ended(Master(isr))

\* end_of_interrupt(v): what its EOI commands leave in service.
end_of_interrupt(v) ==
  LET slave == IF v > 8 + 32 THEN Ended(Slave(isr)) ELSE {}
      master == Ended(Master(isr))
  IN  isr \ (slave \cup master)

-----------------------------------------------------------------------------
(* The CPU.                                                                *)

\* kernel_main: irq::disable() has run, and irq::init() has programmed the
\* controller.
IrqInit ==
  /\ irr = {}
  /\ isr = {}
  /\ flags = FALSE
  /\ vector = NoVector
  /\ status = "DISPATCH"
  /\ interrupts_enabled = FALSE
  /\ locks = << >>
  /\ switching = "no"
  /\ started = FALSE
  /\ requests = 0

\* irq::enable() and irq::disable(); disable() returns interrupts_enabled.
enable == flags' = TRUE /\ interrupts_enabled' = TRUE
disable == flags' = FALSE /\ interrupts_enabled' = FALSE

\* kernel_main enables interrupts, once.
kernel_main_enables ==
  /\ vector = NoVector
  /\ locks = << >>
  /\ ~started
  /\ started' = TRUE
  /\ enable
  /\ UNCHANGED <<irr, isr, vector, status, locks, switching, requests>>

\* RecursiveIrqLocker::lock(), by a lock_guard that is constructed: never by
\* a handler, nor in the midst of a switch.  The sections of schedule_forever()
\* that no switch is part of, which begin with interrupts on and end with
\* irq::enable(), behave like a lock taken then.
lock ==
  /\ vector = NoVector
  /\ switching = "no"
  /\ Len(locks) < MaxLocks
  /\ disable
  /\ locks' = Append(locks, interrupts_enabled)
  /\ UNCHANGED <<irr, isr, vector, status, switching, started, requests>>

\* Mutant of unlock: every lock enables interrupts as it is released.
UnlockEnables ==
  /\ vector = NoVector
  /\ locks # << >>
  /\ enable
  /\ locks' = SubSeq(locks, 1, Len(locks) - 1)
  /\ UNCHANGED <<irr, isr, vector, status, switching, started, requests>>

\* RecursiveIrqLocker::unlock(), by the destructor of the lock_guard.
unlock ==
  /\ vector = NoVector
  /\ locks # << >>
  /\ \/ locks[Len(locks)] /\ enable
     \/ ~locks[Len(locks)] /\ UNCHANGED <<flags, interrupts_enabled>>
  /\ locks' = SubSeq(locks, 1, Len(locks) - 1)
  /\ UNCHANGED <<irr, isr, vector, status, switching, started, requests>>

\* switch_to() finds interrupts on, or else panics, and disables them.
switch_to ==
  /\ vector = NoVector
  /\ switching = "no"
  /\ flags /\ interrupts_enabled
  /\ disable
  /\ switching' = "disabled"
  /\ UNCHANGED <<irr, isr, vector, status, locks, started, requests>>

\* switch_tasks_impl(): popfl loads the flags that the next task's stack has.
\* A task that had called switch_to() has them clear, and a new one has those
\* of its creator, while the copy stays FALSE.
switch_tasks_impl ==
  /\ switching = "disabled"
  /\ flags' \in BOOLEAN
  /\ switching' = "switched"
  /\ UNCHANGED <<irr, isr, vector, status, interrupts_enabled, locks, started, requests>>

\* The next task goes on with irq::enable(), in switch_to() or in Task::run().
SwitchEnables ==
  /\ vector = NoVector
  /\ switching = "switched"
  /\ enable
  /\ switching' = "no"
  /\ UNCHANGED <<irr, isr, vector, status, locks, started, requests>>

\* The CPU acknowledges the interrupt and enters its gate, an interrupt gate.
Acknowledge(line) ==
  /\ flags
  /\ Presented(line)
  /\ irr' = irr \ {line}
  /\ isr' = isr \cup {line, MasterLine(line)}
  /\ vector' = vector_of(line)
  /\ flags' = FALSE
  /\ status' = "DISPATCH"
  /\ UNCHANGED <<sections, requests>>

\* dispatch_interrupt(): HANDLED when one of the vector's handlers says so.
dispatch_interrupt ==
  /\ vector >= exception_max
  /\ status = "DISPATCH"
  /\ status' = IF vector - min_irq_vector \in Handled THEN "HANDLED" ELSE "NONE"
  /\ UNCHANGED <<irr, isr, flags, vector, sections, requests>>

\* Mutant of HandleIrqReturns: unhandled interrupts are not ended.
EndOnlyHandled ==
  /\ vector # NoVector
  /\ status \in {"HANDLED", "NONE"}
  /\ isr' = IF status = "HANDLED" THEN end_of_interrupt(vector) ELSE isr
  /\ vector' = NoVector
  /\ flags' = TRUE
  /\ status' = "DISPATCH"
  /\ UNCHANGED <<irr, sections, requests>>

\* handle_irq() ends the interrupt whether it was handled or not; iret
\* restores the flags.
HandleIrqReturns ==
  /\ vector # NoVector
  /\ status \in {"HANDLED", "NONE"}
  /\ isr' = end_of_interrupt(vector)
  /\ vector' = NoVector
  /\ flags' = TRUE
  /\ status' = "DISPATCH"
  /\ UNCHANGED <<irr, sections, requests>>

\* A non-maskable interrupt, at any point: handle_irq() finds no handler for
\* this exception, yet sends the commands that end an interrupt.
NonMaskable ==
  /\ isr # {}
  /\ isr' = end_of_interrupt(nmi)
  /\ UNCHANGED <<irr, flags, vector, status, sections, requests>>

IrqNext ==
  \/ \E line \in Lines : Raise(line)
  \/ kernel_main_enables
  \/ lock
  \/ unlock
  \/ switch_to
  \/ switch_tasks_impl
  \/ SwitchEnables
  \/ \E line \in Lines : Acknowledge(line)
  \/ dispatch_interrupt
  \/ HandleIrqReturns
  \/ NonMaskable

IrqSpec == IrqInit /\ [][IrqNext]_irq_vars

\* kernel_main goes on and handlers end; so does every critical section,
\* whatever sections it takes inside, and every switch; and the CPU takes an
\* interrupt that it finds presented again and again.
IrqFairness ==
  /\ WF_irq_vars(switch_tasks_impl)
  /\ SF_irq_vars(SwitchEnables)
  /\ WF_irq_vars(unlock)
  /\ SF_irq_vars(Len(locks) = 1 /\ unlock)
  /\ SF_irq_vars(kernel_main_enables)
  /\ WF_irq_vars(dispatch_interrupt)
  /\ WF_irq_vars(HandleIrqReturns)
  /\ \A line \in Lines : SF_irq_vars(Acknowledge(line))

IrqFairSpec == IrqSpec /\ IrqFairness

-----------------------------------------------------------------------------
(* Properties.                                                             *)

\* When no handler runs, no line is in service: end_of_interrupt() has ended
\* the line that was given, on both chips where it involves both
\* (pic_8259.cpp:43-50, irq.cpp:104-108).
EveryInterruptIsEnded == vector = NoVector => isr = {}

\* A critical section runs with interrupts off until its outermost lock is
\* released, and that leaves them as they were found: off while kernel_main
\* sets up the kernel, on from then (lock.cpp:5-15).  The CPU's flag and the
\* kernel's copy part only in a handler and between the two instructions of a
\* switch, popfl and the sti of irq::enable() (scheduler.cpp:95-117,
\* task.cpp:52): where tasks call is_enabled() they agree, and it does not
\* panic (irq.cpp:180-186).
SectionsExcludeInterrupts ==
  /\ locks # << >> => ~flags /\ switching = "no"
  /\ vector = NoVector /\ switching = "no" => (flags <=> interrupts_enabled)
  /\ vector = NoVector /\ switching = "no" /\ locks = << >> => (flags <=> started)

\* Every request is acknowledged in the end, of any line.
RequestsAreServed == \A line \in Lines : line \in irr ~> line \notin irr
=============================================================================
