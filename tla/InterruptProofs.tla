-------------------------- MODULE InterruptProofs --------------------------
(***************************************************************************)
(* Interrupts, and two of the handlers that they call.                     *)
(*                                                                         *)
(* InterruptDelivery: critical sections and the end of interrupts, for any *)
(* set of lines and any depth of locks.  Timer: ms_to_ticks, jiffies and   *)
(* sleep_ms, for every frequency, every width of the counter and every     *)
(* argument.  PS2Keyboard: the driver prints what is typed and knows the   *)
(* special keys, for every set of keys, every length of the queue and      *)
(* every delay of the interrupt handler.                                   *)
(***************************************************************************)
EXTENDS InterruptDelivery, Timer, PS2Keyboard, FiniteSetTheorems,
        SequenceTheorems, TLAPS

\* Why SectionsExcludeInterrupts holds: interrupts come only when no lock is
\* held and no switch has them disabled, a switch begins without locks, and
\* among the held locks only the outermost can have found interrupts on.
SectionsInv ==
  /\ flags \in BOOLEAN
  /\ interrupts_enabled \in BOOLEAN
  /\ started \in BOOLEAN
  /\ locks \in Seq(BOOLEAN)
  /\ switching \in {"no", "disabled", "switched"}
  /\ vector # NoVector => /\ ~flags
                          /\ switching = "no" => interrupts_enabled
                          /\ started
                          /\ locks = << >>
  /\ switching # "no" => started /\ locks = << >>
  /\ switching = "disabled" => ~flags /\ vector = NoVector
  /\ vector = NoVector /\ switching = "no" => (flags <=> interrupts_enabled)
  /\ vector = NoVector /\ switching = "no" /\ locks = << >> => (flags <=> started)
  /\ locks # << >> => ~flags /\ (locks[1] <=> started)
  /\ \A i \in 2..Len(locks) : ~locks[i]

\* Why EveryInterruptIsEnded holds: what is in service belongs to the line
\* whose vector is handled.
ServiceInv ==
  /\ vector = NoVector => isr = {}
  /\ vector # NoVector =>
       \E line \in Lines : /\ vector = vector_of(line)
                           /\ isr \subseteq {line, MasterLine(line)}

-----------------------------------------------------------------------------
\* kernel_main begins with interrupts off and without locks.
LEMMA InitSections == IrqInit => SectionsInv
<1>. SUFFICES ASSUME IrqInit PROVE SectionsInv
  BY Zenon
<1>1. locks = << >> /\ locks \in Seq(BOOLEAN) /\ Len(locks) = 0
  BY DEF IrqInit
<1>2. \A i \in 2..Len(locks) : ~locks[i]
  BY <1>1
<1>. QED BY <1>1, <1>2, Zenon DEF IrqInit, SectionsInv

\* A lock remembers what it finds (lock.cpp:5-8).
LEMMA LockKeepsSections == SectionsInv /\ lock => SectionsInv'
<1>. SUFFICES ASSUME SectionsInv, lock PROVE SectionsInv'
  BY Zenon
<1>. DEFINE new == Append(locks, interrupts_enabled)
<1>1. /\ locks \in Seq(BOOLEAN) /\ interrupts_enabled \in BOOLEAN
      /\ locks' = new /\ flags' = FALSE /\ interrupts_enabled' = FALSE
      /\ started' = started /\ vector' = vector /\ vector = NoVector
      /\ switching' = switching /\ switching = "no"
  BY Zenon DEF SectionsInv, lock, disable
<1>2. /\ new \in Seq(BOOLEAN) /\ new # << >> /\ Len(new) = Len(locks) + 1
      /\ new[Len(locks) + 1] = interrupts_enabled
      /\ \A i \in 1..Len(locks) : new[i] = locks[i]
  BY <1>1
<1>3. locks = << >> => (new[1] <=> started)
  BY <1>1, <1>2 DEF SectionsInv
<1>4. locks # << >> => (new[1] <=> started) /\ ~interrupts_enabled
  BY <1>1, <1>2 DEF SectionsInv
<1>5. \A i \in 2..Len(new) : ~new[i]
  <2>. SUFFICES ASSUME NEW i \in 2..Len(new) PROVE ~new[i]
    BY Zenon
  <2>1. CASE i = Len(locks) + 1
    BY <2>1, <1>1, <1>2, <1>4
  <2>2. CASE i # Len(locks) + 1
    <3>1. i \in 2..Len(locks) /\ i \in 1..Len(locks)
      BY <2>2, <1>1, <1>2
    <3>. QED BY <3>1, <1>2, Zenon DEF SectionsInv
  <2>. QED BY <2>1, <2>2, Zenon
<1>. QED BY <1>1, <1>2, <1>3, <1>4, <1>5, Zenon DEF SectionsInv

\* What is left of a sequence without its last element.
LEMMA WithoutLast ==
  ASSUME NEW B, NEW s \in Seq(B), NEW n \in Nat, Len(s) = n + 1
  PROVE  /\ SubSeq(s, 1, n) \in Seq(B)
         /\ Len(SubSeq(s, 1, n)) = n
         /\ \A i \in 1..n : SubSeq(s, 1, n)[i] = s[i]
<1>1. \A i \in 1..n : s[i] \in B
  OBVIOUS
<1>2. /\ SubSeq(s, 1, n) \in Seq(B)
      /\ Len(SubSeq(s, 1, n)) = IF 1 <= n THEN n - 1 + 1 ELSE 0
      /\ \A i \in 1 .. n - 1 + 1 : SubSeq(s, 1, n)[i] = s[1 + i - 1]
  BY <1>1, SubSeqProperties
<1>. QED BY <1>2

\* Only the outermost lock may enable interrupts again (lock.cpp:10-15).
LEMMA UnlockKeepsSections == SectionsInv /\ unlock => SectionsInv'
<1>. SUFFICES ASSUME SectionsInv, unlock PROVE SectionsInv'
  BY Zenon
<1>1. /\ locks \in Seq(BOOLEAN) /\ locks # << >> /\ ~flags
      /\ locks' = SubSeq(locks, 1, Len(locks) - 1)
      /\ started' = started /\ vector' = vector /\ vector = NoVector
      /\ switching' = switching /\ switching = "no"
      /\ flags \in BOOLEAN /\ interrupts_enabled \in BOOLEAN
  BY Zenon DEF SectionsInv, unlock
<1>2. PICK n \in Nat : Len(locks) = n + 1 /\ n = Len(locks) - 1
  <2>1. Len(locks) \in Nat \ {0}
    BY <1>1, EmptySeq, Zenon
  <2>. QED BY <2>1
<1>3. /\ locks' \in Seq(BOOLEAN) /\ Len(locks') = n
      /\ \A i \in 1..n : locks'[i] = locks[i]
  BY <1>1, <1>2, WithoutLast, Zenon
<1>4. \A i \in 2..n : ~locks'[i]
  BY <1>2, <1>3 DEF SectionsInv
<1>5. CASE n = 0
  <2>1. locks' = << >>
    BY <1>3, <1>5
  <2>2. locks[1] <=> started
    BY <1>1, Zenon DEF SectionsInv
  <2>3. CASE locks[1]
    <3>1. locks[Len(locks)]
      BY <1>2, <1>5, <2>3
    <3>2. flags' = TRUE /\ interrupts_enabled' = TRUE
      BY <3>1, Zenon DEF unlock, enable
    <3>. QED BY <1>1, <1>3, <1>4, <2>1, <2>2, <2>3, <3>2, Zenon DEF SectionsInv
  <2>4. CASE ~locks[1]
    BY <1>1, <1>2, <1>3, <1>4, <1>5, <2>1, <2>2, <2>4 DEF unlock, SectionsInv
  <2>. QED BY <2>3, <2>4, Zenon
<1>6. CASE n # 0
  <2>1. n + 1 \in 2..Len(locks) /\ 1 \in 1..n
    BY <1>2, <1>6
  <2>2. locks' # << >> /\ locks'[1] = locks[1]
    BY <1>3, <1>6, <2>1
  <2>3. ~locks[Len(locks)]
    BY <1>2, <2>1, Zenon DEF SectionsInv
  <2>4. flags' = flags /\ interrupts_enabled' = interrupts_enabled
    BY <2>3, Zenon DEF unlock
  <2>. QED BY <1>1, <1>3, <1>4, <2>2, <2>4, Zenon DEF SectionsInv
<1>. QED BY <1>5, <1>6, Zenon

\* Handlers leave the locks alone, and start only when none is held.
LEMMA SectionsInductive == SectionsInv /\ [IrqNext]_irq_vars => SectionsInv'
<1>. SUFFICES ASSUME SectionsInv, [IrqNext]_irq_vars PROVE SectionsInv'
  BY Zenon
<1>1. ASSUME NEW line \in Lines, Raise(line) PROVE SectionsInv'
  BY <1>1, Zenon DEF Raise, sections, SectionsInv
<1>2. CASE kernel_main_enables
  BY <1>2, Zenon DEF kernel_main_enables, enable, SectionsInv
<1>3. CASE lock
  BY <1>3, LockKeepsSections, Zenon
<1>4. CASE unlock
  BY <1>4, UnlockKeepsSections, Zenon
<1>5. ASSUME NEW line \in Lines, Acknowledge(line) PROVE SectionsInv'
  <2>1. vector' # NoVector
    BY <1>5, LinesAssumption DEF Acknowledge, vector_of, NoVector
  <2>. QED BY <1>5, <2>1, Zenon DEF Acknowledge, sections, SectionsInv
<1>6. CASE dispatch_interrupt
  BY <1>6, Zenon DEF dispatch_interrupt, sections, SectionsInv
<1>7. CASE HandleIrqReturns
  BY <1>7, Zenon DEF HandleIrqReturns, sections, SectionsInv
<1>8. CASE NonMaskable
  BY <1>8, Zenon DEF NonMaskable, sections, SectionsInv
<1>9. CASE switch_to
  BY <1>9, Zenon DEF switch_to, disable, SectionsInv
<1>10. CASE switch_tasks_impl
  BY <1>10, Zenon DEF switch_tasks_impl, SectionsInv
<1>11. CASE SwitchEnables
  BY <1>11, Zenon DEF SwitchEnables, enable, SectionsInv
<1>12. CASE UNCHANGED irq_vars
  BY <1>12, Zenon DEF irq_vars, sections, SectionsInv
<1>. QED BY <1>1, <1>2, <1>3, <1>4, <1>5, <1>6, <1>7, <1>8, <1>9, <1>10, <1>11, <1>12,
            Zenon DEF IrqNext

\* Nested RecursiveIrqLocker locks keep interrupts off until the outermost
\* is released, and then leave them as they were found (lock.cpp).  The flag
\* and the kernel's copy of it agree wherever a task asks for them, whatever
\* flags a switch loads (scheduler.cpp:90-117).
THEOREM SectionsAlwaysExclude == IrqSpec => []SectionsExcludeInterrupts
<1>1. SectionsInv => SectionsExcludeInterrupts
  BY Zenon DEF SectionsInv, SectionsExcludeInterrupts
<1>. QED BY <1>1, InitSections, SectionsInductive, PTL DEF IrqSpec

-----------------------------------------------------------------------------
\* One EOI command ends the only line that a chip has in service.
LEMMA EndedEndsOne ==
  ASSUME NEW line \in Int, NEW S \in SUBSET {line}
  PROVE  S \ Ended(S) = {}
<1>1. \A x \in S : \A other \in S : x <= other
  OBVIOUS
<1>. QED BY <1>1, Zenon DEF Ended

\* end_of_interrupt() ends a line of either chip, the slave's first excepted
\* (pic_8259.cpp:43-50).
LEMMA EndOfInterruptEnds ==
  ASSUME NEW line \in Lines, line # 8, isr \subseteq {line, MasterLine(line)}
  PROVE  end_of_interrupt(vector_of(line)) = {}
<1>1. line \in 0..15
  BY LinesAssumption, Zenon
<1>2. CASE line \in 0..7
  <2>1. Master(isr) \subseteq {line} /\ isr = Master(isr)
    BY <1>2, Zenon DEF Master, MasterLine
  <2>2. line \in Int /\ isr \in SUBSET {line}
    BY <1>2, <2>1
  <2>3. isr \ Ended(isr) = {}
    BY <2>2, EndedEndsOne, Zenon
  <2>. QED BY <2>1, <2>3, Zenon DEF end_of_interrupt
<1>3. CASE line \in 9..15
  <2>1. isr \subseteq {line, 2} /\ line \in Int /\ line \notin 0..7 /\ line \in 8..15
    BY <1>3 DEF MasterLine
  <2>2. /\ Master(isr) \in SUBSET {2}
        /\ Slave(isr) \in SUBSET {line}
        /\ isr = Master(isr) \cup Slave(isr)
    <3>1. 2 \in 0..7 /\ 2 \notin 8..15
      OBVIOUS
    <3>. QED BY <2>1, <3>1, Zenon DEF Master, Slave
  <2>3. /\ Master(isr) \ Ended(Master(isr)) = {}
        /\ Slave(isr) \ Ended(Slave(isr)) = {}
    <3>1. Master(isr) \ Ended(Master(isr)) = {}
      <4>1. 2 \in Int
        OBVIOUS
      <4>. QED BY <4>1, <2>2, EndedEndsOne, Zenon
    <3>2. Slave(isr) \ Ended(Slave(isr)) = {}
      BY <2>1, <2>2, EndedEndsOne, Zenon
    <3>. QED BY <3>1, <3>2, Zenon
  <2>4. vector_of(line) > 8 + 32
    BY <1>3 DEF vector_of
  <2>. QED BY <2>2, <2>3, <2>4, Zenon DEF end_of_interrupt
<1>. QED BY <1>1, <1>2, <1>3

\* A line is acknowledged only when nothing is in service, since handlers
\* run with interrupts off.
LEMMA ServiceInductive ==
  ASSUME 8 \notin Lines
  PROVE  SectionsInv /\ ServiceInv /\ [IrqNext]_irq_vars => ServiceInv'
<1>. SUFFICES ASSUME SectionsInv, ServiceInv, [IrqNext]_irq_vars PROVE ServiceInv'
  BY Zenon
<1>1. ASSUME NEW line \in Lines, Raise(line) PROVE ServiceInv'
  BY <1>1, Zenon DEF Raise, ServiceInv
<1>2. CASE \/ kernel_main_enables \/ lock \/ unlock \/ dispatch_interrupt
           \/ switch_to \/ switch_tasks_impl \/ SwitchEnables
  BY <1>2, Zenon DEF kernel_main_enables, lock, unlock, dispatch_interrupt, switch_to,
                     switch_tasks_impl, SwitchEnables, ServiceInv
<1>3. ASSUME NEW line \in Lines, Acknowledge(line) PROVE ServiceInv'
  <2>1. vector = NoVector /\ isr = {}
    BY <1>3, Zenon DEF Acknowledge, SectionsInv, ServiceInv
  <2>2. vector' # NoVector
    BY <1>3, LinesAssumption DEF Acknowledge, vector_of, NoVector
  <2>. QED BY <1>3, <2>1, <2>2, Zenon DEF Acknowledge, ServiceInv
<1>4. CASE HandleIrqReturns
  <2>1. PICK line \in Lines : /\ vector = vector_of(line)
                              /\ isr \subseteq {line, MasterLine(line)}
    BY <1>4, Zenon DEF HandleIrqReturns, ServiceInv
  <2>2. isr' = {}
    BY <1>4, <2>1, EndOfInterruptEnds, Zenon DEF HandleIrqReturns
  <2>. QED BY <1>4, <2>2, Zenon DEF HandleIrqReturns, ServiceInv
<1>5. CASE NonMaskable
  <2>1. isr' \subseteq isr
    BY <1>5, Zenon DEF NonMaskable, end_of_interrupt
  <2>. QED BY <1>5, <2>1, Zenon DEF NonMaskable, ServiceInv
<1>6. CASE UNCHANGED irq_vars
  BY <1>6, Zenon DEF irq_vars, ServiceInv
<1>. QED BY <1>1, <1>2, <1>3, <1>4, <1>5, <1>6, Zenon DEF IrqNext

\* Whatever lines devices use, handled or not, and whatever non-maskable
\* interrupts come between: if only line 8 is not used, handle_irq() leaves
\* no line in service (irq.cpp:93-109).
THEOREM InterruptsAlwaysEnded ==
  ASSUME 8 \notin Lines
  PROVE  IrqSpec => []EveryInterruptIsEnded
<1>1. IrqInit => SectionsInv /\ ServiceInv
  BY InitSections, Zenon DEF IrqInit, ServiceInv
<1>2. SectionsInv /\ ServiceInv /\ [IrqNext]_irq_vars => SectionsInv' /\ ServiceInv'
  BY SectionsInductive, ServiceInductive, Zenon
<1>3. ServiceInv => EveryInterruptIsEnded
  BY Zenon DEF ServiceInv, EveryInterruptIsEnded
<1>. QED BY <1>1, <1>2, <1>3, PTL DEF IrqSpec


-----------------------------------------------------------------------------
(* ms_to_ticks rounds up.                                                  *)

\* Division with remainder.
LEMMA DivMod ==
  ASSUME NEW n \in Nat, NEW m \in Nat \ {0}
  PROVE  /\ n \div m \in Nat
         /\ n % m \in Nat
         /\ n % m < m
         /\ n = m * (n \div m) + (n % m)
BY Z3

\* The quotient is the only one with a remainder below the divisor.
LEMMA QuotientIsUnique ==
  ASSUME NEW n \in Nat, NEW m \in Nat \ {0}, NEW q \in Nat, NEW r \in Nat,
         n = m * q + r, r < m
  PROVE  n \div m = q
BY DivMod, Z3

\* The partial products of ms_to_ticks make up the product.
LEMMA PartialProducts ==
  ASSUME NEW m \in Nat,
         NEW a \in Nat, NEW b \in Nat, NEW c \in Nat, NEW d \in Nat
  PROVE  (m * a + b) * (m * c + d)
           = m * (a * c * m + a * d + b * c) + b * d
BY Z3

\* Rounding up m * x + y takes x out of the quotient.
LEMMA RoundUpSplits ==
  ASSUME NEW m \in Nat \ {0}, NEW x \in Nat, NEW y \in Nat
  PROVE  (m * x + y + m - 1) \div m
           = x + (y \div m) + (IF y % m # 0 THEN 1 ELSE 0)
<1> DEFINE e == y \div m
           f == y % m
<1>1. e \in Nat /\ f \in Nat /\ f < m /\ y = m * e + f
  BY DivMod, Zenon
<1> HIDE DEF e, f
<1>2. m * x \in Nat /\ m * e \in Nat /\ m * (x + e) = m * x + m * e
  BY <1>1, Z3
<1>3. CASE f = 0
  <2>1. m * x + y + m - 1 = m * (x + e) + (m - 1)
    BY <1>1, <1>2, <1>3
  <2>2. (m * x + y + m - 1) \div m = x + e
    BY <1>1, <1>2, <2>1, QuotientIsUnique
  <2>3. QED
    BY <1>1, <1>3, <2>2 DEF e, f
<1>4. CASE f # 0
  <2>1. m * (x + e + 1) = m * x + m * e + m
    BY <1>1, Z3
  <2>2. m * x + y + m - 1 = m * (x + e + 1) + (f - 1)
    BY <1>1, <1>2, <2>1
  <2>3. f - 1 \in Nat /\ f - 1 < m
    BY <1>1, <1>4
  <2>4. (m * x + y + m - 1) \div m = x + e + 1
    BY <1>1, <1>2, <2>2, <2>3, QuotientIsUnique
  <2>5. QED
    BY <1>1, <1>4, <2>4, Zenon DEF e, f
<1>5. QED
  BY <1>3, <1>4, Zenon

\* ms_to_ticks "converts given number of milliseconds to timer ticks with
\* rounding to up" (time.hpp:25-26, time.cpp:42-53): what it returns is the
\* rounded-up quotient modulo the width of uint32_t, for all arguments.
THEOREM MsToTicksRoundsUp ==
  \A arg, hz \in Nat : ms_to_ticks(arg, hz) = RoundedUp(arg, hz) % UInt32
<1> SUFFICES ASSUME NEW arg \in Nat, NEW hz \in Nat
             PROVE  ms_to_ticks(arg, hz) = RoundedUp(arg, hz) % UInt32
  BY Zenon
<1> DEFINE m == MS_IN_SEC
           a == _high_part(arg)
           b == _low_part(arg)
           c == _high_part(hz)
           d == _low_part(hz)
           x == a * c * m + a * d + b * c
           carry == IF (b * d) % m # 0 THEN 1 ELSE 0
<1>1. m \in Nat \ {0}
  BY TimeAssumption, Zenon
<1>2. a \in Nat /\ b \in Nat /\ arg = m * a + b
  BY <1>1, DivMod, Zenon DEF _high_part, _low_part
<1>3. c \in Nat /\ d \in Nat /\ hz = m * c + d
  BY <1>1, DivMod, Zenon DEF _high_part, _low_part
<1>4. ms_to_ticks(arg, hz)
        = (a * c * m + a * d + b * c + ((b * d) \div m) + carry) % UInt32
  BY Zenon DEF ms_to_ticks
<1> HIDE DEF m, a, b, c, d
<1>5. x \in Nat /\ b * d \in Nat
  BY <1>1, <1>2, <1>3, Z3
<1>6. arg * hz = m * x + b * d
  BY <1>1, <1>2, <1>3, PartialProducts
<1>7. RoundedUp(arg, hz) = ((m * x + b * d) + m - 1) \div m
  BY <1>6, Zenon DEF RoundedUp, m
<1> HIDE DEF x
<1>8. RoundedUp(arg, hz) = x + ((b * d) \div m) + carry
  BY <1>1, <1>5, <1>7, RoundUpSplits, Zenon
<1>9. QED
  BY <1>4, <1>8, Zenon DEF x

-----------------------------------------------------------------------------
(* The counter and the sleepers.                                           *)

\* set_frequency() never makes the software divider negative.
LEMMA RestartIsNat == restart_ \in Nat
<1>1. full_div(HZ, PIT_FREQUENCY) \in Nat
  BY TimerAssumption, DivMod, Zenon DEF full_div
<1>2. full_div(HZ, PIT_FREQUENCY) \div LowDivider \in Nat
  BY <1>1, TimeAssumption, DivMod, Zenon
<1>. QED BY <1>2 DEF restart_, divider, set_frequency

\* One more than a remainder.
LEMMA ModSucc ==
  ASSUME NEW q \in Nat, NEW m \in Nat \ {0}
  PROVE  ((q % m) + 1) % m = (q + 1) % m
<1>. DEFINE a == q \div m
            r == q % m
<1>1. a \in Nat /\ r \in Nat /\ r < m /\ q = m * a + r
  BY DivMod, Zenon
<1>. HIDE DEF a, r
<1>2. CASE r + 1 < m
  <2>1. q + 1 = m * a + (r + 1) /\ r + 1 \in Nat
    BY <1>1
  <2>2. (q + 1) \div m = a
    BY <1>1, <1>2, <2>1, QuotientIsUnique
  <2>3. q + 1 = m * ((q + 1) \div m) + ((q + 1) % m)
    BY <1>1, DivMod
  <2>4. (q + 1) % m = r + 1
    BY <1>1, <2>1, <2>2, <2>3
  <2>5. r + 1 = m * 0 + (r + 1)
    BY <1>1
  <2>6. (r + 1) \div m = 0
    BY <1>1, <1>2, <2>5, QuotientIsUnique
  <2>7. (r + 1) % m = r + 1
    BY <1>1, <2>6, DivMod
  <2>. QED BY <2>4, <2>7, Zenon DEF r
<1>3. CASE r + 1 = m
  <2>1. q + 1 = m * (a + 1) + 0
    BY <1>1, <1>3, Z3
  <2>2. (q + 1) \div m = a + 1
    BY <1>1, <2>1, QuotientIsUnique
  <2>3. q + 1 = m * ((q + 1) \div m) + ((q + 1) % m)
    BY <1>1, DivMod
  <2>4. (q + 1) % m = 0
    BY <1>1, <2>1, <2>2, <2>3, DivMod, Z3
  <2>5. m = m * 1 + 0 /\ m \div m = 1
    BY QuotientIsUnique
  <2>6. m % m = 0
    BY <2>5, DivMod
  <2>. QED BY <1>3, <2>4, <2>6, Zenon DEF r
<1>. QED BY <1>1, <1>2, <1>3

\* Why JiffiesCountTicks holds: time is a number of whole software ticks and
\* the hardware ticks since the last one.
CountInv ==
  /\ time \in Nat
  /\ ticked \in Nat
  /\ counter_ \in Nat
  /\ ticked + counter_ = restart_
  /\ \E q \in Nat : /\ time = (restart_ + 1) * q + ticked
                    /\ jiffies = q % UInt32

\* pit::init() starts with a full counter.
LEMMA InitCount == TimerInit => CountInv
<1>. SUFFICES ASSUME TimerInit PROVE CountInv
  BY Zenon
<1>1. 0 % UInt32 = 0 /\ 0 = (restart_ + 1) * 0 + 0
  BY RestartIsNat, TimeAssumption
<1>. QED BY <1>1, RestartIsNat DEF TimerInit, CountInv

\* do_tick() (frequency_divider.hpp:72-81).
LEMMA CountInductive == CountInv /\ [TimerNext]_timer_vars => CountInv'
<1>. SUFFICES ASSUME CountInv, [TimerNext]_timer_vars PROVE CountInv'
  BY Zenon
<1>. USE RestartIsNat
<1>1. PICK q \in Nat : time = (restart_ + 1) * q + ticked /\ jiffies = q % UInt32
  BY Zenon DEF CountInv
<1>2. CASE pit_handle_irq /\ SoftwareTick
  <2>1. ticked = restart_ /\ ticked' = 0 /\ counter_' = restart_ /\ time' = time + 1
    BY <1>2 DEF pit_handle_irq, SoftwareTick, CountInv
  <2>2. time' = (restart_ + 1) * (q + 1) + ticked'
    BY <1>1, <2>1, Z3
  <2>3. jiffies' = (q + 1) % UInt32
    BY <1>1, <1>2, ModSucc, TimeAssumption, Zenon DEF SoftwareTick
  <2>. QED BY <2>1, <2>2, <2>3 DEF CountInv
<1>3. CASE pit_handle_irq /\ NoSoftwareTick
  <2>1. /\ ticked' = ticked + 1 /\ counter_' = counter_ - 1 /\ counter_ # 0
        /\ time' = time + 1 /\ jiffies' = jiffies
    BY <1>3, Zenon DEF pit_handle_irq, NoSoftwareTick
  <2>2. (restart_ + 1) * q \in Nat
    BY Z3
  <2>3. time' = (restart_ + 1) * q + ticked'
    BY <1>1, <2>1, <2>2 DEF CountInv
  <2>. QED BY <1>1, <2>1, <2>3 DEF CountInv
<1>4. CASE UNCHANGED <<time, ticked, counter_, jiffies>>
  BY <1>4, Zenon DEF CountInv
<1>. QED
  BY <1>2, <1>3, <1>4, Zenon DEF TimerNext, irq_enable, pit_handle_irq, sleep_ms,
                                SleepPanics, SleepEnds, Halted, timer_vars

\* jiffies counts the software ticks, modulo its width, and no hardware tick
\* is lost between them (frequency_divider.hpp:72-81, pit.cpp).
THEOREM JiffiesAlwaysCountTicks == TimerSpec => []JiffiesCountTicks
<1>. USE RestartIsNat
<1>1. CountInv => JiffiesCountTicks
  <2>. SUFFICES ASSUME CountInv PROVE JiffiesCountTicks
    BY Zenon
  <2>1. PICK q \in Nat : time = (restart_ + 1) * q + ticked /\ jiffies = q % UInt32
    BY Zenon DEF CountInv
  <2>2. ticked < restart_ + 1 /\ ticked + counter_ = restart_
    BY DEF CountInv
  <2>3. time \div (restart_ + 1) = q
    BY <2>1, <2>2, QuotientIsUnique DEF CountInv
  <2>. QED BY <2>1, <2>2, <2>3, Zenon DEF JiffiesCountTicks
<1>. QED BY <1>1, InitCount, CountInductive, PTL DEF TimerSpec

-----------------------------------------------------------------------------
\* ms_to_ticks() returns enough ticks when they fit into its result.
LEMMA EnoughTicks ==
  ASSUME NEW m \in Nat, RoundedUp(m, HZ) < UInt32
  PROVE  /\ ms_to_ticks(m, HZ) \in Nat
         /\ ms_to_ticks(m, HZ) * MS_IN_SEC >= m * HZ
<1>. DEFINE p == m * HZ
            n == RoundedUp(m, HZ)
<1>1. p \in Nat /\ MS_IN_SEC \in Nat \ {0} /\ UInt32 \in Nat \ {0}
  BY TimerAssumption, TimeAssumption, Z3
<1>2. n = (p + MS_IN_SEC - 1) \div MS_IN_SEC
  BY Zenon DEF RoundedUp
<1>. HIDE DEF p
<1>3. /\ n \in Nat
      /\ p + MS_IN_SEC - 1 < MS_IN_SEC * n + MS_IN_SEC
  <2>. DEFINE k == p + MS_IN_SEC - 1
  <2>1. k \in Nat
    BY <1>1
  <2>. HIDE DEF k
  <2>2. /\ k \div MS_IN_SEC \in Nat /\ k % MS_IN_SEC < MS_IN_SEC /\ k % MS_IN_SEC \in Nat
        /\ k = MS_IN_SEC * (k \div MS_IN_SEC) + (k % MS_IN_SEC)
    BY <1>1, <2>1, DivMod, Zenon
  <2>3. n = k \div MS_IN_SEC
    BY <1>2, Zenon DEF k
  <2>. HIDE DEF n
  <2>4. n \in Nat
    BY <2>2, <2>3, Zenon
  <2>5. k < MS_IN_SEC * n + MS_IN_SEC
    BY <1>1, <2>1, <2>2, <2>3, <2>4
  <2>. QED BY <2>4, <2>5, Zenon DEF k
<1>4. ms_to_ticks(m, HZ) = n
  <2>1. ms_to_ticks(m, HZ) = n % UInt32
    BY MsToTicksRoundsUp, TimerAssumption, Zenon
  <2>2. n % UInt32 = n
    <3>1. n = UInt32 * 0 + n
      BY <1>1, <1>3
    <3>2. n \div UInt32 = 0
      BY <1>1, <1>3, <3>1, QuotientIsUnique, Zenon
    <3>3. n = UInt32 * (n \div UInt32) + (n % UInt32) /\ n % UInt32 \in Nat
      BY <1>1, <1>3, DivMod, Zenon
    <3>. QED BY <1>1, <1>3, <3>2, <3>3
  <2>. QED BY <2>1, <2>2, Zenon
<1>. HIDE DEF n
<1>5. n * MS_IN_SEC \in Nat /\ n * MS_IN_SEC = MS_IN_SEC * n
  BY <1>1, <1>3, Z3
<1>6. n * MS_IN_SEC >= p
  BY <1>1, <1>3, <1>5
<1>. QED BY <1>3, <1>4, <1>6, Zenon DEF p

\* Why SleepsToWithinATick holds while jiffies does not wrap around: a sleep
\* ends the number of ticks that it asks for after the tick it began in.
SleepInv ==
  /\ time <= MaxTime
  /\ pc = "sleeping" =>
       /\ ms \in Sleeps
       /\ began \in Nat
       /\ \E tick \in Nat : /\ end_of_sleep = tick + ms_to_ticks(ms, HZ)
                            /\ began < (restart_ + 1) * (tick + 1)

\* A number below the width of the counter is kept as it is.
LEMMA SmallMod ==
  ASSUME NEW n \in Nat, NEW m \in Nat \ {0}, n < m
  PROVE  n % m = n
<1>1. n = m * 0 + n
  OBVIOUS
<1>2. n \div m = 0
  BY <1>1, QuotientIsUnique, Zenon
<1>3. n = m * (n \div m) + (n % m) /\ n % m \in Nat
  BY DivMod, Zenon
<1>. QED BY <1>2, <1>3

\* Below the wrap, jiffies places the time within one software tick.
LEMMA TickOfTime ==
  ASSUME MaxTime < UInt32, CountInv, time <= MaxTime
  PROVE  /\ time \in Nat /\ jiffies \in Nat /\ jiffies <= time
         /\ (restart_ + 1) * jiffies <= time
         /\ time < (restart_ + 1) * (jiffies + 1)
<1>. USE RestartIsNat, TimerAssumption, TimeAssumption
<1>1. PICK q \in Nat : time = (restart_ + 1) * q + ticked /\ jiffies = q % UInt32
  BY Zenon DEF CountInv
<1>2. time \in Nat /\ ticked \in Nat /\ ticked <= restart_
  BY DEF CountInv
<1>3. (restart_ + 1) * q \in Nat /\ (restart_ + 1) * q >= q
  BY Z3
<1>4. q <= time /\ q < UInt32
  BY <1>1, <1>2, <1>3
<1>5. jiffies = q
  BY <1>1, <1>4, SmallMod
<1>6. (restart_ + 1) * (q + 1) = (restart_ + 1) * q + restart_ + 1
  BY Z3
<1>. QED BY <1>1, <1>2, <1>3, <1>4, <1>5, <1>6

\* The interrupt handler and sleep_() (time.cpp:13-26).
LEMMA SleepInductive ==
  ASSUME MaxTime < UInt32, \A m \in Sleeps : RoundedUp(m, HZ) < UInt32
  PROVE  CountInv /\ SleepInv /\ [TimerNext]_timer_vars => SleepInv'
<1>. SUFFICES ASSUME CountInv, SleepInv, [TimerNext]_timer_vars PROVE SleepInv'
  BY Zenon
<1>. USE RestartIsNat, TimerAssumption, TimeAssumption
<1>1. /\ time \in Nat /\ jiffies \in Nat /\ jiffies <= time /\ time <= MaxTime
      /\ time < (restart_ + 1) * (jiffies + 1)
  <2>1. time <= MaxTime
    BY Zenon DEF SleepInv
  <2>. QED BY <2>1, TickOfTime, Zenon
<1>2. CASE pit_handle_irq
  <2>1. time' <= MaxTime
    BY <1>1, <1>2 DEF pit_handle_irq
  <2>. QED BY <1>2, <2>1, Zenon DEF pit_handle_irq, SleepInv
<1>3. ASSUME NEW m \in Sleeps, sleep_ms(m) PROVE SleepInv'
  <2>. DEFINE n == ms_to_ticks(m, HZ)
  <2>1. n \in Nat
    BY EnoughTicks, Zenon
  <2>2. time + n * (restart_ + 1) <= MaxTime
    BY <1>3, Zenon DEF sleep_ms
  <2>3. /\ end_of_sleep' = (jiffies + n) % UInt32
        /\ ms' = m /\ began' = time /\ time' = time
    BY <1>3, Zenon DEF sleep_ms
  <2>4. ms_to_ticks(ms', HZ) = n
    BY <2>3, Zenon
  <2>. HIDE DEF n
  <2>5. n * (restart_ + 1) \in Nat /\ n * (restart_ + 1) >= n
    BY <2>1, Z3
  <2>6. jiffies + n < UInt32 /\ jiffies + n \in Nat
    BY <1>1, <2>1, <2>2, <2>5
  <2>7. end_of_sleep' = jiffies + n
    BY <2>3, <2>6, SmallMod
  <2>8. \E tick \in Nat : /\ end_of_sleep' = tick + ms_to_ticks(ms', HZ)
                          /\ began' < (restart_ + 1) * (tick + 1)
    BY <1>1, <2>3, <2>4, <2>7, Zenon
  <2>. QED BY <1>1, <2>3, <2>8, Zenon DEF SleepInv
<1>4. CASE irq_enable \/ SleepPanics \/ SleepEnds \/ Halted \/ UNCHANGED timer_vars
  BY <1>4, Zenon DEF irq_enable, SleepPanics, SleepEnds, Halted, timer_vars, SleepInv
<1>. QED BY <1>2, <1>3, <1>4, Zenon DEF TimerNext

\* Until jiffies wraps around, every sleep_ms() whose number of ticks fits
\* into 32 bits lasts for its milliseconds, less at most what had passed of
\* the tick in which it began, whatever its argument, the frequency and the
\* dividers, and however late the task looks (time.cpp:13-26).
THEOREM SleepsLongEnough ==
  ASSUME MaxTime < UInt32, \A m \in Sleeps : RoundedUp(m, HZ) < UInt32
  PROVE  TimerSpec => SleepsToWithinATick
<1>. DEFINE Long == SleepEnds =>
              (time - began + restart_) * MS_IN_SEC >= ms * HZ * (restart_ + 1)
<1>1. TimerInit => CountInv /\ SleepInv
  BY InitCount, TimerAssumption DEF TimerInit, SleepInv
<1>2. CountInv /\ SleepInv /\ [TimerNext]_timer_vars => CountInv' /\ SleepInv'
  BY CountInductive, SleepInductive, Zenon
<1>3. CountInv /\ SleepInv /\ [TimerNext]_timer_vars => [Long]_timer_vars
  <2>. SUFFICES ASSUME CountInv, SleepInv, SleepEnds
                PROVE  (time - began + restart_) * MS_IN_SEC >= ms * HZ * (restart_ + 1)
    BY Zenon
  <2>. DEFINE n == ms_to_ticks(ms, HZ)
              hw == restart_ + 1
  <2>1. /\ ms \in Sleeps /\ ms \in Nat /\ began \in Nat /\ time <= MaxTime
        /\ jiffies \in Nat /\ time \in Nat /\ hw * jiffies <= time
    <3>1. time <= MaxTime /\ ms \in Sleeps /\ began \in Nat
      BY Zenon DEF SleepEnds, SleepInv
    <3>. QED BY <3>1, TickOfTime, TimerAssumption
  <2>2. n \in Nat /\ n * MS_IN_SEC >= ms * HZ
    BY <2>1, EnoughTicks, Zenon
  <2>3. PICK tick \in Nat : end_of_sleep = tick + n /\ began < hw * (tick + 1)
    BY Zenon DEF SleepEnds, SleepInv
  <2>4. ~(jiffies < end_of_sleep)
    BY Zenon DEF SleepEnds
  <2>5. /\ hw \in Nat /\ restart_ = hw - 1 /\ hw > 0
        /\ MS_IN_SEC \in Nat /\ HZ \in Nat
    BY RestartIsNat, TimeAssumption, TimerAssumption
  <2>. HIDE DEF n, hw
  <2>6. jiffies >= tick + n
    BY <2>1, <2>2, <2>3, <2>4
  <2>7. hw * jiffies >= hw * (tick + n)
    BY <2>1, <2>2, <2>5, <2>6, Z3
  <2>8. /\ hw * (tick + n) = hw * tick + hw * n
        /\ hw * (tick + 1) = hw * tick + hw
        /\ hw * tick \in Nat /\ hw * n \in Nat /\ hw * jiffies \in Nat
    BY <2>1, <2>2, <2>5, Z3
  <2>9. time - began + restart_ >= hw * n /\ time - began + restart_ \in Int
    BY <2>1, <2>3, <2>5, <2>7, <2>8
  <2>10. (time - began + restart_) * MS_IN_SEC >= (hw * n) * MS_IN_SEC
    BY <2>5, <2>8, <2>9, Z3
  <2>11. (hw * n) * MS_IN_SEC >= ms * HZ * hw
    <3>1. ms * HZ \in Nat /\ n * MS_IN_SEC \in Nat
      BY <2>1, <2>2, <2>5, Z3
    <3>2. (n * MS_IN_SEC) * hw >= (ms * HZ) * hw
      BY <2>2, <2>5, <3>1, Z3
    <3>3. (n * MS_IN_SEC) * hw = (hw * n) * MS_IN_SEC
      BY <2>2, <2>5, Z3
    <3>. QED BY <3>2, <3>3
  <2>12. /\ (time - began + restart_) * MS_IN_SEC \in Int
         /\ (hw * n) * MS_IN_SEC \in Int /\ ms * HZ * hw \in Int
    BY <2>1, <2>5, <2>8, <2>9, Z3
  <2>13. (time - began + restart_) * MS_IN_SEC >= ms * HZ * hw
    BY <2>10, <2>11, <2>12
  <2>. QED BY <2>13, Zenon DEF hw
<1>. QED BY <1>1, <1>2, <1>3, PTL DEF TimerSpec, SleepsToWithinATick

-----------------------------------------------------------------------------
(* The keyboard.  What the driver will do with the bytes of the queue is   *)
(* decided when they are sent.  A run lists the states of the driver after *)
(* each of them; the last one agrees with the keyboard (Agrees) unless a   *)
(* byte before it is one that the handler never returns from.  A step of   *)
(* the keyboard makes the run longer, a step of the driver only moves      *)
(* along it.                                                               *)

Symbols == Keys \X BOOLEAN

Codes == Keys \cup {release_byte}

\* The driver between two bytes: it has read release_byte (rel), it is in the
\* handler for ever (stuck), its pressed keys and what it has printed.
Driver == [rel : BOOLEAN, stuck : BOOLEAN, pressed : SUBSET Special,
           screen : Seq(Symbols)]

\* What the handler makes of the byte b, the run of the state machine as a
\* whole (ps2_keyboard_sm.cpp:88-166).
HandledByte(d, b) ==
  IF d.stuck THEN d
  ELSE IF b = release_byte
       THEN [rel |-> TRUE, stuck |-> FALSE, pressed |-> d.pressed, screen |-> d.screen]
  ELSE IF d.rel
       THEN [rel |-> FALSE, stuck |-> FALSE, pressed |-> d.pressed \ {b},
             screen |-> d.screen]
  ELSE IF b \in d.pressed
       THEN [rel |-> FALSE, stuck |-> TRUE, pressed |-> d.pressed, screen |-> d.screen]
  ELSE IF b \in Special
       THEN [rel |-> FALSE, stuck |-> FALSE, pressed |-> d.pressed \cup {b},
             screen |-> d.screen]
  ELSE IF b \in Printable
       THEN [rel |-> FALSE, stuck |-> FALSE, pressed |-> d.pressed,
             screen |-> Append(d.screen, Symbol(b, kb_key_lshift \in d.pressed))]
  ELSE d

Between == [rel |-> state_ = "one_byte_key_released", stuck |-> FALSE,
            pressed |-> pressed, screen |-> screen]

Printed == [rel |-> FALSE, stuck |-> FALSE, pressed |-> pressed \ Printable,
            screen |-> IF byte \in Printable
                       THEN Append(screen, Symbol(byte, kb_key_lshift \in pressed))
                       ELSE screen]

\* The driver after the byte that it is handling now.
Now ==
  IF byte = NoByte \/ state_ = "error" THEN Between
  ELSE IF state_ = "print" THEN Printed
  ELSE HandledByte(Between, byte)

\* s is a beginning of t.
Begins(s, t) == Len(s) <= Len(t) /\ \A i \in 1 .. Len(s) : s[i] = t[i]

\* The driver d has done all that the keyboard sent.
Agrees(d, keys, symbols) ==
  ~d.stuck => ~d.rel /\ d.pressed = keys \cap Special /\ d.screen = symbols

\* run[k] is the driver d after the first k codes.
Follows(run, codes, d) ==
  run[0] = d /\ \A k \in 1 .. Len(codes) : run[k] = HandledByte(run[k - 1], codes[k])

IsRun(run) ==
  /\ Follows(run, fifo, Now)
  /\ \A k \in 0 .. Len(fifo) : Begins(run[k].screen, typed)
  /\ Agrees(run[Len(fifo)], down, typed)

Types ==
  /\ down \in SUBSET Keys
  /\ fifo \in Seq(Codes)
  /\ byte \in Codes \cup {NoByte}
  /\ state_ \in {"wait", "one_byte_key_pressed", "one_byte_key_released", "print", "error"}
  /\ pressed \in SUBSET (Printable \cup Special)
  /\ screen \in Seq(Symbols)
  /\ typed \in Seq(Symbols)

\* The states of the machine: which bytes it enters them with, and that a
\* printable key is pressed only on the way to the screen.
Machine ==
  /\ byte = NoByte => state_ \in {"wait", "one_byte_key_released"}
  /\ state_ = "one_byte_key_pressed" => byte \in Printable \cup Special
  /\ state_ = "print" => byte \in pressed /\ pressed \subseteq Special \cup {byte}
  /\ state_ # "print" => pressed \subseteq Special

IInv ==
  /\ Types
  /\ Machine
  /\ Begins(screen, typed)
  /\ \E run \in [Nat -> Driver] : IsRun(run)

-----------------------------------------------------------------------------
(* Sequences and sets.                                                     *)

\* A prefix by its elements.
LEMMA BeginsIsPrefix ==
  ASSUME NEW s \in Seq(Symbols), NEW t \in Seq(Symbols), Begins(s, t)
  PROVE  \E n \in 0 .. Len(t) : s = SubSeq(t, 1, n)
<1>1. SubSeq(t, 1, Len(s)) \in Seq(Symbols) /\ Len(s) \in 0 .. Len(t)
  BY DEF Begins
<1>2. Len(SubSeq(t, 1, Len(s))) = Len(s)
  BY DEF Begins
<1>3. \A i \in 1 .. Len(s) : s[i] = SubSeq(t, 1, Len(s))[i]
  BY DEF Begins
<1>4. s = SubSeq(t, 1, Len(s))
  BY <1>1, <1>2, <1>3
<1>. QED BY <1>1, <1>4, Zenon

\* A sequence begins itself and what is appended to it.
LEMMA BeginsGrows ==
  ASSUME NEW s \in Seq(Symbols), NEW t \in Seq(Symbols), NEW x \in Symbols
  PROVE  /\ Begins(t, t)
         /\ Begins(s, t) => Begins(s, Append(t, x))
BY DEF Begins

\* InOrder of no key and of one key.
LEMMA InOrderOfOne ==
  /\ InOrder({}) = << >>
  /\ \A b : InOrder({b}) = <<b>>
<1>1. InOrder({}) = << >>
  <2>1. Cardinality({}) = 0
    BY FS_EmptySet, Zenon
  <2>2. << >> \in [1 .. 0 -> {}] /\ \A f \in [1 .. 0 -> {}] : f = << >>
    OBVIOUS
  <2>3. \A i, j \in DOMAIN << >> : i < j => << >>[i] < << >>[j]
    OBVIOUS
  <2>. QED BY <2>1, <2>2, <2>3, Zenon DEF InOrder
<1>2. ASSUME NEW b PROVE InOrder({b}) = <<b>>
  <2>1. Cardinality({b}) = 1
    BY FS_Singleton, Zenon
  <2>2. <<b>> \in [1 .. 1 -> {b}] /\ \A f \in [1 .. 1 -> {b}] : f = <<b>>
    OBVIOUS
  <2>3. \A i, j \in DOMAIN <<b>> : i < j => <<b>>[i] < <<b>>[j]
    OBVIOUS
  <2>. QED BY <2>1, <2>2, <2>3, Zenon DEF InOrder
<1>. QED BY <1>1, <1>2, Zenon

\* The symbol of a key, on whatever the state of the left shift is.
LEMMA SymbolType ==
  ASSUME NEW key \in Keys, NEW keys
  PROVE  Symbol(key, kb_key_lshift \in keys) \in Symbols
<1>1. (kb_key_lshift \in keys /\ key \in Shiftable) \in BOOLEAN
  BY Zenon
<1>. QED BY <1>1, Zenon DEF Symbol, Symbols

-----------------------------------------------------------------------------
(* Runs.                                                                   *)

\* Handling a byte leads from a driver state to a driver state.
LEMMA HandledType ==
  ASSUME NEW d \in Driver, NEW b \in Codes
  PROVE  HandledByte(d, b) \in Driver
<1>1. b \in Printable => Append(d.screen, Symbol(b, kb_key_lshift \in d.pressed)) \in Seq(Symbols)
  <2>. SUFFICES ASSUME b \in Printable
               PROVE  Append(d.screen, Symbol(b, kb_key_lshift \in d.pressed)) \in Seq(Symbols)
    BY Zenon
  <2>. DEFINE x == Symbol(b, kb_key_lshift \in d.pressed)
  <2>1. x \in Symbols
    BY SymbolType, Zenon DEF Keys
  <2>. HIDE DEF x
  <2>2. Append(d.screen, x) \in Seq(Symbols)
    BY <2>1 DEF Driver
  <2>. QED BY <2>2, Zenon DEF x
<1>. QED BY <1>1, Zenon DEF HandledByte, Driver

\* The driver state at present.
LEMMA NowType ==
  ASSUME Types, Machine
  PROVE  Now \in Driver
<1>. USE KeysAssumption DEF Types, Machine
<1>1. ASSUME state_ # "print" PROVE Between \in Driver
  BY <1>1, Zenon DEF Between, Driver
<1>2. ASSUME state_ = "print" PROVE Printed \in Driver
  <2>1. ASSUME byte \in Printable
        PROVE  Append(screen, Symbol(byte, kb_key_lshift \in pressed)) \in Seq(Symbols)
    <3>. DEFINE x == Symbol(byte, kb_key_lshift \in pressed)
    <3>1. x \in Symbols
      BY <2>1, SymbolType, Zenon DEF Keys
    <3>. HIDE DEF x
    <3>2. Append(screen, x) \in Seq(Symbols)
      BY <3>1
    <3>. QED BY <3>2, Zenon DEF x
  <2>. QED BY <1>2, <2>1, Zenon DEF Printed, Driver
<1>3. byte # NoByte => byte \in Codes
  BY Zenon
<1>. QED BY <1>1, <1>2, <1>3, HandledType, Zenon DEF Now

\* A run for one more byte.
Longer(run, n, b) == [k \in Nat |-> IF k <= n THEN run[k] ELSE HandledByte(run[n], b)]

\* The run of a sequence of bytes is that of its beginning and one step.
LEMMA FollowOneMore ==
  ASSUME NEW codes \in Seq(Codes), NEW b \in Codes, NEW d \in Driver,
         NEW run \in [Nat -> Driver], Follows(run, codes, d),
         NEW n \in Nat, n = Len(codes)
  PROVE  /\ Longer(run, n, b) \in [Nat -> Driver]
         /\ Follows(Longer(run, n, b), Append(codes, b), d)
         /\ \A k \in 0 .. n : Longer(run, n, b)[k] = run[k]
         /\ Longer(run, n, b)[n + 1] = HandledByte(run[n], b)
<1>. DEFINE e == HandledByte(run[n], b)
            longer == Longer(run, n, b)
<1>1. e \in Driver
  BY HandledType, Zenon
<1>2. longer \in [Nat -> Driver]
  BY <1>1, Zenon DEF Longer
<1>3. /\ \A k \in 0 .. n : longer[k] = run[k]
      /\ longer[n + 1] = e
  BY <1>1 DEF Longer
<1>. HIDE DEF longer
<1>4. Follows(longer, Append(codes, b), d)
  <2>1. longer[0] = d
    BY <1>1, <1>3 DEF Follows
  <2>2. ASSUME NEW k \in 1 .. Len(Append(codes, b))
        PROVE  longer[k] = HandledByte(longer[k - 1], Append(codes, b)[k])
    <3>1. CASE k \in 1 .. n
      BY <1>3, <3>1 DEF Follows
    <3>2. CASE k = n + 1
      BY <1>1, <1>3, <3>2
    <3>. QED BY <3>1, <3>2
  <2>. QED BY <2>1, <2>2, Zenon DEF Follows
<1>. QED BY <1>1, <1>2, <1>3, <1>4, Zenon DEF longer

\* A run for the bytes that are left when the first one is read.
LEMMA FollowTail ==
  ASSUME NEW codes \in Seq(Codes), codes # << >>, NEW d \in Driver,
         NEW run \in [Nat -> Driver], Follows(run, codes, d)
  PROVE  LET rest == [k \in Nat |-> run[k + 1]]
         IN  /\ rest \in [Nat -> Driver]
             /\ Follows(rest, Tail(codes), HandledByte(d, Head(codes)))
<1>. DEFINE rest == [k \in Nat |-> run[k + 1]]
<1>1. Len(codes) \in Nat \ {0} /\ Len(Tail(codes)) = Len(codes) - 1 /\ Head(codes) = codes[1]
  OBVIOUS
<1>2. rest \in [Nat -> Driver]
  OBVIOUS
<1>3. rest[0] = HandledByte(d, Head(codes))
  BY <1>1 DEF Follows
<1>4. ASSUME NEW k \in 1 .. Len(Tail(codes))
      PROVE  rest[k] = HandledByte(rest[k - 1], Tail(codes)[k])
  <2>1. k \in Nat /\ k - 1 \in Nat /\ k + 1 \in 1 .. Len(codes)
    BY <1>1
  <2>2. Tail(codes)[k] = codes[k + 1]
    BY <1>1, <2>1
  <2>3. run[k + 1] = HandledByte(run[(k + 1) - 1], codes[k + 1])
    BY <2>1, Zenon DEF Follows
  <2>4. rest[k] = run[k + 1] /\ rest[k - 1] = run[k]
    BY <2>1
  <2>. QED BY <2>1, <2>2, <2>3, <2>4
<1>. QED BY <1>2, <1>3, <1>4, Zenon DEF Follows

-----------------------------------------------------------------------------
(* The keyboard's steps.                                                   *)

\* The keyboard leaves the driver alone.
LEMMA DriverLeftAlone ==
  ASSUME UNCHANGED <<byte, state_, pressed, screen>>
  PROVE  Now' = Now /\ (Machine <=> Machine')
BY Zenon DEF Now, Between, Printed, Machine

\* A key is pressed or repeats (SendPress): its byte makes the run longer,
\* and the new last state prints the key with the shift that is held now.
LEMMA SendPressKeeps ==
  ASSUME IInv, NEW key \in Keys, SendPress(key),
         \/ key \notin down /\ down' = down \cup {key}
         \/ key \in down /\ down' = down
  PROVE  IInv'
<1>. USE KeysAssumption
<1>1. PICK run \in [Nat -> Driver] : IsRun(run)
  BY Zenon DEF IInv
<1>. DEFINE n == Len(fifo)
            d == run[n]
            e == HandledByte(d, key)
            x == Symbol(key, kb_key_lshift \in down)
<1>2. /\ n \in Nat /\ d \in Driver /\ key \in Codes /\ Now \in Driver /\ e \in Driver
      /\ fifo \in Seq(Codes) /\ typed \in Seq(Symbols)
  BY HandledType, NowType DEF IInv, Types, Codes
<1>3. x \in Symbols
  BY SymbolType, Zenon
<1>4. fifo' = Append(fifo, key) /\ UNCHANGED <<byte, state_, pressed, screen>>
  BY <1>2 DEF SendPress, Send
<1>5. Now' = Now /\ Machine'
  BY <1>4, DriverLeftAlone, Zenon DEF IInv
<1>6. typed' = IF key \in Printable THEN Append(typed, x) ELSE typed
  BY Zenon DEF SendPress
<1>. HIDE DEF x
<1>7. typed' \in Seq(Symbols)
  BY <1>2, <1>3, <1>6
<1>8. \A s \in Seq(Symbols) : Begins(s, typed) => Begins(s, typed')
  BY <1>2, <1>3, <1>6, BeginsGrows, Zenon
<1>9. PICK longer \in [Nat -> Driver] :
        /\ Follows(longer, fifo', Now')
        /\ \A k \in 0 .. n : longer[k] = run[k]
        /\ longer[n + 1] = e
  <2>. DEFINE longer == Longer(run, n, key)
  <2>1. Follows(run, fifo, Now)
    BY <1>1, Zenon DEF IsRun
  <2>2. /\ longer \in [Nat -> Driver]
        /\ Follows(longer, Append(fifo, key), Now)
        /\ \A k \in 0 .. n : longer[k] = run[k]
        /\ longer[n + 1] = e
    BY <1>2, <2>1, FollowOneMore
  <2>. HIDE DEF longer
  <2>. QED BY <1>4, <1>5, <2>2, Zenon
<1>10. Len(fifo') = n + 1
  BY <1>2, <1>4
<1>11. Agrees(d, down, typed) /\ Begins(d.screen, typed)
  BY <1>1, <1>2 DEF IsRun
<1>12. Agrees(e, down', typed') /\ Begins(e.screen, typed')
  <2>1. CASE d.stuck
    BY <1>2, <1>8, <1>11, <2>1, Zenon DEF HandledByte, Agrees, Driver
  <2>2. CASE ~d.stuck
    <3>1. ~d.rel /\ d.pressed = down \cap Special /\ d.screen = typed
      BY <1>11, <2>2, Zenon DEF Agrees
    <3>2. (kb_key_lshift \in d.pressed) = (kb_key_lshift \in down)
      BY <3>1
    <3>3. key # release_byte
      BY Zenon DEF Keys
    <3>4. Begins(typed', typed') /\ Begins(typed, typed')
      BY <1>2, <1>7, <1>8, BeginsGrows, <1>3, Zenon
    <3>5. CASE key \in Special
      <4>1. typed' = typed
        BY <1>6, <3>5, Zenon
      <4>2. CASE key \in down
        BY <2>2, <3>1, <3>3, <3>4, <3>5, <4>1, <4>2, Zenon DEF HandledByte, Agrees
      <4>3. CASE key \notin down
        <5>1. e = [rel |-> FALSE, stuck |-> FALSE, pressed |-> d.pressed \cup {key},
                   screen |-> d.screen]
          BY <2>2, <3>1, <3>3, <3>5, <4>3, Zenon DEF HandledByte
        <5>2. (down \cap Special) \cup {key} = down' \cap Special
          BY <3>5, <4>3, Zenon
        <5>. HIDE DEF e
        <5>. QED BY <3>1, <3>4, <4>1, <5>1, <5>2, Zenon DEF Agrees
      <4>. QED BY <4>2, <4>3, Zenon
    <3>6. CASE key \in Printable
      <4>1. key \notin Special /\ key \notin d.pressed /\ down' \cap Special = down \cap Special
        BY <3>1, <3>6, Zenon
      <4>2. typed' = Append(typed, x)
        BY <1>6, <3>6, Zenon
      <4>3. e = [rel |-> FALSE, stuck |-> FALSE, pressed |-> d.pressed,
                 screen |-> Append(d.screen, Symbol(key, kb_key_lshift \in d.pressed))]
        BY <2>2, <3>1, <3>3, <3>6, <4>1, Zenon DEF HandledByte
      <4>4. Symbol(key, kb_key_lshift \in d.pressed) = x
        BY <3>2, Zenon DEF x
      <4>5. e = [rel |-> FALSE, stuck |-> FALSE, pressed |-> d.pressed,
                 screen |-> Append(d.screen, x)]
        BY <4>3, <4>4, Zenon
      <4>. HIDE DEF e
      <4>. QED BY <3>1, <3>4, <4>1, <4>2, <4>5, Zenon DEF Agrees
    <3>7. CASE key \in Unmapped
      <4>1. /\ key \notin Special /\ key \notin Printable /\ key \notin d.pressed
            /\ down' \cap Special = down \cap Special
        BY <3>1, <3>7, Zenon
      <4>2. e = d /\ typed' = typed
        BY <1>6, <2>2, <3>1, <3>3, <4>1, Zenon DEF HandledByte
      <4>. QED BY <3>1, <3>4, <4>1, <4>2, Zenon DEF Agrees
    <3>. QED BY <3>5, <3>6, <3>7, Zenon DEF Keys
  <2>. QED BY <2>1, <2>2, Zenon
<1>13. \A k \in 0 .. Len(fifo') : Begins(longer[k].screen, typed')
  <2>1. ASSUME NEW k \in 0 .. n PROVE Begins(longer[k].screen, typed')
    <3>1. longer[k] = run[k] /\ run[k].screen \in Seq(Symbols) /\ Begins(run[k].screen, typed)
      BY <1>1, <1>2, <1>9 DEF IsRun, Driver
    <3>. QED BY <1>8, <3>1, Zenon
  <2>. QED BY <1>2, <1>9, <1>10, <1>12, <2>1
<1>14. IsRun(longer)'
  BY <1>9, <1>10, <1>12, <1>13, Zenon DEF IsRun
<1>15. Types'
  <2>1. fifo' \in Seq(Codes)
    BY <1>2, <1>4
  <2>2. down' \in SUBSET Keys
    BY Zenon DEF IInv, Types
  <2>. QED BY <1>4, <1>7, <2>1, <2>2, Zenon DEF IInv, Types
<1>16. Begins(screen, typed)'
  BY <1>4, <1>8, Zenon DEF IInv, Types
<1>. QED BY <1>5, <1>9, <1>14, <1>15, <1>16, Zenon DEF IInv

\* A key is released: two bytes, after which the driver holds it released,
\* too.
LEMMA ReleaseKeeps ==
  ASSUME IInv, NEW key \in Keys, Release(key)
  PROVE  IInv'
<1>. USE KeysAssumption
<1>1. PICK run \in [Nat -> Driver] : IsRun(run)
  BY Zenon DEF IInv
<1>. DEFINE n == Len(fifo)
            d == run[n]
            e == HandledByte(d, release_byte)
            f == HandledByte(e, key)
<1>2. /\ n \in Nat /\ d \in Driver /\ key \in Codes /\ release_byte \in Codes
      /\ Now \in Driver /\ fifo \in Seq(Codes) /\ typed \in Seq(Symbols)
  BY NowType DEF IInv, Types, Codes
<1>3. e \in Driver /\ f \in Driver
  BY <1>2, HandledType, Zenon
<1>4. /\ fifo' = Append(Append(fifo, release_byte), key)
      /\ UNCHANGED <<byte, state_, pressed, screen, typed>>
      /\ down' = down \ {key}
  BY <1>2 DEF Release, Send
<1>5. Now' = Now /\ Machine'
  BY <1>4, DriverLeftAlone, Zenon DEF IInv
<1>6. PICK codes : codes = Append(fifo, release_byte)
  BY Zenon
<1>7. codes \in Seq(Codes) /\ Len(codes) = n + 1 /\ n + 1 \in Nat
  BY <1>2, <1>6
<1>8. PICK longer \in [Nat -> Driver] :
        /\ Follows(longer, codes, Now)
        /\ \A k \in 0 .. n : longer[k] = run[k]
        /\ longer[n + 1] = e
  <2>. DEFINE longer == Longer(run, n, release_byte)
  <2>1. Follows(run, fifo, Now)
    BY <1>1, Zenon DEF IsRun
  <2>2. /\ longer \in [Nat -> Driver]
        /\ Follows(longer, Append(fifo, release_byte), Now)
        /\ \A k \in 0 .. n : longer[k] = run[k]
        /\ longer[n + 1] = e
    BY <1>2, <2>1, FollowOneMore
  <2>. HIDE DEF longer
  <2>. QED BY <1>6, <2>2, Zenon
<1>9. PICK longest \in [Nat -> Driver] :
        /\ Follows(longest, fifo', Now')
        /\ \A k \in 0 .. n + 1 : longest[k] = longer[k]
        /\ longest[n + 2] = f
  <2>1. PICK m \in Nat : m = n + 1
    BY <1>7, Zenon
  <2>. DEFINE longest == Longer(longer, m, key)
  <2>2. Follows(longer, codes, Now) /\ codes \in Seq(Codes) /\ m = Len(codes)
    BY <1>7, <1>8, <2>1, Zenon
  <2>3. key \in Codes /\ Now \in Driver
    BY <1>2, Zenon
  <2>4. /\ longest \in [Nat -> Driver]
        /\ Follows(longest, Append(codes, key), Now)
        /\ \A k \in 0 .. m : longest[k] = longer[k]
        /\ longest[m + 1] = HandledByte(longer[m], key)
    BY <2>2, <2>3, FollowOneMore
  <2>5. m + 1 = n + 2
    BY <1>2, <2>1
  <2>. HIDE DEF longest
  <2>. QED BY <1>4, <1>5, <1>6, <1>8, <2>1, <2>4, <2>5, Zenon
<1>10. Len(fifo') = n + 2
  BY <1>2, <1>4
<1>11. Agrees(d, down, typed) /\ Begins(d.screen, typed)
  BY <1>1, <1>2 DEF IsRun
<1>12. e.screen = d.screen /\ f.screen = d.screen /\ Agrees(f, down', typed)
  <2>1. CASE d.stuck
    BY <2>1, Zenon DEF HandledByte, Agrees
  <2>2. CASE ~d.stuck
    <3>1. e = [rel |-> TRUE, stuck |-> FALSE, pressed |-> d.pressed, screen |-> d.screen]
      BY <2>2, Zenon DEF HandledByte
    <3>2. key # release_byte
      BY Zenon DEF Keys
    <3>. HIDE DEF e
    <3>3. f = [rel |-> FALSE, stuck |-> FALSE, pressed |-> d.pressed \ {key},
               screen |-> d.screen]
      BY <3>1, <3>2, Zenon DEF HandledByte
    <3>4. d.pressed \ {key} = down' \cap Special /\ d.screen = typed
      BY <1>4, <1>11, <2>2, Zenon DEF Agrees
    <3>. HIDE DEF f
    <3>5. e.screen = d.screen
      BY <3>1, Zenon
    <3>6. f.screen = d.screen /\ f.pressed = d.pressed \ {key} /\ f.rel = FALSE
      BY <3>3, Zenon
    <3>. QED BY <3>4, <3>5, <3>6, Zenon DEF Agrees
  <2>. QED BY <2>1, <2>2, Zenon
<1>13. \A k \in 0 .. Len(fifo') : Begins(longest[k].screen, typed)
  <2>1. ASSUME NEW k \in 0 .. n PROVE Begins(longest[k].screen, typed)
    <3>1. longest[k] = run[k]
      BY <1>2, <1>8, <1>9
    <3>. QED BY <1>1, <3>1, Zenon DEF IsRun
  <2>2. longest[n + 1] = e /\ longest[n + 2] = f
    BY <1>2, <1>8, <1>9
  <2>. HIDE DEF d, e, f
  <2>3. \A k \in 0 .. Len(fifo') : k \in 0 .. n \/ k = n + 1 \/ k = n + 2
    <3>1. \A m \in Nat : \A k \in 0 .. m + 2 : k \in 0 .. m \/ k = m + 1 \/ k = m + 2
      OBVIOUS
    <3>. QED BY <1>2, <1>10, <3>1, Zenon
  <2>4. Begins(longest[n + 1].screen, typed) /\ Begins(longest[n + 2].screen, typed)
    BY <1>11, <1>12, <2>2, Zenon
  <2>. QED BY <2>1, <2>3, <2>4, Zenon
<1>14. IsRun(longest)'
  <2>1. Agrees(longest[Len(fifo')], down', typed')
    BY <1>4, <1>9, <1>10, <1>12, Zenon
  <2>. QED BY <1>4, <1>9, <1>13, <2>1, Zenon DEF IsRun
<1>15. Types'
  <2>1. fifo' \in Seq(Codes) /\ down' \in SUBSET Keys
    BY <1>2, <1>4, <1>6, <1>7 DEF IInv, Types
  <2>. QED BY <1>4, <2>1, Zenon DEF IInv, Types
<1>16. Begins(screen, typed)'
  BY <1>4, Zenon DEF IInv
<1>. QED BY <1>5, <1>9, <1>14, <1>15, <1>16, Zenon DEF IInv

-----------------------------------------------------------------------------
(* The driver's steps.                                                     *)

\* The interrupt handler reads a byte: the run begins one state later.
LEMMA ReadKeeps ==
  ASSUME IInv, handle_irq
  PROVE  IInv'
<1>. USE KeysAssumption
<1>1. PICK run \in [Nat -> Driver] : IsRun(run)
  BY Zenon DEF IInv
<1>. DEFINE rest == [k \in Nat |-> run[k + 1]]
<1>2. /\ fifo \in Seq(Codes) /\ fifo # << >> /\ Now \in Driver
      /\ Head(fifo) \in Codes /\ Tail(fifo) \in Seq(Codes)
      /\ Len(fifo) \in Nat \ {0} /\ Len(Tail(fifo)) = Len(fifo) - 1
  BY NowType DEF IInv, Types, handle_irq
<1>3. Now = Between /\ state_ \in {"wait", "one_byte_key_released"}
  BY Zenon DEF Now, handle_irq, IInv, Machine
<1>4. Head(fifo) # NoByte
  BY <1>2 DEF Codes, Keys, release_byte, NoByte
<1>5. Now' = HandledByte(Now, Head(fifo))
  <2>1. Between' = Between /\ byte' = Head(fifo) /\ state_' = state_
    BY Zenon DEF handle_irq, Between
  <2>2. Now' = HandledByte(Between', byte')
    BY <1>3, <1>4, <2>1, Zenon DEF Now
  <2>. QED BY <1>3, <2>1, <2>2, Zenon
<1>6. rest \in [Nat -> Driver] /\ Follows(rest, Tail(fifo), HandledByte(Now, Head(fifo)))
  BY <1>1, <1>2, FollowTail, Zenon DEF IsRun
<1>7. IsRun(rest)'
  <2>1. Follows(rest, fifo', Now')
    BY <1>5, <1>6, Zenon DEF handle_irq
  <2>2. \A k \in 0 .. Len(Tail(fifo)) : rest[k] = run[k + 1] /\ k + 1 \in 0 .. Len(fifo)
    BY <1>2
  <2>3. Len(Tail(fifo)) \in 0 .. Len(Tail(fifo)) /\ Len(Tail(fifo)) + 1 = Len(fifo)
    BY <1>2
  <2>. HIDE DEF rest
  <2>4. \A k \in 0 .. Len(Tail(fifo)) : Begins(rest[k].screen, typed)
    BY <1>1, <2>2, Zenon DEF IsRun
  <2>5. Agrees(rest[Len(Tail(fifo))], down, typed)
    BY <1>1, <2>2, <2>3, Zenon DEF IsRun
  <2>. QED BY <2>1, <2>4, <2>5, Zenon DEF IsRun, handle_irq
<1>8. Types'
  BY <1>2, Zenon DEF IInv, Types, handle_irq
<1>9. Machine'
  BY <1>2, <1>3, <1>4, Zenon DEF IInv, Machine, handle_irq
<1>10. Begins(screen, typed)'
  BY Zenon DEF IInv, handle_irq
<1>. QED BY <1>6, <1>7, <1>8, <1>9, <1>10, Zenon DEF IInv

\* A step of the state machine that neither changes where the handler will
\* end nor the keyboard keeps the run.
LEMMA SameRun ==
  ASSUME IInv, UNCHANGED hardware, Now' = Now, Types', Machine', Begins(screen', typed)
  PROVE  IInv'
<1>1. \A run : IsRun(run) => IsRun(run)'
  BY Zenon DEF IsRun, hardware
<1>. QED BY <1>1, Zenon DEF IInv, hardware

\* A byte is looked at for the first time (WaitState).
LEMMA WaitKeeps ==
  ASSUME IInv, WaitState
  PROVE  IInv'
<1>. USE KeysAssumption
<1>1. UNCHANGED hardware /\ UNCHANGED <<pressed, screen, byte>> /\ byte # NoByte /\ state_ = "wait"
  BY Zenon DEF WaitState, cont
<1>2. pressed \subseteq Special
  BY <1>1, Zenon DEF IInv, Machine
<1>3. Now = HandledByte(Between, byte) /\ Between.rel = FALSE /\ Between.stuck = FALSE
  BY <1>1, Zenon DEF Now, Between
<1>4. CASE byte = release_byte /\ state_' = "one_byte_key_released"
  <2>1. Now' = HandledByte(Between', byte)
    BY <1>1, <1>4, Zenon DEF Now
  <2>2. Now' = Now
    BY <1>1, <1>3, <1>4, <2>1, Zenon DEF HandledByte, Between
  <2>3. Types' /\ Machine'
    BY <1>1, <1>2, <1>4, Zenon DEF IInv, Types, Machine, hardware
  <2>. QED BY <1>1, <2>2, <2>3, SameRun, Zenon DEF IInv
<1>5. CASE Translated /\ state_' = "one_byte_key_pressed"
  <2>1. Between' = Between
    BY <1>1, <1>5, Zenon DEF Between
  <2>2. Now' = Now
    BY <1>1, <1>3, <1>5, <2>1, Zenon DEF Now
  <2>3. Types' /\ Machine'
    BY <1>1, <1>2, <1>5, Zenon DEF IInv, Types, Machine, hardware, Translated
  <2>. QED BY <1>1, <2>2, <2>3, SameRun, Zenon DEF IInv
<1>6. CASE byte # release_byte /\ ~Translated /\ state_' = "error"
  <2>1. Between' = Between
    BY <1>1, <1>6, Zenon DEF Between
  <2>2. Now' = Between
    BY <1>6, <2>1, Zenon DEF Now
  <2>3. byte \notin Special /\ byte \notin Printable /\ byte \notin pressed
    BY <1>2, <1>6, Zenon DEF Translated
  <2>4. Now' = Now
    BY <1>3, <1>6, <2>2, <2>3, Zenon DEF HandledByte, Between
  <2>5. Types' /\ Machine'
    BY <1>1, <1>2, <1>6, Zenon DEF IInv, Types, Machine, hardware
  <2>. QED BY <1>1, <2>4, <2>5, SameRun, Zenon DEF IInv
<1>. QED BY <1>4, <1>5, <1>6, Zenon DEF WaitState, cont

\* The byte of a key (OneByteKeyPressedState): a key that is pressed already
\* sends the machine back to where it came from, with the same byte.
LEMMA PressedKeeps ==
  ASSUME IInv, OneByteKeyPressedState
  PROVE  IInv'
<1>. USE KeysAssumption
<1>1. /\ UNCHANGED hardware /\ UNCHANGED <<screen, byte>>
      /\ byte # NoByte /\ byte \in Printable \cup Special /\ byte # release_byte
      /\ state_ = "one_byte_key_pressed"
  BY Zenon DEF OneByteKeyPressedState, cont, Translated, Keys
<1>2. pressed \subseteq Special
  BY <1>1, Zenon DEF IInv, Machine
<1>3. Now = HandledByte(Between, byte) /\ Between.rel = FALSE /\ Between.stuck = FALSE
  BY <1>1, Zenon DEF Now, Between
<1>4. CASE byte \notin pressed /\ pressed' = pressed \cup {byte} /\ state_' = "print"
  <2>1. Now' = Printed'
    BY <1>1, <1>4, Zenon DEF Now
  <2>2. pressed' \ Printable = IF byte \in Special THEN pressed \cup {byte} ELSE pressed
    BY <1>1, <1>2, <1>4, Zenon
  <2>3. byte \in Printable => (kb_key_lshift \in pressed') = (kb_key_lshift \in pressed)
    BY <1>4
  <2>4. CASE byte \in Special
    <3>1. Now = [rel |-> FALSE, stuck |-> FALSE, pressed |-> pressed \cup {byte},
                 screen |-> screen]
      BY <1>1, <1>3, <1>4, <2>4, Zenon DEF HandledByte, Between
    <3>2. Printed' = [rel |-> FALSE, stuck |-> FALSE, pressed |-> pressed \cup {byte},
                      screen |-> screen]
      BY <1>1, <2>2, <2>4, Zenon DEF Printed
    <3>3. Types' /\ Machine'
      BY <1>1, <1>2, <1>4, Zenon DEF IInv, Types, Machine, hardware
    <3>. QED BY <1>1, <2>1, <3>1, <3>2, <3>3, SameRun, Zenon DEF IInv
  <2>5. CASE byte \in Printable
    <3>1. Now = [rel |-> FALSE, stuck |-> FALSE, pressed |-> pressed,
                 screen |-> Append(screen, Symbol(byte, kb_key_lshift \in pressed))]
      BY <1>1, <1>3, <1>4, <2>5, Zenon DEF HandledByte, Between
    <3>2. Symbol(byte, kb_key_lshift \in pressed') = Symbol(byte, kb_key_lshift \in pressed)
      BY <2>3, <2>5, Zenon
    <3>3. Printed' = [rel |-> FALSE, stuck |-> FALSE, pressed |-> pressed,
                      screen |-> Append(screen, Symbol(byte, kb_key_lshift \in pressed))]
      BY <1>1, <2>2, <2>5, <3>2, Zenon DEF Printed
    <3>4. Types' /\ Machine'
      BY <1>1, <1>2, <1>4, Zenon DEF IInv, Types, Machine, hardware
    <3>. QED BY <1>1, <2>1, <3>1, <3>3, <3>4, SameRun, Zenon DEF IInv
  <2>. QED BY <1>1, <2>4, <2>5, Zenon
<1>5. CASE byte \in pressed /\ pressed' = pressed /\ state_' = "wait"
  <2>1. Between' = Between
    BY <1>1, <1>5, Zenon DEF Between
  <2>2. Now' = Now
    BY <1>1, <1>3, <1>5, <2>1, Zenon DEF Now
  <2>3. Types' /\ Machine'
    BY <1>1, <1>2, <1>5, Zenon DEF IInv, Types, Machine, hardware
  <2>. QED BY <1>1, <2>2, <2>3, SameRun, Zenon DEF IInv
<1>. QED BY <1>4, <1>5, Zenon DEF OneByteKeyPressedState, cont

\* The byte after release_byte, and release_byte itself, which the machine
\* handles in this state, too (OneByteKeyReleasedState).
LEMMA ReleasedKeeps ==
  ASSUME IInv, OneByteKeyReleasedState
  PROVE  IInv'
<1>. USE KeysAssumption
<1>1. UNCHANGED hardware /\ UNCHANGED screen /\ byte # NoByte /\ state_ = "one_byte_key_released"
  BY Zenon DEF OneByteKeyReleasedState
<1>2. pressed \subseteq Special
  BY <1>1, Zenon DEF IInv, Machine
<1>3. Now = HandledByte(Between, byte) /\ Between.rel = TRUE /\ Between.stuck = FALSE
  BY <1>1, Zenon DEF Now, Between
<1>4. CASE byte = release_byte /\ state_' = state_ /\ byte' = NoByte /\ pressed' = pressed
  <2>1. Now' = Between
    BY <1>1, <1>4, Zenon DEF Now, Between
  <2>2. Now' = Now
    BY <1>1, <1>3, <1>4, <2>1, Zenon DEF HandledByte, Between
  <2>3. Types' /\ Machine'
    BY <1>1, <1>2, <1>4, Zenon DEF IInv, Types, Machine, hardware
  <2>. QED BY <1>1, <2>2, <2>3, SameRun, Zenon DEF IInv
<1>5. CASE Translated /\ pressed' = pressed \ {byte} /\ state_' = "wait" /\ byte' = NoByte
  <2>1. Now' = [rel |-> FALSE, stuck |-> FALSE, pressed |-> pressed \ {byte},
                screen |-> screen]
    BY <1>1, <1>5, Zenon DEF Now, Between
  <2>2. byte # release_byte
    BY <1>5, Zenon DEF Translated, Keys
  <2>3. Now' = Now
    BY <1>3, <2>1, <2>2, Zenon DEF HandledByte, Between
  <2>4. Types' /\ Machine'
    BY <1>1, <1>2, <1>5, Zenon DEF IInv, Types, Machine, hardware
  <2>. QED BY <1>1, <2>3, <2>4, SameRun, Zenon DEF IInv
<1>6. CASE /\ byte # release_byte /\ ~Translated
           /\ state_' = "error" /\ byte' = byte /\ pressed' = pressed
  <2>1. Now' = [rel |-> FALSE, stuck |-> FALSE, pressed |-> pressed, screen |-> screen]
    BY <1>1, <1>6, Zenon DEF Now, Between
  <2>2. pressed \ {byte} = pressed
    BY <1>2, <1>6, Zenon DEF Translated
  <2>3. Now' = Now
    BY <1>3, <1>6, <2>1, <2>2, Zenon DEF HandledByte, Between
  <2>4. Types' /\ Machine'
    BY <1>1, <1>2, <1>6, Zenon DEF IInv, Types, Machine, hardware
  <2>. QED BY <1>1, <2>3, <2>4, SameRun, Zenon DEF IInv
<1>. QED BY <1>1, <1>4, <1>5, <1>6, Zenon DEF OneByteKeyReleasedState, cont, done

\* PrintState puts out the key of the byte and no other: every other pressed
\* key is special.
LEMMA PrintKeeps ==
  ASSUME IInv, PrintState
  PROVE  IInv'
<1>. USE KeysAssumption
<1>1. /\ UNCHANGED hardware /\ byte # NoByte /\ state_ = "print" /\ state_' = "wait"
      /\ byte' = NoByte /\ pressed' = pressed \ Printable
  BY Zenon DEF PrintState, done
<1>2. byte \in pressed /\ pressed \subseteq Special \cup {byte} /\ screen \in Seq(Symbols)
  BY <1>1, Zenon DEF IInv, Machine, Types
<1>. DEFINE keys == InOrder(pressed \cap Printable)
            symbols == [i \in DOMAIN keys |-> Symbol(keys[i], kb_key_lshift \in pressed)]
<1>3. screen' = screen \o symbols
  BY Zenon DEF PrintState
<1>4. screen' = Printed.screen
  <2>1. CASE byte \in Printable
    <3>1. pressed \cap Printable = {byte}
      BY <1>2, <2>1, Zenon
    <3>2. keys = <<byte>>
      BY <3>1, InOrderOfOne, Zenon
    <3>. DEFINE x == Symbol(byte, kb_key_lshift \in pressed)
    <3>3. symbols = <<x>>
      BY <3>2
    <3>4. x \in Symbols
      BY <2>1, SymbolType, Zenon DEF Keys
    <3>5. Printed.screen = Append(screen, x)
      BY <2>1, Zenon DEF Printed
    <3>. HIDE DEF x, symbols
    <3>6. screen \o <<x>> = Append(screen, x)
      BY <1>2, <3>4
    <3>. QED BY <1>3, <3>3, <3>5, <3>6, Zenon
  <2>2. CASE byte \notin Printable
    <3>1. pressed \cap Printable = {}
      BY <1>2, <2>2, Zenon
    <3>2. keys = << >>
      BY <3>1, InOrderOfOne, Zenon
    <3>3. symbols = << >>
      <4>1. DOMAIN keys = {}
        BY <3>2
      <4>2. symbols \in [{} -> Symbols]
        BY <4>1, Zenon
      <4>3. \A f \in [{} -> Symbols] : f = << >>
        OBVIOUS
      <4>. HIDE DEF symbols
      <4>. QED BY <4>2, <4>3, Zenon
    <3>4. Printed.screen = screen
      BY <2>2, Zenon DEF Printed
    <3>. HIDE DEF symbols
    <3>. QED BY <1>2, <1>3, <3>3, <3>4
  <2>. QED BY <2>1, <2>2, Zenon
<1>5. Now = Printed
  BY <1>1, Zenon DEF Now
<1>6. Now' = Printed
  <2>1. Now' = [rel |-> FALSE, stuck |-> FALSE, pressed |-> pressed', screen |-> screen']
    BY <1>1, Zenon DEF Now, Between
  <2>2. Printed = [rel |-> FALSE, stuck |-> FALSE, pressed |-> pressed \ Printable,
                   screen |-> Printed.screen]
    BY Zenon DEF Printed
  <2>. QED BY <1>1, <1>4, <2>1, <2>2, Zenon
<1>7. Begins(Printed.screen, typed) /\ Printed \in Driver
  <2>1. PICK run \in [Nat -> Driver] : IsRun(run)
    BY Zenon DEF IInv
  <2>2. Len(fifo) \in Nat /\ run[0] = Printed
    BY <1>5, <2>1 DEF IInv, Types, IsRun, Follows
  <2>3. 0 \in 0 .. Len(fifo)
    BY <2>2
  <2>. QED BY <2>1, <2>2, <2>3, Zenon DEF IsRun
<1>8. screen' \in Seq(Symbols)
  BY <1>4, <1>7, Zenon DEF Driver
<1>9. Types' /\ Machine'
  BY <1>1, <1>2, <1>8, Zenon DEF IInv, Types, Machine, hardware
<1>. QED BY <1>1, <1>4, <1>5, <1>6, <1>7, <1>9, SameRun, Zenon

\* ErrorState.
LEMMA ErrorKeeps ==
  ASSUME IInv, ErrorState
  PROVE  IInv'
<1>1. /\ UNCHANGED hardware /\ UNCHANGED <<pressed, screen>>
      /\ state_ = "error" /\ state_' = "wait" /\ byte' = NoByte
  BY Zenon DEF ErrorState, done
<1>2. Now' = Now
  BY <1>1, Zenon DEF Now, Between
<1>3. Types' /\ Machine'
  BY <1>1, Zenon DEF IInv, Types, Machine, hardware
<1>. QED BY <1>1, <1>2, <1>3, SameRun, Zenon DEF IInv

-----------------------------------------------------------------------------
(* The invariant and what follows from it.                                 *)

\* Nothing is pressed, sent or printed at first.
LEMMA InitialRun == Init => IInv
<1>. SUFFICES ASSUME Init PROVE IInv
  BY Zenon
<1>1. Types /\ Machine /\ Begins(screen, typed)
  BY KeysAssumption DEF Init, Types, Machine, Begins, NoByte
<1>2. PICK d : d = Now
  BY Zenon
<1>3. d \in Driver /\ d = [rel |-> FALSE, stuck |-> FALSE, pressed |-> {}, screen |-> << >>]
  BY <1>1, <1>2, NowType, Zenon DEF Init, Now, Between
<1>4. PICK run \in [Nat -> Driver] : \A k \in Nat : run[k] = d
  <2>1. [k \in Nat |-> d] \in [Nat -> Driver] /\ \A k \in Nat : [i \in Nat |-> d][k] = d
    BY <1>3, Zenon
  <2>. QED BY <2>1, Zenon
<1>5. IsRun(run)
  BY <1>2, <1>3, <1>4 DEF Init, IsRun, Follows, Begins, Agrees
<1>. QED BY <1>1, <1>5, Zenon DEF IInv

\* Every step keeps the run.
LEMMA NextKeepsRun == IInv /\ [Next]_vars => IInv'
<1>. SUFFICES ASSUME IInv, [Next]_vars PROVE IInv'
  BY Zenon
<1>1. ASSUME NEW key \in Keys, Press(key) PROVE IInv'
  BY <1>1, SendPressKeeps, Zenon DEF Press
<1>2. ASSUME NEW key \in Repeating, RepeatKey(key) PROVE IInv'
  <2>1. key \in Keys /\ SendPress(key) /\ key \in down /\ down' = down
    BY <1>2, KeysAssumption, Zenon DEF RepeatKey
  <2>. QED BY <2>1, SendPressKeeps, Zenon
<1>3. ASSUME NEW key \in Keys, Release(key) PROVE IInv'
  BY <1>3, ReleaseKeeps, Zenon
<1>4. CASE HandleByte
  BY <1>4, WaitKeeps, PressedKeeps, ReleasedKeeps, PrintKeeps, ErrorKeeps, Zenon DEF HandleByte
<1>5. CASE UNCHANGED vars
  <2>1. UNCHANGED hardware /\ Now' = Now /\ Types' /\ Machine' /\ Begins(screen', typed)
    BY <1>5, Zenon DEF vars, hardware, Now, Between, Printed, IInv, Types, Machine
  <2>. QED BY <2>1, SameRun, Zenon
<1>. QED BY <1>1, <1>2, <1>3, <1>4, <1>5, ReadKeeps, Zenon DEF Next

\* The run exists at all times.
LEMMA SpecKeepsRun == Spec => []IInv
BY InitialRun, NextKeepsRun, PTL DEF Spec

\* When every byte has been handled the run is the present state alone.
LEMMA QuietAgrees ==
  ASSUME IInv, Quiet
  PROVE  state_ = "wait" /\ pressed = down \cap Special /\ screen = typed
<1>1. PICK run \in [Nat -> Driver] : IsRun(run)
  BY Zenon DEF IInv
<1>2. Len(fifo) = 0 /\ byte = NoByte
  BY Zenon DEF Quiet
<1>3. Agrees(Now, down, typed)
  BY <1>1, <1>2, Zenon DEF IsRun, Follows
<1>4. Now = Between
  BY <1>2, Zenon DEF Now
<1>. QED BY <1>2, <1>3, <1>4, Zenon DEF Agrees, Between, IInv, Machine

\* The screen shows what was typed, in order, each key once and with the
\* shift held when it was typed, however late the interrupt handler reads the
\* bytes; nothing is missing when it has read them all, and whatever the keys
\* and the length of the queue are (ps2_keyboard_sm.cpp:88-166).
THEOREM AlwaysPrintsWhatWasTyped == Spec => []PrintsWhatWasTyped
<1>1. IInv => PrintsWhatWasTyped
  BY QuietAgrees, BeginsIsPrefix, Zenon DEF IInv, Types, PrintsWhatWasTyped
<1>. QED BY <1>1, SpecKeepsRun, PTL

\* Whenever every byte has been handled the machine waits for a new key and
\* the pressed keys of the driver are the special keys that are held down
\* (ps2_keyboard_sm.cpp:102-140).
THEOREM KeyStatusAlwaysFollows == Spec => []KeyStatusFollowsKeyboard
<1>1. IInv => KeyStatusFollowsKeyboard
  BY QuietAgrees, Zenon DEF KeyStatusFollowsKeyboard
<1>. QED BY <1>1, SpecKeepsRun, PTL
=============================================================================
