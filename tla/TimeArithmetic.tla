--------------------------- MODULE TimeArithmetic ---------------------------
(***************************************************************************)
(* The arithmetic of time: ms_to_ticks (src/kernel/libkernelcxx/src/       *)
(* time.cpp) and FrequencyDivider::set_frequency (src/kernel/devices/src/  *)
(* frequency_divider.cpp).  The constants of the code are parameters, so   *)
(* that TLC can check small values of them.                                *)
(***************************************************************************)
EXTENDS Integers

CONSTANTS
  MS_IN_SEC,       \* 1000
  UInt32,          \* the number of values of uint32_t, 2^32
  LowDivider       \* the hardware divider for low frequencies, 100

ASSUME TimeAssumption ==
  /\ MS_IN_SEC \in Nat \ {0}
  /\ UInt32 \in Nat \ {0}
  /\ LowDivider \in Nat \ {0}

_low_part(val) == val % MS_IN_SEC
_high_part(val) == val \div MS_IN_SEC

\* Mutant of ms_to_ticks: the last part is truncated.
ms_to_ticks_down(ms, hz) ==
  (_high_part(ms) * _high_part(hz) * MS_IN_SEC
    + _high_part(ms) * _low_part(hz)
    + _low_part(ms) * _high_part(hz)
    + ((_low_part(ms) * _low_part(hz)) \div MS_IN_SEC)) % UInt32

\* ms_to_ticks(ms) with HZ = hz; the sums wrap around as uint32_t does.
ms_to_ticks(ms, hz) ==
  LET trunkated_part == _low_part(ms) * _low_part(hz)
  IN  (_high_part(ms) * _high_part(hz) * MS_IN_SEC
        + _high_part(ms) * _low_part(hz)
        + _low_part(ms) * _high_part(hz)
        + trunkated_part \div MS_IN_SEC
        + (IF trunkated_part % MS_IN_SEC # 0 THEN 1 ELSE 0)) % UInt32

\* The quotient ms * hz / MS_IN_SEC rounded up, which ms_to_ticks computes
\* without forming the product.
RoundedUp(ms, hz) == ((ms * hz) + MS_IN_SEC - 1) \div MS_IN_SEC

\* The total divider for hz, at least 1.
full_div(hz, hw_pit_freq) ==
  IF hw_pit_freq \div hz = 0 THEN 1 ELSE hw_pit_freq \div hz

\* set_frequency(hz, hw_pit_freq, hw_max_divider): the hardware divider and
\* the software divider.
set_frequency(hz, hw_pit_freq, hw_max_divider) ==
  LET div == full_div(hz, hw_pit_freq)
  IN  IF div > hw_max_divider
      THEN [pit_ |-> LowDivider, restart_ |-> div \div LowDivider]
      ELSE [pit_ |-> div % 65536, restart_ |-> 0]
=============================================================================
