---------------------------- MODULE PS2Controller ----------------------------
(***************************************************************************)
(* Initialization of the PS/2 controller and probing of its two lines      *)
(* (src/kernel/devices/ps2/src/controller.cpp, line.cpp and probe() of     *)
(* ps2_keyboard.cpp), which kernel_main runs with interrupts enabled and   *)
(* before there is a scheduler.                                            *)
(*                                                                         *)
(* The controller chip and the devices are external.  The chip has an      *)
(* output buffer that the host reads in order, a configuration byte, and   *)
(* an input buffer; a device that has something to send waits while the    *)
(* clock of its line is off.  Most answers are there when the host looks   *)
(* for them; MaxFaults times one is late instead, in flight until Arrive,  *)
(* or the chip stays busy with what it was given, and bytes written to a   *)
(* busy chip are lost.  A person may press keys at any time.               *)
(***************************************************************************)
EXTENDS Integers, Sequences

CONSTANTS
  Kinds,          \* what may be attached to a line
  FirmwareConfs,  \* configuration bytes the firmware may leave
  LeftOvers,      \* bytes the firmware may leave in the output buffer
  ScanCode,       \* the byte that a pressed key sends
  SELFTEST_TIMEOUT, IdTimeout,   \* timeouts of receive(), in ms
  MaxFaults,      \* bound: late answers and busy chips
  MaxPresses      \* bound: keys pressed

Lines == {0, 1}       \* line_t

ASSUME PS2Assumption ==
  /\ Kinds \subseteq {"keyboard", "terminal", "mouse", "none"}
  /\ FirmwareConfs \subseteq 0..255
  /\ LeftOvers \subseteq Seq((0..255) \X Lines)
  /\ ScanCode \in 0..255
  /\ SELFTEST_TIMEOUT \in Nat /\ IdTimeout \in Nat
  /\ MaxFaults \in Nat
  /\ MaxPresses \in Nat

\* Conf::bits: is_set(), set() and unset() on the configuration byte.
int_bit == [line \in Lines |-> IF line = 0 THEN 1 ELSE 2]
clock_bit == [line \in Lines |-> IF line = 0 THEN 16 ELSE 32]
translation == 64

is_set(conf, bit) == (conf \div bit) % 2 = 1
set(conf, bit) == IF is_set(conf, bit) THEN conf ELSE conf + bit
unset(conf, bit) == IF is_set(conf, bit) THEN conf - bit ELSE conf

\* test_reply
self_test_ok == 85
self_test_fail == 252
port_test_ok == 0

ps2_keyboard_ack == 250
this_dev_id == <<171, 131>>

NoReply == -1              \* receive() returned false

\* What the devices answer to `identify`, behind the acknowledgement.
IdOf(kind) ==
  CASE kind = "keyboard" -> this_dev_id
    [] kind = "terminal" -> <<171, 65>>
    [] kind = "mouse"    -> <<0>>

VARIABLES
  device,     \* what is attached to each line
  hw,         \* chip and devices: a record, see HwInit
  pc,         \* the step of initialize_controller() or of a call from it
  ret,        \* where clean_buffer(), conf(), send() or receive() returns to
  line,       \* the line of for_each_line()
  conf,       \* the local copy of the configuration byte
  data,       \* the argument of IPS2Line::send()
  left,       \* wait_for_flag(): ms - wait
  reply,      \* what receive() read, or NoReply
  id_count,   \* probe(): identification bytes seen
  active,     \* lines with an entry in ps2_active_devices_
  presses,    \* history: keys pressed
  quiet       \* history: no wait ended before its answer came, no write was
              \* lost, and no key sent a byte while the host awaited answers

control == <<pc, ret, line, conf, data, left, reply, id_count, active>>
vars == <<device, hw, control, presses, quiet>>

-----------------------------------------------------------------------------
(* The chip and the devices.                                               *)

HwInit(out, cb, selftest) ==
  [conf |-> cb,                                \* configuration byte
   out |-> out,                                \* output buffer: <<byte, line>>
   late |-> [l \in Lines |-> <<>>],            \* answers in flight
   held |-> [l \in Lines |-> <<>>],            \* what devices hold back
   scanning |-> [l \in Lines |-> TRUE],        \* keyboards that send keys
   selftest |-> selftest,
   faults |-> 0,
   busy |-> FALSE,                             \* the input buffer is full
   redirect |-> FALSE]                         \* the next byte is for line 1

\* Answers that come on a line, in time or late; those of the chip itself
\* count for line 0.
Answer(h, l, bytes) ==
  LET answers == [i \in DOMAIN bytes |-> <<bytes[i], l>>]
      inTime == [h EXCEPT !.out = @ \o answers]
      late == [h EXCEPT !.late[l] = @ \o answers, !.faults = @ + 1]
  IN  IF h.late[l] # <<>> THEN {[h EXCEPT !.late[l] = @ \o answers]}
      ELSE {inTime} \cup {x \in {late} : x.faults <= MaxFaults}

\* What a command does to the chip.
disable_line(l) == {[hw EXCEPT !.conf = set(@, clock_bit[l])]}

enable_line(l) ==
  {[hw EXCEPT !.conf = unset(@, clock_bit[l]),
              !.out = @ \o hw.held[l],
              !.held[l] = <<>>]}

test_line == Answer(hw, 0, <<port_test_ok>>)
self_test == Answer(hw, 0, <<hw.selftest>>)
read_cb == Answer(hw, 0, <<hw.conf>>)
write_cb(cb) == {[hw EXCEPT !.conf = cb]}

\* A byte goes to a device: 0xf5 stops and 0xf4 starts scanning, 0xf2 asks
\* for the identification.
DeviceGets(byte) ==
  LET l == IF hw.redirect THEN 1 ELSE 0
      h == [hw EXCEPT !.redirect = FALSE]
  IN  IF device[l] = "none" THEN {h}
      ELSE CASE byte = "disable_scan" ->
                  Answer([h EXCEPT !.scanning[l] = FALSE], l, <<ps2_keyboard_ack>>)
             [] byte = "enable_scan" ->
                  Answer([h EXCEPT !.scanning[l] = TRUE], l, <<ps2_keyboard_ack>>)
             [] byte = "identify" ->
                  Answer(h, l, <<ps2_keyboard_ack>> \o IdOf(device[l]))

\* The chip takes a byte, and may be busy with it.
Accept(effects) ==
  /\ ~hw.busy
  /\ \E h \in effects :
       \/ hw' = h
       \/ /\ h.faults < MaxFaults
          /\ hw' = [h EXCEPT !.busy = TRUE, !.faults = @ + 1]
  /\ UNCHANGED quiet

\* send_command() and send_byte(): one of the effects, unless the chip is
\* busy.
Write(effects) ==
  \/ Accept(effects)
  \/ hw.busy /\ hw' = hw /\ quiet' = FALSE

Ready ==
  /\ hw.busy
  /\ hw' = [hw EXCEPT !.busy = FALSE]
  /\ UNCHANGED <<device, control, presses, quiet>>

Arrive(l) ==
  /\ hw.late[l] # <<>>
  /\ hw' = [hw EXCEPT !.out = Append(@, Head(hw.late[l])), !.late[l] = Tail(@)]
  /\ UNCHANGED <<device, control, presses, quiet>>

Press(l) ==
  /\ presses < MaxPresses
  /\ presses' = presses + 1
  /\ device[l] = "keyboard"
  /\ hw.scanning[l]
  /\ IF is_set(hw.conf, clock_bit[l])
     THEN /\ hw' = [hw EXCEPT !.held[l] = Append(@, <<ScanCode, l>>)]
          /\ UNCHANGED quiet
     ELSE /\ hw' = [hw EXCEPT !.out = Append(@, <<ScanCode, l>>)]
          /\ quiet' = (quiet /\ pc \in {"disable", "initialized"})
  /\ UNCHANGED <<device, control>>

-----------------------------------------------------------------------------
(* The operations of PS2Controller and IPS2Line.                           *)

Goto(label) == pc' = label

\* clean_buffer(), which returns to `back`.
CallClean(back) == pc' = "clean" /\ ret' = back

\* Mutant of clean_buffer: the buffer is looked at once.
clean_buffer_once ==
  /\ pc = "clean"
  /\ \/ hw.out # <<>> /\ hw' = [hw EXCEPT !.out = Tail(@)]
     \/ hw.out = <<>> /\ UNCHANGED hw
  /\ Goto(ret)
  /\ UNCHANGED <<device, ret, line, conf, data, left, reply, id_count, active,
                 presses, quiet>>

clean_buffer ==
  /\ pc = "clean"
  /\ \/ /\ hw.out # <<>>
        /\ hw' = [hw EXCEPT !.out = Tail(@)]
        /\ UNCHANGED pc
     \/ /\ hw.out = <<>>
        /\ Goto(ret)
        /\ UNCHANGED hw
  /\ UNCHANGED <<device, ret, line, conf, data, left, reply, id_count, active,
                 presses, quiet>>

\* conf(): the command, then the data port is read without waiting.
CallConf(back) == pc' = "read_cb" /\ ret' = back

conf_command ==
  /\ pc = "read_cb"
  /\ Write(read_cb)
  /\ Goto("read_conf")
  /\ UNCHANGED <<device, ret, line, conf, data, left, reply, id_count, active,
                 presses>>

\* With nothing in the output buffer the port gives any byte.
conf_receive ==
  /\ pc = "read_conf"
  /\ \/ /\ hw.out # <<>>
        /\ conf' = Head(hw.out)[1]
        /\ hw' = [hw EXCEPT !.out = Tail(@)]
        /\ UNCHANGED quiet
     \/ /\ hw.out = <<>>
        /\ \E cb \in FirmwareConfs \cup {ScanCode} : conf' = cb
        /\ quiet' = FALSE
        /\ UNCHANGED hw
  /\ Goto(ret)
  /\ UNCHANGED <<device, ret, line, data, left, reply, id_count, active, presses>>

\* receive(ms): wait_for_input(ms), then a read.
CallReceive(ms, back) == pc' = "receive" /\ left' = ms /\ ret' = back

receive_byte ==
  /\ pc = "receive"
  /\ hw.out # <<>>
  /\ reply' = Head(hw.out)[1]
  /\ hw' = [hw EXCEPT !.out = Tail(@)]
  /\ Goto(ret)
  /\ UNCHANGED <<device, ret, line, conf, data, left, id_count, active, presses,
                 quiet>>

\* Mutant of receive_times_out: the wait begins again.
receive_waits_again ==
  /\ pc = "receive"
  /\ hw.out = <<>>
  /\ left = 0
  /\ left' = 1
  /\ UNCHANGED <<device, hw, pc, ret, line, conf, data, reply, id_count, active,
                 presses, quiet>>

receive_times_out ==
  /\ pc = "receive"
  /\ hw.out = <<>>
  /\ left = 0
  /\ reply' = NoReply
  /\ quiet' = (quiet /\ \A l \in Lines : hw.late[l] = <<>>)
  /\ Goto(ret)
  /\ UNCHANGED <<device, hw, ret, line, conf, data, left, id_count, active, presses>>

\* wait_for_flag() sleeps while its flag is not there.  sleep_ms(1) returns
\* when a tick comes between its two reads of jiffies; otherwise it yields
\* to a scheduler that does not exist, and nothing is known of what follows.
wait_for_flag ==
  /\ \/ pc = "receive" /\ hw.out = <<>>
     \/ pc = "output" /\ hw.busy
  /\ left > 0
  /\ left' = left - 1
  /\ \/ UNCHANGED pc
     \/ Goto("undefined")
  /\ UNCHANGED <<device, hw, ret, line, conf, data, reply, id_count, active,
                 presses, quiet>>

\* IPS2Line::send(byte, ack): the second line is addressed by a command of
\* its own; the answer is left in reply.
CallSend(byte, back) == pc' = "send" /\ data' = byte /\ ret' = back

send ==
  /\ pc = "send"
  /\ IF line = 1 THEN Write({[hw EXCEPT !.redirect = TRUE]})
                 ELSE UNCHANGED <<hw, quiet>>
  /\ Goto("output")
  /\ left' = 1
  /\ UNCHANGED <<device, ret, line, conf, data, reply, id_count, active, presses>>

send_output ==
  /\ pc = "output"
  /\ Accept(DeviceGets(data))
  /\ CallReceive(1, ret)
  /\ UNCHANGED <<device, line, conf, data, reply, id_count, active, presses>>

send_times_out ==
  /\ pc = "output"
  /\ hw.busy
  /\ left = 0
  /\ reply' = NoReply
  /\ quiet' = FALSE
  /\ Goto(ret)
  /\ UNCHANGED <<device, hw, ret, line, conf, data, left, id_count, active, presses>>

-----------------------------------------------------------------------------
(* PS2DefaultKeyboard::probe() and probe_line().                           *)

\* The end of probe_line() for one line, and the step to the next.
Probed(found) ==
  /\ active' = IF found THEN active \cup {line} ELSE active \ {line}
  /\ IF line = 0 THEN line' = 1 /\ CallClean("disable_scan")
                 ELSE line' = 0 /\ CallConf("finish")

probe_begins ==
  /\ pc = "disable_scan"
  /\ CallSend("disable_scan", "disabled")
  /\ UNCHANGED <<device, hw, line, conf, left, reply, id_count, active, presses,
                 quiet>>

probe_disabled ==
  /\ pc = "disabled"
  /\ \/ /\ reply = ps2_keyboard_ack
        /\ CallSend("identify", "identified")
        /\ UNCHANGED <<line, active>>
     \/ /\ reply # ps2_keyboard_ack
        /\ Probed(FALSE)
        /\ UNCHANGED data
  /\ UNCHANGED <<device, hw, conf, left, reply, id_count, presses, quiet>>

probe_identified ==
  /\ pc = "identified"
  /\ \/ /\ reply = ps2_keyboard_ack
        /\ id_count' = 0
        /\ CallReceive(IdTimeout, "id")
        /\ UNCHANGED <<line, active>>
     \/ /\ reply # ps2_keyboard_ack
        /\ Probed(FALSE)
        /\ UNCHANGED <<left, id_count>>
  /\ UNCHANGED <<device, hw, conf, data, reply, presses, quiet>>

\* Mutant of IdMatches: the first byte is enough.
IdMatchesFirst == reply = this_dev_id[id_count + 1] \/ id_count = 1

IdMatches == reply = this_dev_id[id_count + 1]

probe_id ==
  /\ pc = "id"
  /\ \/ /\ IdMatches
        /\ id_count + 1 < Len(this_dev_id)
        /\ id_count' = id_count + 1
        /\ CallReceive(IdTimeout, "id")
        /\ UNCHANGED <<line, data, active>>
     \/ /\ IdMatches
        /\ id_count + 1 = Len(this_dev_id)
        /\ id_count' = id_count + 1
        /\ CallSend("enable_scan", "enabled")
        /\ UNCHANGED <<line, left, active>>
     \/ /\ ~IdMatches
        /\ Probed(FALSE)
        /\ UNCHANGED <<data, left, id_count>>
  /\ UNCHANGED <<device, hw, conf, reply, presses, quiet>>

\* Whether the keyboard acknowledged `enable_scan` is not looked at.
probe_ok ==
  /\ pc = "enabled"
  /\ Probed(TRUE)
  /\ UNCHANGED <<device, hw, conf, data, left, reply, id_count, presses, quiet>>

-----------------------------------------------------------------------------
(* initialize_controller().                                                *)

\* The firmware has left the controller in any state; the keyboard's driver
\* is the one driver that init_subsystems() registers.
Init ==
  /\ device \in [Lines -> Kinds]
  /\ \E cb \in FirmwareConfs, bytes \in LeftOvers,
        selftest \in {self_test_ok, self_test_fail} :
       hw = HwInit(bytes, cb, selftest)
  /\ pc = "disable"
  /\ ret = "none"
  /\ line = 0
  /\ conf = 0
  /\ data = "none"
  /\ left = 0
  /\ reply = NoReply
  /\ id_count = 0
  /\ active = {}
  /\ presses = 0
  /\ quiet = TRUE

\* A step of for_each_line(), and where the loop goes when it is done.
NextLine == line = 0 /\ line' = 1 /\ UNCHANGED <<pc, ret>>
LastLine == line = 1 /\ line' = 0

disable_lines ==
  /\ pc = "disable"
  /\ Write(disable_line(line))
  /\ \/ NextLine
     \/ LastLine /\ CallClean("first_conf")
  /\ UNCHANGED <<device, conf, data, left, reply, id_count, active, presses>>

first_conf ==
  /\ pc = "first_conf"
  /\ CallConf("mask")
  /\ UNCHANGED <<device, hw, line, conf, data, left, reply, id_count, active,
                 presses, quiet>>

\* Mutant of MaskedConf: the interrupt of the second line is not masked.
MaskedConfOfFirst == unset(unset(conf, int_bit[0]), translation)

\* Mutant of MaskedConf: translation is left on.
MaskedConfTranslated == unset(unset(conf, int_bit[0]), int_bit[1])

\* The configuration without interrupts and translation.
MaskedConf == unset(unset(unset(conf, int_bit[0]), int_bit[1]), translation)

mask_interrupts ==
  /\ pc = "mask"
  /\ conf' = MaskedConf
  /\ Write(write_cb(MaskedConf))
  /\ Goto("selftest")
  /\ UNCHANGED <<device, ret, line, data, left, reply, id_count, active, presses>>

do_selftest ==
  /\ pc = "selftest"
  /\ Write(self_test)
  /\ CallReceive(SELFTEST_TIMEOUT, "selftest_done")
  /\ UNCHANGED <<device, line, conf, data, reply, id_count, active, presses>>

selftest_done ==
  /\ pc = "selftest_done"
  /\ Goto(IF reply = self_test_ok THEN "enable_second" ELSE "panic")
  /\ UNCHANGED <<device, hw, ret, line, conf, data, left, reply, id_count, active,
                 presses, quiet>>

enable_second ==
  /\ pc = "enable_second"
  /\ Write(enable_line(1))
  /\ CallConf("disable_second")
  /\ UNCHANGED <<device, line, conf, data, left, reply, id_count, active, presses>>

disable_second ==
  /\ pc = "disable_second"
  /\ Write(disable_line(1))
  /\ Goto("test")
  /\ UNCHANGED <<device, ret, line, conf, data, left, reply, id_count, active,
                 presses>>

\* IPS2Line::test(), whose result is only logged.
test_lines ==
  /\ pc = "test"
  /\ Write(test_line)
  /\ CallReceive(SELFTEST_TIMEOUT, "tested")
  /\ UNCHANGED <<device, line, conf, data, reply, id_count, active, presses>>

tested ==
  /\ pc = "tested"
  /\ \/ line = 0 /\ line' = 1 /\ Goto("test")
     \/ LastLine /\ Goto("enable")
  /\ UNCHANGED <<device, hw, ret, conf, data, left, reply, id_count, active,
                 presses, quiet>>

\* The interrupt handler is added for both lines, and they are enabled.
enable_lines ==
  /\ pc = "enable"
  /\ Write(enable_line(line))
  /\ \/ NextLine
     \/ LastLine /\ CallClean("disable_scan")
  /\ UNCHANGED <<device, conf, data, left, reply, id_count, active, presses>>

\* A line without a device is switched off.
setup_line ==
  /\ pc = "finish"
  /\ \/ /\ line \in active
        /\ conf' = set(conf, int_bit[line])
        /\ UNCHANGED <<hw, quiet>>
     \/ /\ line \notin active
        /\ Write(disable_line(line))
        /\ UNCHANGED conf
  /\ \/ NextLine
     \/ LastLine /\ Goto("write_conf") /\ UNCHANGED ret
  /\ UNCHANGED <<device, data, left, reply, id_count, active, presses>>

write_conf ==
  /\ pc = "write_conf"
  /\ Write(write_cb(conf))
  /\ Goto("initialized")
  /\ UNCHANGED <<device, ret, line, conf, data, left, reply, id_count, active,
                 presses>>

-----------------------------------------------------------------------------
(* ps2_irq_handler().                                                      *)

Interrupt(l) ==
  /\ hw.out # <<>>
  /\ Head(hw.out)[2] = l
  /\ is_set(hw.conf, int_bit[l])

\* Mutant of ps2_irq_handler: the second line's vector is not recognized.
ps2_irq_handler_first(l) ==
  /\ Interrupt(l)
  /\ l \in active
  /\ hw' = IF l = 0 THEN [hw EXCEPT !.out = Tail(@)] ELSE hw
  /\ UNCHANGED <<device, control, presses, quiet>>

\* The active device's handler reads one byte.  Without one the handler
\* returns NONE and reads nothing.
ps2_irq_handler(l) ==
  /\ Interrupt(l)
  /\ l \in active
  /\ hw' = [hw EXCEPT !.out = Tail(@)]
  /\ UNCHANGED <<device, control, presses, quiet>>

-----------------------------------------------------------------------------

Initialize ==
  \/ disable_lines \/ first_conf \/ mask_interrupts
  \/ do_selftest \/ selftest_done
  \/ enable_second \/ disable_second \/ test_lines \/ tested \/ enable_lines
  \/ probe_begins \/ probe_disabled \/ probe_identified \/ probe_id \/ probe_ok
  \/ setup_line \/ write_conf
  \/ clean_buffer \/ conf_command \/ conf_receive
  \/ receive_byte \/ receive_times_out \/ wait_for_flag
  \/ send \/ send_output \/ send_times_out

Next ==
  \/ Initialize
  \/ \E l \in Lines : ps2_irq_handler(l)
  \/ Ready
  \/ \E l \in Lines : Arrive(l)
  \/ \E l \in Lines : Press(l)

Spec == Init /\ [][Next]_vars

\* The boot code runs, and the CPU takes the interrupts.
Fairness ==
  /\ WF_vars(Initialize)
  /\ \A l \in Lines : WF_vars(ps2_irq_handler(l))

FairSpec == Spec /\ Fairness

-----------------------------------------------------------------------------
(* Properties.                                                             *)

\* Keys were pressed where they do no harm only, or answers were late but
\* waited for; the two together defeat the code.
Undisturbed == quiet /\ (presses = 0 \/ hw.faults = 0)

Keyboards == {l \in Lines : device[l] = "keyboard"}

\* probe_devices() finds the keyboards, and takes no other device for one, if
\* answers come in time and no key disturbs it; whatever the firmware left
\* in the buffer and whichever keys are pressed before the probe does not
\* matter (controller.cpp:208-254).
ProbeFindsKeyboards ==
  pc = "initialized" /\ Undisturbed => active = Keyboards

\* initialize_controller() ends with the interrupts of exactly the lines with
\* a device, no translation, and the clocks of these lines and the scanning
\* of their keyboards on (controller.cpp:256-270).
ConfiguredAsProbed ==
  pc = "initialized" /\ Undisturbed =>
    /\ \A l \in Lines : is_set(hw.conf, int_bit[l]) <=> l \in active
    /\ ~is_set(hw.conf, translation)
    /\ \A l \in active : ~is_set(hw.conf, clock_bit[l]) /\ hw.scanning[l]

\* While lines are probed no interrupt handler reads the answers: interrupts
\* of a line are off from before its device becomes active until the end
\* (controller.cpp:175-180, 218-222).
AnswersAreNotStolen ==
  Undisturbed /\ pc # "initialized" =>
    \A l \in active : ~is_set(hw.conf, int_bit[l])

\* The panic of initialize_controller() tells the truth when nothing is late.
PanicMeansFailedSelfTest ==
  pc = "panic" /\ Undisturbed => hw.selftest # self_test_ok

\* Initialization ends, with slow and with absent devices, unless a sleep
\* derails it.
InitializationEnds == <>(pc \in {"initialized", "panic", "undefined"})

\* A byte that an active device sends later is read: nothing stays in the
\* output buffer and blocks the bytes behind it.
BytesAreHandled ==
  pc = "initialized" /\ Undisturbed /\ hw.out # <<>> ~> hw.out = <<>>

\* wait_for_flag() returns (controller.hpp:181-191).
WaitsReturn == pc \in {"receive", "output"} ~> pc \notin {"receive", "output", "undefined"}
=============================================================================
