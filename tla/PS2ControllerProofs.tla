------------------------- MODULE PS2ControllerProofs -------------------------
(***************************************************************************)
(* Initialization of the PS/2 controller, for any devices, configuration   *)
(* of the firmware, timeouts, number of late answers and of pressed keys:  *)
(* the inductive invariant, what the operations of the chip and the writes *)
(* of the driver do to the parts of it, and that every step keeps it.      *)
(***************************************************************************)
EXTENDS PS2Controller, SequenceTheorems, TLAPS

-----------------------------------------------------------------------------
(* The inductive invariant: what is true of the chip at every step of the  *)
(* initialization, as long as it is undisturbed.                           *)

Byte == 0..255
Sent == Seq(Byte \X Lines)

HwType ==
  [conf : Byte, out : Sent, late : [Lines -> Sent], held : [Lines -> Sent],
   scanning : [Lines -> BOOLEAN], selftest : {self_test_ok, self_test_fail},
   faults : Nat, busy : BOOLEAN, redirect : BOOLEAN]

TypeOK ==
  /\ device \in [Lines -> Kinds]
  /\ hw \in HwType
  /\ line \in Lines
  /\ conf \in Byte
  /\ presses \in Nat
  /\ quiet \in BOOLEAN

\* Nothing is in flight.
NoneLate(h) == \A l \in Lines : h.late[l] = <<>>

\* Nothing is to be read, now or later.
NoAnswers(h) == h.out = <<>> /\ NoneLate(h)

\* The bytes as they come from a line.
From(l, bytes) == [i \in DOMAIN bytes |-> <<bytes[i], l>>]

\* These bytes of a line, and no others, are to be read or in flight.
Expects(h, l, bytes) ==
  /\ h.late[1 - l] = <<>>
  /\ h.out \o h.late[l] = From(l, bytes)

\* The chip has no faults without fault, and no keys without keys.
HwInv(h, p) ==
  /\ h.faults = 0 => ~h.busy /\ NoneLate(h)
  /\ p = 0 => \A l \in Lines : h.held[l] = <<>>

ClocksOff(cb) == \A l \in Lines : is_set(cb, clock_bit[l])
ClocksOn(cb) == \A l \in Lines : ~is_set(cb, clock_bit[l])
Masked(cb) ==
  /\ \A l \in Lines : ~is_set(cb, int_bit[l])
  /\ ~is_set(cb, translation)

\* Before the lines are probed.
Untouched ==
  /\ active = {}
  /\ hw.scanning = [l \in Lines |-> TRUE]
  /\ hw.redirect = FALSE

\* While they are: the lines below the present one are done.
Probing ==
  /\ Masked(hw.conf)
  /\ ClocksOn(hw.conf)
  /\ active = {l \in Keyboards : l < line}
  /\ \A l \in active : hw.scanning[l]

\* The byte that send() sends, and what is known of the device by then.
Sending ==
  \/ data = "disable_scan" /\ ret = "disabled"
  \/ data = "identify" /\ ret = "identified" /\ device[line] # "none"
  \/ data = "enable_scan" /\ ret = "enabled" /\ device[line] = "keyboard"

\* What it answers.
AnswerOf(kind, byte) ==
  CASE kind = "none"      -> <<>>
    [] kind # "none" /\ byte = "identify" -> <<ps2_keyboard_ack>> \o IdOf(kind)
    [] OTHER              -> <<ps2_keyboard_ack>>

\* The bytes of its identification from the i-th on.
IdFrom(kind, i) == SubSeq(IdOf(kind), i, Len(IdOf(kind)))

\* probe() has read the acknowledgement and id_count bytes that match.
Identifying ==
  /\ device[line] # "none"
  /\ id_count \in {0, 1}
  /\ id_count = 1 => device[line] \in {"keyboard", "terminal"}

\* What write_conf is going to write, as far as setup_line has come.
Configured(cb, done) ==
  /\ \A l \in Lines : is_set(cb, int_bit[l]) <=> l \in active \cap done
  /\ ~is_set(cb, translation)
  /\ \A l \in active : ~is_set(cb, clock_bit[l])

Finishing ==
  /\ active = Keyboards
  /\ \A l \in active : hw.scanning[l]

\* A call of these operations is in progress, and returns to `back`.
In(label, back) == pc = label /\ ret = back

\* initialize_controller() up to the write of the masked configuration.
Disabling ==
  /\ pc = "disable" =>
       /\ Untouched
       /\ NoneLate(hw)
       /\ line = 1 => is_set(hw.conf, clock_bit[0])
  /\ In("clean", "first_conf") =>
       /\ Untouched /\ line = 0 /\ ClocksOff(hw.conf)
       /\ NoneLate(hw)
  /\ pc \in {"first_conf", "mask"} \/ In("read_cb", "mask") =>
       /\ Untouched /\ line = 0 /\ ClocksOff(hw.conf)
       /\ NoAnswers(hw)
  /\ In("read_conf", "mask") =>
       /\ Untouched /\ line = 0 /\ ClocksOff(hw.conf)
       /\ Expects(hw, 0, <<hw.conf>>)
  /\ pc = "mask" => conf = hw.conf

\* The self-test and the tests of the lines.  The second line gives out the
\* keys it held back as soon as it is enabled: from there to the probe they
\* may be read in place of answers.
Testing ==
  /\ pc \in {"selftest", "selftest_done", "enable_second"} =>
       /\ Untouched /\ line = 0 /\ Masked(hw.conf) /\ ClocksOff(hw.conf)
       /\ NoAnswers(hw)
  /\ In("receive", "selftest_done") =>
       /\ Untouched /\ line = 0 /\ Masked(hw.conf) /\ ClocksOff(hw.conf)
       /\ Expects(hw, 0, <<hw.selftest>>)
  /\ pc = "selftest_done" => reply = hw.selftest
  /\ pc \in {"disable_second", "test", "tested", "enable"} \/ In("read_cb", "disable_second") =>
       /\ Untouched /\ Masked(hw.conf)
       /\ presses = 0 => NoAnswers(hw)
  /\ pc = "disable_second" \/ In("read_cb", "disable_second") \/ In("read_conf", "disable_second") => line = 0
  /\ In("read_conf", "disable_second") =>
       /\ Untouched /\ Masked(hw.conf)
       /\ presses = 0 => Expects(hw, 0, <<hw.conf>>)
  /\ In("receive", "tested") =>
       /\ Untouched /\ Masked(hw.conf)
       /\ presses = 0 => Expects(hw, 0, <<port_test_ok>>)
  /\ pc = "enable" /\ line = 1 => ~is_set(hw.conf, clock_bit[0])

\* probe_devices().
ProbingLines ==
  /\ In("clean", "disable_scan") =>
       /\ Probing /\ hw.redirect = FALSE
       /\ presses = 0 => NoAnswers(hw)
  /\ pc = "disable_scan" => Probing /\ hw.redirect = FALSE /\ NoAnswers(hw)
  /\ pc = "send" => Probing /\ hw.redirect = FALSE /\ NoAnswers(hw) /\ Sending
  /\ pc = "output" => Probing /\ hw.redirect = (line = 1) /\ NoAnswers(hw) /\ Sending
  /\ pc = "receive" /\ ret \in {"disabled", "identified", "enabled"} =>
       /\ Probing /\ hw.redirect = FALSE /\ Sending
       /\ Expects(hw, line, AnswerOf(device[line], data))
  /\ In("receive", "enabled") \/ pc = "enabled" => hw.scanning[line]
  /\ pc = "disabled" =>
       /\ Probing /\ hw.redirect = FALSE /\ NoAnswers(hw)
       /\ reply = IF device[line] = "none" THEN NoReply ELSE ps2_keyboard_ack
  /\ pc = "identified" =>
       /\ Probing /\ hw.redirect = FALSE /\ device[line] # "none"
       /\ reply = ps2_keyboard_ack
       /\ Expects(hw, line, IdOf(device[line]))
  /\ In("receive", "id") =>
       /\ Probing /\ hw.redirect = FALSE /\ Identifying
       /\ Expects(hw, line, IdFrom(device[line], id_count + 1))
  /\ pc = "id" =>
       /\ Probing /\ hw.redirect = FALSE /\ Identifying
       /\ reply = IdOf(device[line])[id_count + 1]
       /\ Expects(hw, line, IdFrom(device[line], id_count + 2))
  /\ pc = "enabled" =>
       Probing /\ hw.redirect = FALSE /\ NoAnswers(hw) /\ device[line] = "keyboard"

\* The end of initialize_controller().
Ending ==
  /\ In("read_cb", "finish") =>
       /\ Finishing /\ line = 0 /\ Masked(hw.conf) /\ ClocksOn(hw.conf)
       /\ NoAnswers(hw)
  /\ In("read_conf", "finish") =>
       /\ Finishing /\ line = 0 /\ Masked(hw.conf) /\ ClocksOn(hw.conf)
       /\ Expects(hw, 0, <<hw.conf>>)
  /\ pc = "finish" =>
       /\ Finishing /\ Masked(hw.conf)
       /\ Configured(conf, {l \in Lines : l < line})
  /\ pc = "write_conf" =>
       /\ Finishing /\ Masked(hw.conf)
       /\ Configured(conf, Lines)
  /\ pc = "initialized" => Finishing /\ Configured(hw.conf, Lines)
  /\ pc = "panic" => hw.selftest # self_test_ok
  /\ pc # "initialized" => \A l \in active : ~is_set(hw.conf, int_bit[l])

\* Every call returns to a place that calls.
Calls ==
  /\ pc = "clean" => ret \in {"first_conf", "disable_scan"}
  /\ pc \in {"read_cb", "read_conf"} => ret \in {"mask", "disable_second", "finish"}
  /\ pc = "receive" =>
       ret \in {"selftest_done", "tested", "disabled", "identified", "id", "enabled"}
  /\ pc \in {"send", "output"} =>
       /\ ret \in {"disabled", "identified", "enabled"}
       /\ data \in {"disable_scan", "identify", "enable_scan"}

Stage == Disabling /\ Testing /\ ProbingLines /\ Ending

IInv ==
  /\ TypeOK
  /\ Calls
  /\ Undisturbed => HwInv(hw, presses) /\ Stage

-----------------------------------------------------------------------------
(* The bits of the configuration byte.                                     *)

\* The bits of the configuration byte that the code uses.
BitSet == {1, 2, 16, 32, 64}

\* Conf::set() sets its bit, and the byte stays one.
LEMMA SetSets ==
  ASSUME NEW c \in Byte, NEW b \in BitSet
  PROVE  set(c, b) \in Byte /\ is_set(set(c, b), b)
<1>1. CASE b = 1
  BY <1>1, Z3 DEF Byte, set, is_set
<1>2. CASE b = 2
  BY <1>2, Z3 DEF Byte, set, is_set
<1>3. CASE b = 16
  BY <1>3, Z3 DEF Byte, set, is_set
<1>4. CASE b = 32
  BY <1>4, Z3 DEF Byte, set, is_set
<1>5. CASE b = 64
  BY <1>5, Z3 DEF Byte, set, is_set
<1>. QED BY <1>1, <1>2, <1>3, <1>4, <1>5, Zenon DEF BitSet

\* It leaves the other bits alone.
LEMMA SetKeeps ==
  ASSUME NEW c \in Byte, NEW b \in BitSet, NEW d \in BitSet, b # d
  PROVE  is_set(set(c, b), d) <=> is_set(c, d)
<1>1. CASE b = 1
  BY <1>1, Z3 DEF Byte, set, is_set, BitSet
<1>2. CASE b = 2
  BY <1>2, Z3 DEF Byte, set, is_set, BitSet
<1>3. CASE b = 16
  BY <1>3, Z3 DEF Byte, set, is_set, BitSet
<1>4. CASE b = 32
  BY <1>4, Z3 DEF Byte, set, is_set, BitSet
<1>5. CASE b = 64
  BY <1>5, Z3 DEF Byte, set, is_set, BitSet
<1>. QED BY <1>1, <1>2, <1>3, <1>4, <1>5, Zenon DEF BitSet

\* Conf::unset() clears its bit, and the byte stays one.
LEMMA UnsetUnsets ==
  ASSUME NEW c \in Byte, NEW b \in BitSet
  PROVE  unset(c, b) \in Byte /\ ~is_set(unset(c, b), b)
<1>1. CASE b = 1
  BY <1>1, Z3 DEF Byte, unset, is_set
<1>2. CASE b = 2
  BY <1>2, Z3 DEF Byte, unset, is_set
<1>3. CASE b = 16
  BY <1>3, Z3 DEF Byte, unset, is_set
<1>4. CASE b = 32
  BY <1>4, Z3 DEF Byte, unset, is_set
<1>5. CASE b = 64
  BY <1>5, Z3 DEF Byte, unset, is_set
<1>. QED BY <1>1, <1>2, <1>3, <1>4, <1>5, Zenon DEF BitSet

\* It leaves the other bits alone.
LEMMA UnsetKeeps ==
  ASSUME NEW c \in Byte, NEW b \in BitSet, NEW d \in BitSet, b # d
  PROVE  is_set(unset(c, b), d) <=> is_set(c, d)
<1>1. CASE b = 1
  BY <1>1, Z3 DEF Byte, unset, is_set, BitSet
<1>2. CASE b = 2
  BY <1>2, Z3 DEF Byte, unset, is_set, BitSet
<1>3. CASE b = 16
  BY <1>3, Z3 DEF Byte, unset, is_set, BitSet
<1>4. CASE b = 32
  BY <1>4, Z3 DEF Byte, unset, is_set, BitSet
<1>5. CASE b = 64
  BY <1>5, Z3 DEF Byte, unset, is_set, BitSet
<1>. QED BY <1>1, <1>2, <1>3, <1>4, <1>5, Zenon DEF BitSet

-----------------------------------------------------------------------------
(* What happens to the chip.                                               *)

\* The parts of the chip that its answers do not change.
Keeps(g, h) ==
  /\ g.conf = h.conf
  /\ g.held = h.held
  /\ g.scanning = h.scanning
  /\ g.selftest = h.selftest
  /\ g.redirect = h.redirect

\* The chip has taken a byte with the effect h, and may be busy with it.
Settles(g, h) ==
  /\ g \in HwType
  /\ Keeps(g, h)
  /\ g.out = h.out
  /\ g.late = h.late
  /\ g.faults >= h.faults
  /\ g.faults = 0 => g.busy = h.busy

\* The effect is one of those of the command.
LEMMA AcceptSettles ==
  ASSUME NEW effects, effects \subseteq HwType, Accept(effects)
  PROVE  \E h \in effects : Settles(hw', h)
<1>1. PICK h \in effects :
        \/ hw' = h
        \/ hw' = [h EXCEPT !.busy = TRUE, !.faults = @ + 1]
  BY Zenon DEF Accept
<1>2. h \in HwType
  BY Zenon
<1>3. CASE hw' = h
  <2>1. h.faults \in Nat
    BY <1>2, Zenon DEF HwType
  <2>. QED BY <1>2, <1>3, <2>1 DEF Settles, Keeps
<1>4. CASE hw' = [h EXCEPT !.busy = TRUE, !.faults = @ + 1]
  <2>1. h.faults \in Nat /\ h.faults + 1 \in Nat
    BY <1>2 DEF HwType
  <2>2. hw' \in HwType
    BY <1>2, <1>4, <2>1, Zenon DEF HwType
  <2>3. hw'.faults = h.faults + 1 /\ hw'.out = h.out /\ hw'.late = h.late
    BY <1>2, <1>4, Zenon DEF HwType
  <2>4. Keeps(hw', h)
    BY <1>2, <1>4, Zenon DEF HwType, Keeps
  <2>. QED BY <2>1, <2>2, <2>3, <2>4 DEF Settles
<1>. QED BY <1>1, <1>3, <1>4, Zenon

\* Sequences and the first element of the first of two.
LEMMA ConcatHeadTail ==
  ASSUME NEW S, NEW s \in Seq(S), NEW t \in Seq(S), s # <<>>
  PROVE  /\ s \o t # <<>>
         /\ Head(s \o t) = Head(s)
         /\ Tail(s \o t) = Tail(s) \o t
OBVIOUS

\* A byte moved from the front of t to the end of s keeps the whole.
LEMMA AppendHeadTail ==
  ASSUME NEW S, NEW s \in Seq(S), NEW t \in Seq(S), t # <<>>
  PROVE  Append(s, Head(t)) \o Tail(t) = s \o t
OBVIOUS

\* Bytes of a line are sent in their order.
LEMMA FromTail ==
  ASSUME NEW l \in Lines, NEW bytes \in Seq(Byte)
  PROVE  /\ From(l, bytes) \in Sent
         /\ From(l, bytes) = <<>> <=> bytes = <<>>
         /\ bytes # <<>> => /\ Head(From(l, bytes)) = <<Head(bytes), l>>
                            /\ Tail(From(l, bytes)) = From(l, Tail(bytes))
<1>1. From(l, bytes) \in Sent /\ Len(From(l, bytes)) = Len(bytes)
  BY DEF From, Sent
<1>2. From(l, bytes) = <<>> <=> bytes = <<>>
  BY <1>1 DEF Sent
<1>3. ASSUME bytes # <<>>
      PROVE  Head(From(l, bytes)) = <<Head(bytes), l>>
  BY <1>3 DEF From
<1>4. ASSUME bytes # <<>>
      PROVE  Tail(From(l, bytes)) = From(l, Tail(bytes))
  BY <1>4 DEF From
<1>. QED BY <1>1, <1>2, <1>3, <1>4, Zenon

\* To expect no bytes is to expect nothing.
LEMMA ExpectsNothing ==
  ASSUME NEW h \in HwType, NEW l \in Lines
  PROVE  Expects(h, l, <<>>) <=> NoAnswers(h)
<1>1. h.out \in Sent /\ h.late[l] \in Sent
  BY Zenon DEF HwType
<1>2. h.out \o h.late[l] = <<>> <=> h.out = <<>> /\ h.late[l] = <<>>
  BY <1>1, ConcatEqualIffEmpty DEF Sent
<1>3. From(l, <<>>) = <<>>
  <2>1. <<>> \in Seq(Byte)
    OBVIOUS
  <2>. QED BY <2>1, FromTail, Zenon
<1>4. NoneLate(h) <=> h.late[l] = <<>> /\ h.late[1 - l] = <<>>
  BY DEF NoneLate, Lines
<1>. QED BY <1>2, <1>3, <1>4, Zenon DEF Expects, NoAnswers

\* The host reads a byte.
Taken(h) == [h EXCEPT !.out = Tail(@)]

\* Taking a byte changes nothing but the output buffer.
LEMMA TakenType ==
  ASSUME NEW h \in HwType, h.out # <<>>
  PROVE  /\ Taken(h) \in HwType
         /\ Keeps(Taken(h), h)
         /\ Taken(h).out = Tail(h.out)
         /\ Taken(h).late = h.late
         /\ Taken(h).faults = h.faults
         /\ Taken(h).busy = h.busy
<1>1. Tail(h.out) \in Sent
  BY HeadTailProperties, Zenon DEF HwType, Sent
<1>2. Taken(h) \in HwType
  BY <1>1, Zenon DEF HwType, Taken
<1>. QED BY <1>2, Zenon DEF HwType, Taken, Keeps

\* It is the next of the expected ones, and the others are still expected.
LEMMA ReadTakes ==
  ASSUME NEW h \in HwType, h.out # <<>>,
         NEW l \in Lines, NEW bytes \in Seq(Byte), Expects(h, l, bytes)
  PROVE  /\ bytes # <<>>
         /\ Head(h.out)[1] = Head(bytes)
         /\ Expects(Taken(h), l, Tail(bytes))
<1>1. h.out \in Sent /\ h.late[l] \in Sent
  BY Zenon DEF HwType
<1>2. h.out \o h.late[l] = From(l, bytes)
  BY Zenon DEF Expects
<1>3. /\ h.out \o h.late[l] # <<>>
      /\ Head(h.out \o h.late[l]) = Head(h.out)
      /\ Tail(h.out \o h.late[l]) = Tail(h.out) \o h.late[l]
  BY <1>1, ConcatHeadTail, Zenon DEF Sent
<1>4. bytes # <<>>
  BY <1>2, <1>3, FromTail, Zenon
<1>5. Head(h.out) = <<Head(bytes), l>>
  BY <1>2, <1>3, <1>4, FromTail, Zenon
<1>6. Tail(h.out) \o h.late[l] = From(l, Tail(bytes))
  BY <1>2, <1>3, <1>4, FromTail, Zenon
<1>7. Head(h.out)[1] = Head(bytes)
  BY <1>5
<1>8. h.late[1 - l] = <<>>
  BY Zenon DEF Expects
<1>9. Expects(Taken(h), l, Tail(bytes))
  BY <1>6, <1>8, TakenType, Zenon DEF Expects
<1>. QED BY <1>4, <1>7, <1>9, Zenon

\* An answer in flight arrives.
Arrived(h, l) ==
  [h EXCEPT !.out = Append(@, Head(h.late[l])), !.late[l] = Tail(@)]

\* A late byte that arrives moves to the output buffer.
LEMMA ArrivedType ==
  ASSUME NEW h \in HwType, NEW l \in Lines, h.late[l] # <<>>
  PROVE  /\ Arrived(h, l) \in HwType
         /\ Keeps(Arrived(h, l), h)
         /\ Arrived(h, l).out = Append(h.out, Head(h.late[l]))
         /\ Arrived(h, l).late = [h.late EXCEPT ![l] = Tail(@)]
         /\ Arrived(h, l).faults = h.faults
         /\ Arrived(h, l).busy = h.busy
<1>1. h.out \in Sent /\ h.late \in [Lines -> Sent]
  BY Zenon DEF HwType
<1>2. Append(h.out, Head(h.late[l])) \in Sent /\ Tail(h.late[l]) \in Sent
  BY <1>1, HeadTailProperties, AppendProperties, Zenon DEF Sent
<1>3. [h.late EXCEPT ![l] = Tail(@)] \in [Lines -> Sent]
  BY <1>1, <1>2, Zenon
<1>4. Arrived(h, l) =
        [h EXCEPT !.out = Append(h.out, Head(h.late[l])),
                  !.late = [h.late EXCEPT ![l] = Tail(@)]]
  BY Zenon DEF Arrived, HwType
<1>. QED BY <1>2, <1>3, <1>4, Zenon DEF HwType, Keeps

\* A byte that arrives does not change what is expected.
LEMMA ArrivedExpected ==
  ASSUME NEW h \in HwType, NEW l \in Lines, h.late[l] # <<>>,
         NEW m \in Lines, NEW bytes, Expects(h, m, bytes)
  PROVE  Expects(Arrived(h, l), m, bytes)
<1>1. h.out \in Sent /\ h.late \in [Lines -> Sent]
  BY Zenon DEF HwType
<1>2. m = l /\ 1 - l \in Lines /\ 1 - l # l
  BY DEF Expects, Lines
<1>3. Append(h.out, Head(h.late[l])) \o Tail(h.late[l]) = h.out \o h.late[l]
  BY <1>1, AppendHeadTail, Zenon DEF Sent
<1>. QED BY <1>1, <1>2, <1>3, ArrivedType, Zenon DEF Expects

\* The chip or a device answers.
LEMMA AnswerType ==
  ASSUME NEW h \in HwType, NEW l \in Lines, NEW bytes \in Seq(Byte),
         NEW g \in Answer(h, l, bytes)
  PROVE  /\ g \in HwType
         /\ Keeps(g, h)
         /\ g.busy = h.busy
         /\ g.faults >= h.faults
         /\ g.faults = 0 /\ NoneLate(h) => NoneLate(g)
<1>. DEFINE answers == From(l, bytes)
            inTime == [h EXCEPT !.out = @ \o answers]
            later == [h.late EXCEPT ![l] = @ \o answers]
            late == [h EXCEPT !.late = later, !.faults = @ + 1]
            behind == [h EXCEPT !.late = later]
<1>1. /\ h.out \in Sent /\ h.late \in [Lines -> Sent]
      /\ h.faults \in Nat /\ h.faults + 1 \in Nat
  BY DEF HwType
<1>2. answers \in Sent
  BY FromTail, Zenon
<1>3. h.out \o answers \in Sent /\ h.late[l] \o answers \in Sent
  BY <1>1, <1>2, ConcatProperties, Zenon DEF Sent
<1>4. later \in [Lines -> Sent]
  BY <1>1, <1>3, Zenon
<1>5. \/ g = inTime
      \/ g = late
      \/ g = behind /\ ~NoneLate(h)
  BY Zenon DEF Answer, From, NoneLate, HwType
<1>. HIDE DEF answers, later
<1>6. CASE g = inTime
  <2>1. g \in HwType
    BY <1>3, <1>6, Zenon DEF HwType
  <2>2. Keeps(g, h)
    BY <1>6, Zenon DEF HwType, Keeps
  <2>3. g.late = h.late /\ g.faults = h.faults /\ g.busy = h.busy
    BY <1>6, Zenon DEF HwType
  <2>. QED BY <1>1, <2>1, <2>2, <2>3 DEF NoneLate
<1>7. CASE g = late
  <2>1. g \in HwType
    BY <1>1, <1>4, <1>7, Zenon DEF HwType
  <2>2. Keeps(g, h)
    BY <1>7, Zenon DEF HwType, Keeps
  <2>3. g.faults = h.faults + 1 /\ g.busy = h.busy
    BY <1>7, Zenon DEF HwType
  <2>. QED BY <1>1, <2>1, <2>2, <2>3
<1>8. CASE g = behind /\ ~NoneLate(h)
  BY <1>1, <1>4, <1>8 DEF HwType, Keeps
<1>. QED BY <1>5, <1>6, <1>7, <1>8, Zenon

\* When nothing else is expected, its answer is.
LEMMA AnswerExpected ==
  ASSUME NEW h \in HwType, NEW l \in Lines, NEW bytes \in Seq(Byte),
         NEW g \in Answer(h, l, bytes), NoAnswers(h)
  PROVE  Expects(g, l, bytes)
<1>. DEFINE answers == From(l, bytes)
            inTime == [h EXCEPT !.out = @ \o answers]
            later == [h.late EXCEPT ![l] = @ \o answers]
            late == [h EXCEPT !.late = later, !.faults = @ + 1]
<1>1. h.out = <<>> /\ h.late \in [Lines -> Sent] /\ h.late[l] = <<>> /\ h.late[1 - l] = <<>>
  BY DEF HwType, NoAnswers, NoneLate, Lines
<1>2. answers \in Sent /\ 1 - l \in Lines /\ 1 - l # l
  BY FromTail DEF Lines
<1>3. g = inTime \/ g = late
  BY <1>1, Zenon DEF Answer, From, HwType
<1>4. answers \o <<>> = answers /\ <<>> \o answers = answers
  BY <1>2, ConcatEmptySeq, Zenon DEF Sent
<1>. HIDE DEF answers
<1>5. CASE g = inTime
  <2>1. g.out = answers /\ g.late = h.late
    BY <1>1, <1>4, <1>5, Zenon DEF HwType
  <2>. QED BY <1>1, <1>4, <2>1, Zenon DEF Expects, answers
<1>6. CASE g = late
  <2>1. g.out = <<>> /\ g.late = later
    BY <1>1, <1>6, Zenon DEF HwType
  <2>2. later[l] = answers /\ later[1 - l] = <<>>
    BY <1>1, <1>2, <1>4, Zenon
  <2>. QED BY <1>4, <2>1, <2>2, Zenon DEF Expects, answers
<1>. QED BY <1>3, <1>5, <1>6, Zenon

-----------------------------------------------------------------------------
(* Types and calls, and what only grows.                                   *)

\* Disturbances are not undone.
Grows ==
  /\ hw'.faults >= hw.faults
  /\ presses' >= presses
  /\ quiet' => quiet

\* What is undisturbed now was undisturbed before.
LEMMA GrowsUndisturbed ==
  ASSUME TypeOK, TypeOK', Grows, Undisturbed'
  PROVE  Undisturbed
<1>1. hw.faults \in Nat /\ hw'.faults \in Nat
  BY Zenon DEF TypeOK, HwType
<1>. QED BY <1>1 DEF TypeOK, Grows, Undisturbed

\* The bits of the configuration byte are different ones (Conf::bits).
LEMMA BitsAreBits ==
  /\ \A l \in Lines : int_bit[l] \in BitSet /\ clock_bit[l] \in BitSet
  /\ \A l, m \in Lines : int_bit[l] # clock_bit[m]
  /\ \A l, m \in Lines : l # m => int_bit[l] # int_bit[m] /\ clock_bit[l] # clock_bit[m]
  /\ translation \in BitSet
  /\ \A l \in Lines : int_bit[l] # translation /\ clock_bit[l] # translation
BY DEF int_bit, clock_bit, translation, BitSet, Lines

\* A write leaves the chip in a state that the command leads to.
LEMMA WriteType ==
  ASSUME TypeOK, NEW effects, effects \subseteq HwType, Write(effects),
         \A h \in effects : h.faults >= hw.faults
  PROVE  /\ hw' \in HwType
         /\ hw'.faults >= hw.faults
         /\ quiet' \in BOOLEAN /\ (quiet' => quiet)
<1>1. CASE Accept(effects)
  <2>1. PICK h \in effects : Settles(hw', h)
    BY <1>1, AcceptSettles, Zenon
  <2>2. hw.faults \in Nat /\ h.faults \in Nat /\ hw'.faults \in Nat
    BY <2>1, Zenon DEF TypeOK, Settles, HwType
  <2>3. hw'.faults >= hw.faults
    BY <2>1, <2>2 DEF Settles
  <2>4. hw' \in HwType
    BY <2>1, Zenon DEF Settles
  <2>5. quiet' \in BOOLEAN /\ (quiet' => quiet)
    BY <1>1, Zenon DEF Accept, TypeOK
  <2>. QED BY <2>3, <2>4, <2>5, Zenon
<1>2. CASE hw' = hw /\ quiet' = FALSE
  <2>1. hw.faults \in Nat
    BY Zenon DEF TypeOK, HwType
  <2>2. quiet' \in BOOLEAN /\ (quiet' => quiet)
    BY <1>2, Zenon
  <2>3. hw' \in HwType /\ hw'.faults >= hw.faults
    BY <1>2, <2>1 DEF TypeOK
  <2>. QED BY <2>2, <2>3, Zenon
<1>. QED BY <1>1, <1>2, Zenon DEF Write

\* A command changes the configuration byte.
WithConf(h, cb) == [h EXCEPT !.conf = cb]

\* A write of the configuration byte changes nothing else.
LEMMA ConfType ==
  ASSUME NEW h \in HwType, NEW cb \in Byte
  PROVE  /\ WithConf(h, cb) \in HwType
         /\ WithConf(h, cb).conf = cb
         /\ WithConf(h, cb).out = h.out
         /\ WithConf(h, cb).late = h.late
         /\ WithConf(h, cb).held = h.held
         /\ WithConf(h, cb).scanning = h.scanning
         /\ WithConf(h, cb).selftest = h.selftest
         /\ WithConf(h, cb).faults = h.faults
         /\ WithConf(h, cb).busy = h.busy
         /\ WithConf(h, cb).redirect = h.redirect
BY Zenon DEF HwType, WithConf

\* enable_line: the line gives out what it held back.
LEMMA EnableType ==
  ASSUME hw \in HwType, NEW l \in Lines, NEW h \in enable_line(l)
  PROVE  /\ h \in HwType
         /\ h.conf = unset(hw.conf, clock_bit[l])
         /\ h.out = hw.out \o hw.held[l]
         /\ h.late = hw.late
         /\ h.held = [hw.held EXCEPT ![l] = <<>>]
         /\ h.scanning = hw.scanning
         /\ h.selftest = hw.selftest
         /\ h.faults = hw.faults
         /\ h.busy = hw.busy
         /\ h.redirect = hw.redirect
<1>. DEFINE cb == unset(hw.conf, clock_bit[l])
            out == hw.out \o hw.held[l]
            held == [hw.held EXCEPT ![l] = <<>>]
<1>1. hw.conf \in Byte /\ hw.out \in Sent /\ hw.held \in [Lines -> Sent]
  BY Zenon DEF HwType
<1>2. cb \in Byte
  BY <1>1, BitsAreBits, UnsetUnsets, Zenon
<1>3. out \in Sent
  BY <1>1, ConcatProperties, Zenon DEF Sent
<1>4. held \in [Lines -> Sent]
  <2>1. <<>> \in Sent
    BY DEF Sent
  <2>. QED BY <1>1, <2>1, Zenon
<1>5. h = [hw EXCEPT !.conf = cb, !.out = out, !.held = held]
  BY Zenon DEF enable_line, HwType
<1>. HIDE DEF cb, out, held
<1>6. h \in HwType
  BY <1>2, <1>3, <1>4, <1>5, Zenon DEF HwType
<1>7. /\ h.conf = cb /\ h.out = out /\ h.held = held /\ h.late = hw.late
      /\ h.scanning = hw.scanning /\ h.selftest = hw.selftest
      /\ h.faults = hw.faults /\ h.busy = hw.busy /\ h.redirect = hw.redirect
  BY <1>5, Zenon DEF HwType
<1>. QED BY <1>6, <1>7, Zenon DEF cb, out, held

\* The command that addresses the second line.
LEMMA RedirectType ==
  ASSUME NEW h \in HwType, NEW r \in BOOLEAN, NEW g, g = [h EXCEPT !.redirect = r]
  PROVE  /\ g \in HwType
         /\ g.conf = h.conf
         /\ g.out = h.out
         /\ g.late = h.late
         /\ g.held = h.held
         /\ g.scanning = h.scanning
         /\ g.selftest = h.selftest
         /\ g.faults = h.faults
         /\ g.busy = h.busy
         /\ g.redirect = r
BY Zenon DEF HwType

\* A device stops or starts to scan its keys.
Stopped(h, l) == [h EXCEPT !.scanning[l] = FALSE]
Started(h, l) == [h EXCEPT !.scanning[l] = TRUE]

\* A device that stops scanning changes nothing else.
LEMMA StopsScanning ==
  ASSUME NEW h \in HwType, NEW l \in Lines,
         NEW g, g = Stopped(h, l)
  PROVE  /\ g \in HwType
         /\ g.conf = h.conf
         /\ g.out = h.out
         /\ g.late = h.late
         /\ g.held = h.held
         /\ g.selftest = h.selftest
         /\ g.faults = h.faults
         /\ g.busy = h.busy
         /\ g.redirect = h.redirect
         /\ \A m \in Lines \ {l} : g.scanning[m] = h.scanning[m]
<1>1. h.scanning \in [Lines -> BOOLEAN]
  BY Zenon DEF HwType
<1>2. [h.scanning EXCEPT ![l] = FALSE] \in [Lines -> BOOLEAN]
  BY <1>1, Zenon
<1>3. g = [h EXCEPT !.scanning = [h.scanning EXCEPT ![l] = FALSE]]
  BY Zenon DEF HwType, Stopped
<1>4. g.scanning = [h.scanning EXCEPT ![l] = FALSE]
  BY <1>3, Zenon DEF HwType
<1>. QED BY <1>1, <1>2, <1>3, <1>4, Zenon DEF HwType

\* A device that starts scanning changes nothing else.
LEMMA StartsScanning ==
  ASSUME NEW h \in HwType, NEW l \in Lines,
         NEW g, g = Started(h, l)
  PROVE  /\ g \in HwType
         /\ g.conf = h.conf
         /\ g.out = h.out
         /\ g.late = h.late
         /\ g.held = h.held
         /\ g.selftest = h.selftest
         /\ g.faults = h.faults
         /\ g.busy = h.busy
         /\ g.redirect = h.redirect
         /\ \A m \in Lines \ {l} : g.scanning[m] = h.scanning[m]
         /\ g.scanning[l]
<1>1. h.scanning \in [Lines -> BOOLEAN]
  BY Zenon DEF HwType
<1>2. [h.scanning EXCEPT ![l] = TRUE] \in [Lines -> BOOLEAN]
  BY <1>1, Zenon
<1>3. g = [h EXCEPT !.scanning = [h.scanning EXCEPT ![l] = TRUE]]
  BY Zenon DEF HwType, Started
<1>4. g.scanning = [h.scanning EXCEPT ![l] = TRUE]
  BY <1>3, Zenon DEF HwType
<1>. QED BY <1>1, <1>2, <1>3, <1>4, Zenon DEF HwType

\* Acknowledgements and identifications are bytes.
LEMMA AnswersAreBytes ==
  ASSUME NEW kind \in {"keyboard", "terminal", "mouse"}
  PROVE  /\ IdOf(kind) \in Seq(Byte)
         /\ <<ps2_keyboard_ack>> \in Seq(Byte)
         /\ <<ps2_keyboard_ack>> \o IdOf(kind) \in Seq(Byte)
<1>1. ps2_keyboard_ack \in Byte /\ {171, 131, 65, 0} \subseteq Byte
  BY DEF ps2_keyboard_ack, Byte
<1>2. IdOf(kind) \in Seq(Byte)
  <2>1. CASE kind = "keyboard"
    BY <1>1, <2>1 DEF IdOf, this_dev_id
  <2>2. CASE kind = "terminal"
    BY <1>1, <2>2 DEF IdOf
  <2>3. CASE kind = "mouse"
    BY <1>1, <2>3 DEF IdOf
  <2>. QED BY <2>1, <2>2, <2>3, Zenon
<1>3. <<ps2_keyboard_ack>> \in Seq(Byte)
  BY <1>1
<1>. QED BY <1>2, <1>3, ConcatProperties, Zenon

\* A device gets a byte and answers it.
Addressed == IF hw.redirect THEN 1 ELSE 0

\* What a byte sent to a device changes, and the answer it brings.
LEMMA DeviceGetsType ==
  ASSUME TypeOK, NEW byte \in {"disable_scan", "identify", "enable_scan"},
         NEW h \in DeviceGets(byte)
  PROVE  /\ h \in HwType
         /\ h.conf = hw.conf
         /\ h.held = hw.held
         /\ h.selftest = hw.selftest
         /\ h.redirect = FALSE
         /\ h.busy = hw.busy
         /\ h.faults >= hw.faults
         /\ h.faults = 0 /\ NoneLate(hw) => NoneLate(h)
         /\ \A m \in Lines \ {Addressed} : h.scanning[m] = hw.scanning[m]
         /\ byte = "identify" => h.scanning = hw.scanning
         /\ byte = "enable_scan" /\ device[Addressed] # "none" =>
              h.scanning[Addressed]
         /\ NoAnswers(hw) => Expects(h, Addressed, AnswerOf(device[Addressed], byte))
<1>1. hw \in HwType /\ hw.faults \in Nat
  BY Zenon DEF TypeOK, HwType
<1>2. PICK l \in Lines : l = Addressed
  BY Zenon DEF Addressed, Lines
<1>3. PICK g : g = [hw EXCEPT !.redirect = FALSE]
  BY Zenon
<1>4. /\ g \in HwType /\ g.conf = hw.conf /\ g.out = hw.out /\ g.late = hw.late
      /\ g.held = hw.held /\ g.scanning = hw.scanning /\ g.selftest = hw.selftest
      /\ g.faults = hw.faults /\ g.busy = hw.busy /\ g.redirect = FALSE
  BY <1>1, <1>3, RedirectType, Zenon
<1>5. CASE device[l] = "none"
  <2>1. h = g
    BY <1>2, <1>3, <1>5, Zenon DEF DeviceGets, Addressed
  <2>2. AnswerOf(device[Addressed], byte) = <<>>
    BY <1>2, <1>5, Zenon DEF AnswerOf
  <2>3. NoAnswers(hw) => NoAnswers(g)
    BY <1>4, Zenon DEF NoAnswers, NoneLate
  <2>4. NoAnswers(hw) => Expects(h, Addressed, AnswerOf(device[Addressed], byte))
    BY <1>2, <1>4, <2>1, <2>2, <2>3, ExpectsNothing, Zenon
  <2>. QED BY <1>1, <1>2, <1>4, <1>5, <2>1, <2>4 DEF NoneLate
<1>6. CASE device[l] # "none"
  <2>1. device[l] \in {"keyboard", "terminal", "mouse"}
    BY <1>6, PS2Assumption, Zenon DEF TypeOK
  <2>2. ASSUME NEW f \in HwType, NEW bytes \in Seq(Byte), h \in Answer(f, l, bytes),
               f.conf = g.conf, f.out = g.out, f.late = g.late, f.held = g.held,
               f.selftest = g.selftest, f.faults = g.faults, f.busy = g.busy,
               f.redirect = FALSE,
               bytes = AnswerOf(device[l], byte)
        PROVE  /\ h \in HwType
               /\ h.conf = hw.conf
               /\ h.held = hw.held
               /\ h.selftest = hw.selftest
               /\ h.redirect = FALSE
               /\ h.busy = hw.busy
               /\ h.faults >= hw.faults
               /\ h.faults = 0 /\ NoneLate(hw) => NoneLate(h)
               /\ h.scanning = f.scanning
               /\ NoAnswers(hw) => Expects(h, l, AnswerOf(device[l], byte))
    <3>1. /\ h \in HwType /\ Keeps(h, f) /\ h.busy = f.busy /\ h.faults >= f.faults
          /\ h.faults = 0 /\ NoneLate(f) => NoneLate(h)
      BY <2>2, AnswerType, Zenon
    <3>2. NoneLate(hw) => NoneLate(f)
      BY <2>2, <1>4, Zenon DEF NoneLate
    <3>3. NoAnswers(hw) => NoAnswers(f)
      BY <2>2, <1>4, <3>2, Zenon DEF NoAnswers
    <3>4. NoAnswers(hw) => Expects(h, l, AnswerOf(device[l], byte))
      BY <2>2, <3>3, AnswerExpected, Zenon
    <3>. QED BY <1>4, <2>2, <3>1, <3>2, <3>4, Zenon DEF Keeps
  <2>3. CASE byte = "disable_scan"
    <3>1. PICK f : f = Stopped(g, l)
      BY Zenon
    <3>2. h \in Answer(f, l, <<ps2_keyboard_ack>>)
      BY <1>2, <1>3, <1>6, <2>3, <3>1, Zenon DEF DeviceGets, Addressed, Stopped
    <3>3. AnswerOf(device[l], byte) = <<ps2_keyboard_ack>>
      BY <1>6, <2>3, Zenon DEF AnswerOf
    <3>4. /\ f \in HwType /\ f.conf = g.conf /\ f.out = g.out /\ f.late = g.late
          /\ f.held = g.held /\ f.selftest = g.selftest /\ f.faults = g.faults
          /\ f.busy = g.busy /\ f.redirect = FALSE
          /\ \A m \in Lines \ {l} : f.scanning[m] = g.scanning[m]
      BY <1>4, <3>1, StopsScanning
    <3>5. \A m \in Lines \ {l} : f.scanning[m] = hw.scanning[m]
      BY <1>4, <3>4, Zenon
    <3>6. <<ps2_keyboard_ack>> \in Seq(Byte)
      BY <2>1, AnswersAreBytes, Zenon
    <3>. QED BY <1>2, <2>2, <2>3, <3>2, <3>3, <3>4, <3>5, <3>6, Zenon
  <2>4. CASE byte = "enable_scan"
    <3>1. PICK f : f = Started(g, l)
      BY Zenon
    <3>2. h \in Answer(f, l, <<ps2_keyboard_ack>>)
      BY <1>2, <1>3, <1>6, <2>4, <3>1, Zenon DEF DeviceGets, Addressed, Started
    <3>3. AnswerOf(device[l], byte) = <<ps2_keyboard_ack>>
      BY <1>6, <2>4, Zenon DEF AnswerOf
    <3>4. /\ f \in HwType /\ f.conf = g.conf /\ f.out = g.out /\ f.late = g.late
          /\ f.held = g.held /\ f.selftest = g.selftest /\ f.faults = g.faults
          /\ f.busy = g.busy /\ f.redirect = FALSE
          /\ f.scanning[l]
          /\ \A m \in Lines \ {l} : f.scanning[m] = g.scanning[m]
      BY <1>4, <3>1, StartsScanning
    <3>5. /\ \A m \in Lines \ {l} : f.scanning[m] = hw.scanning[m]
          /\ f.scanning[l]
      BY <1>4, <3>4, Zenon
    <3>6. <<ps2_keyboard_ack>> \in Seq(Byte)
      BY <2>1, AnswersAreBytes, Zenon
    <3>. QED BY <1>2, <2>2, <2>4, <3>2, <3>3, <3>4, <3>5, <3>6, Zenon
  <2>5. CASE byte = "identify"
    <3>1. h \in Answer(g, l, <<ps2_keyboard_ack>> \o IdOf(device[l]))
      BY <1>2, <1>3, <1>6, <2>5, Zenon DEF DeviceGets, Addressed
    <3>2. AnswerOf(device[l], byte) = <<ps2_keyboard_ack>> \o IdOf(device[l])
      BY <1>6, <2>5, Zenon DEF AnswerOf
    <3>3. <<ps2_keyboard_ack>> \o IdOf(device[l]) \in Seq(Byte)
      BY <2>1, AnswersAreBytes, Zenon
    <3>. QED BY <1>2, <1>4, <2>2, <2>5, <3>1, <3>2, <3>3, Zenon
  <2>. QED BY <2>3, <2>4, <2>5, Zenon
<1>. QED BY <1>5, <1>6, Zenon

\* A change of the chip that a command may cause.
Effects(effects) ==
  /\ effects \subseteq HwType
  /\ \A h \in effects : h.faults >= hw.faults

\* Every command leaves the chip in one of its states.
LEMMA CommandsHaveEffects ==
  ASSUME TypeOK
  PROVE  /\ \A l \in Lines : Effects(disable_line(l))
         /\ \A l \in Lines : Effects(enable_line(l))
         /\ Effects(test_line)
         /\ Effects(self_test)
         /\ Effects(read_cb)
         /\ \A cb \in Byte : Effects(write_cb(cb))
         /\ Effects({[hw EXCEPT !.redirect = TRUE]})
         /\ \A byte \in {"disable_scan", "identify", "enable_scan"} :
              Effects(DeviceGets(byte))
<1>1. /\ hw \in HwType /\ hw.faults \in Nat /\ hw.conf \in Byte
      /\ hw.selftest \in Byte /\ port_test_ok \in Byte
  BY DEF TypeOK, HwType, Byte, self_test_ok, self_test_fail, port_test_ok
<1>2. \A l \in Lines : Effects(disable_line(l))
  <2>1. TAKE l \in Lines
  <2>2. set(hw.conf, clock_bit[l]) \in Byte
    BY <1>1, BitsAreBits, SetSets, Zenon
  <2>3. disable_line(l) = {WithConf(hw, set(hw.conf, clock_bit[l]))}
    BY Zenon DEF disable_line, WithConf
  <2>4. PICK h : h = WithConf(hw, set(hw.conf, clock_bit[l]))
    BY Zenon
  <2>5. h \in HwType /\ h.faults = hw.faults
    BY <1>1, <2>2, <2>4, ConfType, Zenon
  <2>. QED BY <1>1, <2>3, <2>4, <2>5 DEF Effects
<1>3. \A l \in Lines : Effects(enable_line(l))
  <2>1. TAKE l \in Lines
  <2>2. \A h \in enable_line(l) : h \in HwType /\ h.faults = hw.faults
    BY <1>1, EnableType, Zenon
  <2>. QED BY <1>1, <2>2 DEF Effects
<1>4. ASSUME NEW byte \in Byte
      PROVE  Effects(Answer(hw, 0, <<byte>>))
  <2>1. <<byte>> \in Seq(Byte) /\ 0 \in Lines
    BY <1>4 DEF Lines
  <2>. QED BY <1>1, <2>1, AnswerType, Zenon DEF Effects
<1>5. \A cb \in Byte : Effects(write_cb(cb))
  <2>1. TAKE cb \in Byte
  <2>2. write_cb(cb) = {WithConf(hw, cb)}
    BY Zenon DEF write_cb, WithConf
  <2>3. PICK h : h = WithConf(hw, cb)
    BY Zenon
  <2>4. h \in HwType /\ h.faults = hw.faults
    BY <1>1, <2>3, ConfType, Zenon
  <2>. QED BY <1>1, <2>2, <2>3, <2>4 DEF Effects
<1>6. Effects({[hw EXCEPT !.redirect = TRUE]})
  <2>1. PICK g : g = [hw EXCEPT !.redirect = TRUE]
    BY Zenon
  <2>2. g \in HwType /\ g.faults = hw.faults
    BY <1>1, <2>1, Zenon DEF HwType
  <2>3. Effects({g})
    BY <1>1, <2>2 DEF Effects
  <2>. QED BY <2>1, <2>3, Zenon
<1>7. \A byte \in {"disable_scan", "identify", "enable_scan"} :
        Effects(DeviceGets(byte))
  BY DeviceGetsType, Zenon DEF Effects
<1>. QED
  BY <1>1, <1>2, <1>3, <1>4, <1>5, <1>6, <1>7, Zenon DEF test_line, self_test, read_cb

\* The byte that masks the interrupts is a byte.
LEMMA MaskedConfType ==
  ASSUME TypeOK
  PROVE  MaskedConf \in Byte
BY BitsAreBits, UnsetUnsets, Zenon DEF TypeOK, MaskedConf, Lines

\* A key is pressed: the line holds it back or gives it out.
Holds(h, l) == [h EXCEPT !.held[l] = Append(@, <<ScanCode, l>>)]
GivesOut(h, l) == [h EXCEPT !.out = Append(@, <<ScanCode, l>>)]

\* A key press changes nothing but what is held or given out.
LEMMA PressType ==
  ASSUME NEW h \in HwType, NEW l \in Lines, NEW g \in {Holds(h, l), GivesOut(h, l)}
  PROVE  /\ g \in HwType
         /\ g.conf = h.conf
         /\ g.late = h.late
         /\ g.scanning = h.scanning
         /\ g.selftest = h.selftest
         /\ g.faults = h.faults
         /\ g.busy = h.busy
         /\ g.redirect = h.redirect
         /\ g = Holds(h, l) => g.out = h.out
<1>1. h.out \in Sent /\ h.held \in [Lines -> Sent] /\ <<ScanCode, l>> \in Byte \X Lines
  BY PS2Assumption, Zenon DEF HwType, Byte
<1>2. PICK out \in Sent : out = Append(h.out, <<ScanCode, l>>)
  BY <1>1, AppendProperties, Zenon DEF Sent
<1>3. Append(h.held[l], <<ScanCode, l>>) \in Sent
  BY <1>1, AppendProperties, Zenon DEF Sent
<1>4. PICK held \in [Lines -> Sent] :
        held = [h.held EXCEPT ![l] = Append(@, <<ScanCode, l>>)]
  BY <1>1, <1>3, Zenon
<1>5. GivesOut(h, l) = [h EXCEPT !.out = out]
  BY <1>2, Zenon DEF GivesOut, HwType
<1>6. Holds(h, l) = [h EXCEPT !.held = held]
  BY <1>4, Zenon DEF Holds, HwType
<1>7. CASE g = GivesOut(h, l)
  <2>1. g = [h EXCEPT !.out = out]
    BY <1>5, <1>7, Zenon
  <2>2. /\ g \in HwType /\ g.conf = h.conf /\ g.late = h.late
        /\ g.scanning = h.scanning /\ g.selftest = h.selftest /\ g.faults = h.faults
        /\ g.busy = h.busy /\ g.redirect = h.redirect
    BY <2>1, Zenon DEF HwType
  <2>3. ASSUME g = Holds(h, l) PROVE g.out = h.out
    BY <1>6, <2>3, Zenon DEF HwType
  <2>. QED BY <2>2, <2>3, Zenon
<1>8. CASE g = Holds(h, l)
  <2>1. g = [h EXCEPT !.held = held]
    BY <1>6, <1>8, Zenon
  <2>. QED BY <2>1, Zenon DEF HwType
<1>. QED BY <1>7, <1>8, Zenon

\* Types are kept and disturbances grow, in every step.
LEMMA TypeInductive == TypeOK /\ Calls /\ Next => TypeOK' /\ Grows
<1>. SUFFICES ASSUME TypeOK, Calls, Next PROVE TypeOK' /\ Grows
  BY Zenon
<1>1. hw \in HwType /\ hw.faults \in Nat
  BY Zenon DEF TypeOK, HwType
<1>2. ASSUME NEW effects, Effects(effects), Write(effects), UNCHANGED <<device, presses>>,
             line' \in Lines, conf' \in Byte
      PROVE  TypeOK' /\ Grows
  <2>1. /\ hw' \in HwType /\ hw'.faults >= hw.faults
        /\ quiet' \in BOOLEAN /\ (quiet' => quiet)
    BY <1>2, WriteType, Zenon DEF Effects
  <2>. QED BY <1>2, <2>1 DEF TypeOK, Grows
<1>3. ASSUME UNCHANGED <<device, hw, presses, quiet>>, line' \in Lines, conf' \in Byte
      PROVE  TypeOK' /\ Grows
  BY <1>1, <1>3 DEF TypeOK, Grows
<1>4. ASSUME hw' \in HwType, hw'.faults = hw.faults,
             UNCHANGED <<device, line, presses, quiet>>, conf' \in Byte
      PROVE  TypeOK' /\ Grows
  BY <1>1, <1>4 DEF TypeOK, Grows
<1>5. ASSUME hw.out # <<>>, hw' = [hw EXCEPT !.out = Tail(@)],
             UNCHANGED <<device, line, presses, quiet>>, conf' \in Byte
      PROVE  TypeOK' /\ Grows
  <2>1. hw' \in HwType /\ hw'.faults = hw.faults
    BY <1>1, <1>5, TakenType, Zenon DEF Taken
  <2>. QED BY <1>4, <1>5, <2>1, Zenon
<1>6. conf \in Byte /\ line \in Lines /\ 0 \in Lines /\ 1 \in Lines
  BY Zenon DEF TypeOK, Lines
<1>7. ASSUME hw.out # <<>> PROVE Head(hw.out)[1] \in Byte
  <2>1. hw.out \in Sent
    BY Zenon DEF TypeOK, HwType
  <2>2. Head(hw.out) \in Byte \X Lines
    BY <1>7, <2>1, HeadTailProperties, Zenon DEF Sent
  <2>. QED BY <2>2, Zenon
<1>8. CASE \/ disable_lines \/ mask_interrupts \/ do_selftest \/ enable_second
           \/ disable_second \/ test_lines \/ enable_lines \/ write_conf \/ conf_command
  <2>1. CASE disable_lines
    <3>1. line' \in Lines
      BY <1>6, <2>1, Zenon DEF disable_lines, NextLine, LastLine
    <3>. QED BY <1>2, <1>6, <2>1, <3>1, CommandsHaveEffects, Zenon DEF disable_lines
  <2>2. CASE mask_interrupts
    BY <1>2, <1>6, <2>2, CommandsHaveEffects, MaskedConfType, Zenon DEF mask_interrupts
  <2>3. CASE do_selftest
    BY <1>2, <1>6, <2>3, CommandsHaveEffects, Zenon DEF do_selftest
  <2>4. CASE enable_second
    BY <1>2, <1>6, <2>4, CommandsHaveEffects, Zenon DEF enable_second
  <2>5. CASE disable_second
    BY <1>2, <1>6, <2>5, CommandsHaveEffects, Zenon DEF disable_second
  <2>6. CASE test_lines
    BY <1>2, <1>6, <2>6, CommandsHaveEffects, Zenon DEF test_lines
  <2>7. CASE enable_lines
    <3>1. line' \in Lines
      BY <1>6, <2>7, Zenon DEF enable_lines, NextLine, LastLine
    <3>. QED BY <1>2, <1>6, <2>7, <3>1, CommandsHaveEffects, Zenon DEF enable_lines
  <2>8. CASE write_conf
    BY <1>2, <1>6, <2>8, CommandsHaveEffects, Zenon DEF write_conf
  <2>9. CASE conf_command
    BY <1>2, <1>6, <2>9, CommandsHaveEffects, Zenon DEF conf_command
  <2>. QED BY <1>8, <2>1, <2>2, <2>3, <2>4, <2>5, <2>6, <2>7, <2>8, <2>9, Zenon
<1>9. CASE setup_line
  <2>1. line' \in Lines
    BY <1>6, <1>9, Zenon DEF setup_line, NextLine, LastLine
  <2>2. CASE line \in active
    <3>1. conf' \in Byte
      BY <1>6, <1>9, <2>2, BitsAreBits, SetSets, Zenon DEF setup_line
    <3>. QED BY <1>3, <1>9, <2>1, <2>2, <3>1, Zenon DEF setup_line
  <2>3. CASE line \notin active
    BY <1>2, <1>6, <1>9, <2>1, <2>3, CommandsHaveEffects, Zenon DEF setup_line
  <2>. QED BY <2>2, <2>3, Zenon
<1>10. CASE send
  <2>1. CASE line = 1
    BY <1>2, <1>6, <1>10, <2>1, CommandsHaveEffects, Zenon DEF send
  <2>2. CASE line # 1
    BY <1>3, <1>6, <1>10, <2>2, Zenon DEF send
  <2>. QED BY <2>1, <2>2, Zenon
<1>11. CASE send_output
  <2>1. Effects(DeviceGets(data))
    BY <1>11, CommandsHaveEffects, Zenon DEF send_output, Calls
  <2>2. Write(DeviceGets(data))
    BY <1>11, Zenon DEF send_output, Write
  <2>. QED BY <1>2, <1>6, <1>11, <2>1, <2>2, Zenon DEF send_output
<1>12. CASE clean_buffer \/ receive_byte \/ \E l \in Lines : ps2_irq_handler(l)
  BY <1>3, <1>5, <1>6, <1>12, Zenon
  DEF clean_buffer, receive_byte, ps2_irq_handler, Interrupt, control
<1>13. CASE conf_receive
  <2>1. CASE hw.out # <<>>
    BY <1>5, <1>7, <1>13, <2>1, Zenon DEF conf_receive
  <2>2. CASE hw.out = <<>>
    <3>1. conf' \in Byte
      BY <1>13, <2>2, PS2Assumption, Zenon DEF conf_receive, Byte
    <3>2. UNCHANGED <<device, hw, line, presses>>
      BY <1>13, <2>2, Zenon DEF conf_receive
    <3>3. quiet' = FALSE
      BY <1>13, <2>2, Zenon DEF conf_receive
    <3>4. quiet' \in BOOLEAN /\ (quiet' => quiet)
      BY <3>3, Zenon
    <3>. QED BY <1>1, <3>1, <3>2, <3>4 DEF TypeOK, Grows
  <2>. QED BY <2>1, <2>2, Zenon
<1>14. CASE receive_times_out \/ send_times_out
  <2>1. UNCHANGED <<device, hw, line, conf, presses>>
    BY <1>14, Zenon DEF receive_times_out, send_times_out
  <2>2. quiet' \in BOOLEAN /\ (quiet' => quiet)
    BY <1>14, Zenon DEF receive_times_out, send_times_out
  <2>. QED BY <1>1, <2>1, <2>2 DEF TypeOK, Grows
<1>15. CASE \/ first_conf \/ selftest_done \/ tested \/ probe_begins \/ probe_disabled
            \/ probe_identified \/ probe_id \/ probe_ok \/ wait_for_flag
  <2>1. UNCHANGED <<device, hw, conf, presses, quiet>>
    BY <1>15, Zenon DEF first_conf, selftest_done, tested, probe_begins, probe_disabled,
                 probe_identified, probe_id, probe_ok, wait_for_flag
  <2>2. line' \in Lines
    BY <1>6, <1>15, Zenon
    DEF first_conf, selftest_done, tested, LastLine, probe_begins, probe_disabled,
        probe_identified, probe_id, probe_ok, wait_for_flag, Probed
  <2>. QED BY <1>3, <1>6, <2>1, <2>2, Zenon
<1>16. CASE Ready
  <2>1. hw' \in HwType /\ hw'.faults = hw.faults
    BY <1>1, <1>16, Zenon DEF Ready, HwType
  <2>. QED BY <1>4, <1>6, <1>16, <2>1, Zenon DEF Ready, control
<1>17. CASE \E l \in Lines : Arrive(l)
  <2>1. hw' \in HwType /\ hw'.faults = hw.faults
    BY <1>1, <1>17, ArrivedType, Zenon DEF Arrive, Arrived
  <2>. QED BY <1>4, <1>6, <1>17, <2>1, Zenon DEF Arrive, control
<1>18. ASSUME NEW l \in Lines, Press(l)
       PROVE  TypeOK' /\ Grows
  <2>1. hw' \in {Holds(hw, l), GivesOut(hw, l)}
    BY <1>18, Zenon DEF Press, Holds, GivesOut
  <2>2. hw' \in HwType /\ hw'.faults = hw.faults
    BY <1>1, <1>18, <2>1, PressType, Zenon
  <2>3. UNCHANGED <<device, line, conf>> /\ presses' = presses + 1
    BY <1>18, Zenon DEF Press, control
  <2>4. quiet' \in BOOLEAN /\ (quiet' => quiet)
    BY <1>18, Zenon DEF Press, TypeOK
  <2>. QED BY <1>1, <2>2, <2>3, <2>4 DEF TypeOK, Grows
<1>. QED
  BY <1>8, <1>9, <1>10, <1>11, <1>12, <1>13, <1>14, <1>15, <1>16, <1>17, <1>18, Zenon
  DEF Next, Initialize

\* Calls return to where they came from.
LEMMA CallsInductive == Calls /\ Next => Calls'
<1>. SUFFICES ASSUME Calls, Next PROVE Calls'
  BY Zenon
<1>. USE DEF Calls, Goto, CallClean, CallConf, CallReceive, CallSend
<1>1. CASE disable_lines \/ first_conf \/ mask_interrupts \/ do_selftest \/ selftest_done
  BY <1>1, Zenon DEF disable_lines, first_conf, mask_interrupts, do_selftest, selftest_done,
              NextLine, LastLine
<1>2. CASE \/ enable_second \/ disable_second \/ test_lines \/ tested \/ enable_lines
           \/ setup_line \/ write_conf
  BY <1>2, Zenon DEF enable_second, disable_second, test_lines, tested, enable_lines,
              setup_line, write_conf, NextLine, LastLine
<1>3. CASE \/ probe_begins \/ probe_disabled \/ probe_identified \/ probe_id \/ probe_ok
  BY <1>3, Zenon DEF probe_begins, probe_disabled, probe_identified, probe_id, probe_ok, Probed
<1>4. CASE clean_buffer \/ conf_command \/ conf_receive
  BY <1>4, Zenon DEF clean_buffer, conf_command, conf_receive
<1>5. CASE receive_byte \/ receive_times_out \/ wait_for_flag
  BY <1>5, Zenon DEF receive_byte, receive_times_out, wait_for_flag
<1>6. CASE send \/ send_output \/ send_times_out
  BY <1>6, Zenon DEF send, send_output, send_times_out
<1>7. CASE \/ Ready
           \/ \E l \in Lines : ps2_irq_handler(l) \/ Arrive(l) \/ Press(l)
  BY <1>7, Zenon DEF Ready, ps2_irq_handler, Arrive, Press, control
<1>. QED BY <1>1, <1>2, <1>3, <1>4, <1>5, <1>6, <1>7, Zenon DEF Next, Initialize

-----------------------------------------------------------------------------
(* What a write that is not lost does.                                     *)

\* No fault has happened without a fault, also after a write.
LEMMA WriteInv ==
  ASSUME TypeOK, quiet', HwInv(hw, presses), UNCHANGED presses,
         NEW effects, Effects(effects), Write(effects),
         \A h \in effects :
           /\ h.busy = hw.busy
           /\ h.faults = 0 /\ NoneLate(hw) => NoneLate(h)
           /\ presses = 0 => \A l \in Lines : h.held[l] = <<>>
  PROVE  \E h \in effects : Settles(hw', h) /\ HwInv(hw', presses')
<1>1. Accept(effects) /\ ~hw.busy
  BY Zenon DEF Write, Accept
<1>2. PICK h \in effects : Settles(hw', h)
  BY <1>1, AcceptSettles, Zenon DEF Effects
<1>3. hw.faults \in Nat /\ h.faults \in Nat /\ hw'.faults \in Nat
  BY <1>2, Zenon DEF TypeOK, HwType, Effects, Settles
<1>4. ASSUME hw'.faults = 0 PROVE ~hw'.busy /\ NoneLate(hw')
  <2>1. hw.faults = 0 /\ h.faults = 0
    BY <1>2, <1>3, <1>4 DEF Effects, Settles
  <2>2. NoneLate(hw')
    BY <1>2, <2>1, Zenon DEF HwInv, NoneLate, Settles
  <2>3. hw'.busy = hw.busy
    BY <1>2, <1>4, Zenon DEF Settles
  <2>. QED BY <1>1, <2>2, <2>3, Zenon
<1>5. presses' = 0 => \A l \in Lines : hw'.held[l] = <<>>
  BY <1>2, Zenon DEF Settles, Keeps
<1>. QED BY <1>2, <1>4, <1>5, Zenon DEF HwInv

\* The configuration byte is written.
LEMMA ConfWritten ==
  ASSUME TypeOK, quiet', HwInv(hw, presses), UNCHANGED presses,
         NEW cb \in Byte, Write({WithConf(hw, cb)})
  PROVE  /\ HwInv(hw', presses')
         /\ hw'.conf = cb
         /\ hw'.scanning = hw.scanning
         /\ hw'.selftest = hw.selftest
         /\ hw'.redirect = hw.redirect
         /\ hw'.out = hw.out
         /\ hw'.late = hw.late
<1>1. PICK h : h = WithConf(hw, cb)
  BY Zenon
<1>2. /\ h \in HwType /\ h.conf = cb /\ h.out = hw.out /\ h.late = hw.late
      /\ h.held = hw.held /\ h.scanning = hw.scanning /\ h.selftest = hw.selftest
      /\ h.faults = hw.faults /\ h.busy = hw.busy /\ h.redirect = hw.redirect
  BY <1>1, ConfType, Zenon DEF TypeOK
<1>3. hw.faults \in Nat
  BY Zenon DEF TypeOK, HwType
<1>4. Effects({h})
  BY <1>2, <1>3 DEF Effects
<1>5. NoneLate(hw) => NoneLate(h)
  BY <1>2, Zenon DEF NoneLate
<1>6. presses = 0 => \A l \in Lines : h.held[l] = <<>>
  BY <1>2, Zenon DEF HwInv
<1>7. Settles(hw', h) /\ HwInv(hw', presses')
  BY <1>1, <1>2, <1>4, <1>5, <1>6, WriteInv
<1>. QED BY <1>2, <1>7, Zenon DEF Settles, Keeps

\* A line is switched on.
LEMMA EnableWritten ==
  ASSUME TypeOK, quiet', HwInv(hw, presses), UNCHANGED presses,
         NEW l \in Lines, Write(enable_line(l))
  PROVE  /\ HwInv(hw', presses')
         /\ hw'.conf = unset(hw.conf, clock_bit[l])
         /\ hw'.scanning = hw.scanning
         /\ hw'.selftest = hw.selftest
         /\ hw'.redirect = hw.redirect
         /\ presses = 0 /\ NoAnswers(hw) => NoAnswers(hw')
<1>1. hw \in HwType /\ Effects(enable_line(l))
  BY CommandsHaveEffects, Zenon DEF TypeOK
<1>2. ASSUME NEW h \in enable_line(l)
      PROVE  /\ h.busy = hw.busy
             /\ h.faults = 0 /\ NoneLate(hw) => NoneLate(h)
             /\ presses = 0 => \A m \in Lines : h.held[m] = <<>>
  <2>1. h.busy = hw.busy /\ h.late = hw.late /\ h.held = [hw.held EXCEPT ![l] = <<>>]
    BY <1>1, <1>2, EnableType, Zenon
  <2>2. hw.held \in [Lines -> Sent]
    BY <1>1, Zenon DEF HwType
  <2>. QED BY <2>1, <2>2, Zenon DEF NoneLate, HwInv
<1>3. PICK h \in enable_line(l) : Settles(hw', h) /\ HwInv(hw', presses')
  BY <1>1, <1>2, WriteInv, Zenon
<1>4. /\ h.conf = unset(hw.conf, clock_bit[l]) /\ h.scanning = hw.scanning
      /\ h.selftest = hw.selftest /\ h.redirect = hw.redirect
      /\ h.out = hw.out \o hw.held[l] /\ h.late = hw.late
  BY <1>1, <1>3, EnableType, Zenon
<1>5. ASSUME presses = 0, NoAnswers(hw) PROVE NoAnswers(hw')
  <2>1. hw.held[l] = <<>> /\ hw.out = <<>>
    BY <1>5, Zenon DEF HwInv, NoAnswers
  <2>2. h.out = <<>>
    BY <1>4, <2>1
  <2>. QED BY <1>3, <1>4, <1>5, <2>2, Zenon DEF NoAnswers, NoneLate, Settles
<1>. QED BY <1>3, <1>4, <1>5, Zenon DEF Settles, Keeps

\* The chip itself is asked for a byte.
LEMMA ChipAsked ==
  ASSUME TypeOK, quiet', HwInv(hw, presses), UNCHANGED presses,
         NEW byte \in Byte, Write(Answer(hw, 0, <<byte>>))
  PROVE  /\ HwInv(hw', presses')
         /\ hw'.conf = hw.conf
         /\ hw'.scanning = hw.scanning
         /\ hw'.selftest = hw.selftest
         /\ hw'.redirect = hw.redirect
         /\ NoAnswers(hw) => Expects(hw', 0, <<byte>>)
<1>1. hw \in HwType /\ hw.faults \in Nat /\ 0 \in Lines /\ <<byte>> \in Seq(Byte)
  BY DEF TypeOK, HwType, Lines
<1>2. ASSUME NEW h \in Answer(hw, 0, <<byte>>)
      PROVE  /\ h \in HwType
             /\ Keeps(h, hw)
             /\ h.busy = hw.busy
             /\ h.faults >= hw.faults
             /\ h.faults = 0 /\ NoneLate(hw) => NoneLate(h)
  BY <1>1, <1>2, AnswerType, Zenon
<1>3. Effects(Answer(hw, 0, <<byte>>))
  BY <1>2, Zenon DEF Effects
<1>4. \A h \in Answer(hw, 0, <<byte>>) :
        presses = 0 => \A l \in Lines : h.held[l] = <<>>
  BY <1>2, Zenon DEF Keeps, HwInv
<1>5. PICK h \in Answer(hw, 0, <<byte>>) : Settles(hw', h) /\ HwInv(hw', presses')
  BY <1>2, <1>3, <1>4, WriteInv, Zenon
<1>6. NoAnswers(hw) => Expects(h, 0, <<byte>>)
  BY <1>1, <1>5, AnswerExpected, Zenon
<1>7. Expects(h, 0, <<byte>>) => Expects(hw', 0, <<byte>>)
  BY <1>5, Zenon DEF Expects, Settles
<1>. QED BY <1>2, <1>5, <1>6, <1>7, Zenon DEF Settles, Keeps

\* The second line is addressed.
LEMMA RedirectWritten ==
  ASSUME TypeOK, quiet', HwInv(hw, presses), UNCHANGED presses,
         Write({[hw EXCEPT !.redirect = TRUE]})
  PROVE  /\ HwInv(hw', presses')
         /\ hw'.conf = hw.conf
         /\ hw'.scanning = hw.scanning
         /\ hw'.selftest = hw.selftest
         /\ hw'.redirect
         /\ NoAnswers(hw) => NoAnswers(hw')
<1>1. PICK h : h = [hw EXCEPT !.redirect = TRUE]
  BY Zenon
<1>2. /\ h \in HwType /\ h.conf = hw.conf /\ h.out = hw.out /\ h.late = hw.late
      /\ h.held = hw.held /\ h.scanning = hw.scanning /\ h.selftest = hw.selftest
      /\ h.faults = hw.faults /\ h.busy = hw.busy
  BY <1>1, Zenon DEF TypeOK, HwType
<1>3. h.redirect
  BY <1>1, Zenon DEF TypeOK, HwType
<1>4. hw.faults \in Nat
  BY Zenon DEF TypeOK, HwType
<1>5. Effects({h})
  BY <1>2, <1>4 DEF Effects
<1>6. NoneLate(hw) => NoneLate(h)
  BY <1>2, Zenon DEF NoneLate
<1>7. presses = 0 => \A l \in Lines : h.held[l] = <<>>
  BY <1>2, Zenon DEF HwInv
<1>8. Write({h})
  BY <1>1, Zenon
<1>9. Settles(hw', h) /\ HwInv(hw', presses')
  BY <1>2, <1>5, <1>6, <1>7, <1>8, WriteInv
<1>10. hw'.redirect
  BY <1>3, <1>9, Zenon DEF Settles, Keeps
<1>11. NoAnswers(hw) => NoAnswers(hw')
  BY <1>2, <1>9, Zenon DEF Settles, NoAnswers, NoneLate
<1>. QED BY <1>2, <1>9, <1>10, <1>11, Zenon DEF Settles, Keeps

\* A device is asked.
LEMMA DeviceAsked ==
  ASSUME TypeOK, quiet', HwInv(hw, presses), UNCHANGED presses,
         NEW byte \in {"disable_scan", "identify", "enable_scan"},
         Accept(DeviceGets(byte))
  PROVE  /\ HwInv(hw', presses')
         /\ hw'.conf = hw.conf
         /\ hw'.selftest = hw.selftest
         /\ hw'.redirect = FALSE
         /\ \A m \in Lines \ {Addressed} : hw'.scanning[m] = hw.scanning[m]
         /\ byte = "identify" => hw'.scanning = hw.scanning
         /\ byte = "enable_scan" /\ device[Addressed] # "none" =>
              hw'.scanning[Addressed]
         /\ NoAnswers(hw) => Expects(hw', Addressed, AnswerOf(device[Addressed], byte))
<1>1. Effects(DeviceGets(byte)) /\ Write(DeviceGets(byte))
  BY CommandsHaveEffects, Zenon DEF Write
<1>2. ASSUME NEW h \in DeviceGets(byte)
      PROVE  /\ h.busy = hw.busy
             /\ h.faults = 0 /\ NoneLate(hw) => NoneLate(h)
             /\ presses = 0 => \A l \in Lines : h.held[l] = <<>>
  BY <1>2, DeviceGetsType, Zenon DEF HwInv
<1>3. PICK h \in DeviceGets(byte) : Settles(hw', h) /\ HwInv(hw', presses')
  BY <1>1, <1>2, WriteInv, Zenon
<1>4. /\ h.conf = hw.conf
      /\ h.selftest = hw.selftest
      /\ h.redirect = FALSE
      /\ \A m \in Lines \ {Addressed} : h.scanning[m] = hw.scanning[m]
      /\ byte = "identify" => h.scanning = hw.scanning
      /\ byte = "enable_scan" /\ device[Addressed] # "none" => h.scanning[Addressed]
      /\ NoAnswers(hw) => Expects(h, Addressed, AnswerOf(device[Addressed], byte))
  BY <1>3, DeviceGetsType, Zenon
<1>5. NoAnswers(hw) => Expects(hw', Addressed, AnswerOf(device[Addressed], byte))
  BY <1>3, <1>4, Zenon DEF Expects, Settles
<1>. QED BY <1>3, <1>4, <1>5, Zenon DEF Settles, Keeps

-----------------------------------------------------------------------------
(* The environment: keys, answers that arrive, interrupts.                 *)

\* What holds at a step of the initialization holds until its next step.
LEMMA StageStays ==
  ASSUME Stage,
         UNCHANGED <<device, pc, ret, line, conf, data, reply, id_count, active>>,
         hw'.conf = hw.conf, hw'.scanning = hw.scanning,
         hw'.selftest = hw.selftest, hw'.redirect = hw.redirect,
         presses' = 0 => presses = 0,
         \A l \in Lines : \A bytes : Expects(hw, l, bytes) => Expects(hw', l, bytes),
         line \in Lines,
         NoneLate(hw) => NoneLate(hw'),
         NoAnswers(hw) => NoAnswers(hw')
  PROVE  Stage'
<1>1. UNCHANGED <<device, pc, ret, line, conf, data, reply, id_count, active>>
  BY Zenon
<1>2. 0 \in Lines
  BY Zenon DEF Lines
<1>3. Untouched => Untouched'
  BY <1>1, Zenon DEF Untouched
<1>4. Probing => Probing'
  BY <1>1, Zenon DEF Probing, Keyboards
<1>5. Sending => Sending'
  BY <1>1, Zenon DEF Sending
<1>6. Identifying => Identifying'
  BY <1>1, Zenon DEF Identifying
<1>7. Finishing => Finishing'
  BY <1>1, Zenon DEF Finishing, Keyboards
<1>8. Disabling'
  BY <1>1, <1>2, <1>3, Zenon DEF Stage, Disabling, In
<1>9. Testing'
  BY <1>1, <1>2, <1>3, Zenon DEF Stage, Testing, In
<1>10. ProbingLines'
  BY <1>1, <1>2, <1>4, <1>5, <1>6, Zenon DEF Stage, ProbingLines, In
<1>11. Ending'
  BY <1>1, <1>2, <1>7, Zenon DEF Stage, Ending, In, Configured
<1>. QED BY <1>8, <1>9, <1>10, <1>11, Zenon DEF Stage

\* The steps of the environment keep the invariant.
LEMMA EnvironmentStays ==
  ASSUME IInv, TypeOK', Undisturbed, Undisturbed',
         Ready \/ \E l \in Lines : ps2_irq_handler(l) \/ Arrive(l) \/ Press(l)
  PROVE  HwInv(hw', presses') /\ Stage'
<1>1. TypeOK /\ HwInv(hw, presses) /\ Stage /\ hw \in HwType /\ line \in Lines
  BY Zenon DEF IInv, TypeOK
<1>2. CASE Ready
  <2>1. /\ hw'.conf = hw.conf /\ hw'.scanning = hw.scanning /\ hw'.selftest = hw.selftest
        /\ hw'.redirect = hw.redirect /\ hw'.out = hw.out /\ hw'.late = hw.late
        /\ hw'.held = hw.held /\ hw'.faults = hw.faults
    BY <1>1, <1>2, Zenon DEF Ready, HwType
  <2>2. ~hw'.busy
    BY <1>1, <1>2, Zenon DEF Ready, HwType
  <2>3. UNCHANGED <<device, control, presses>>
    BY <1>2, Zenon DEF Ready
  <2>4. HwInv(hw', presses')
    BY <1>1, <2>1, <2>2, <2>3, Zenon DEF HwInv, NoneLate
  <2>5. /\ \A l \in Lines : \A bytes : Expects(hw, l, bytes) => Expects(hw', l, bytes)
        /\ NoneLate(hw) => NoneLate(hw')
        /\ NoAnswers(hw) => NoAnswers(hw')
    BY <2>1, Zenon DEF Expects, NoneLate, NoAnswers
  <2>. QED BY <1>1, <2>1, <2>3, <2>4, <2>5, StageStays, Zenon DEF control
<1>3. ASSUME NEW l \in Lines, Arrive(l) PROVE HwInv(hw', presses') /\ Stage'
  <2>1. hw' = Arrived(hw, l) /\ hw.late[l] # <<>> /\ UNCHANGED <<device, control, presses>>
    BY <1>3, Zenon DEF Arrive, Arrived
  <2>2. Keeps(hw', hw) /\ hw'.faults = hw.faults
    BY <1>1, <1>3, <2>1, ArrivedType, Zenon
  <2>3. ~NoneLate(hw) /\ ~NoAnswers(hw)
    BY <1>3, <2>1, Zenon DEF NoneLate, NoAnswers
  <2>4. HwInv(hw', presses')
    BY <1>1, <2>1, <2>2, <2>3, Zenon DEF HwInv, Keeps
  <2>5. \A m \in Lines : \A bytes : Expects(hw, m, bytes) => Expects(hw', m, bytes)
    BY <1>1, <1>3, <2>1, ArrivedExpected, Zenon
  <2>. QED BY <1>1, <2>1, <2>2, <2>3, <2>4, <2>5, StageStays, Zenon DEF Keeps, control
<1>4. ASSUME NEW l \in Lines, ps2_irq_handler(l) PROVE HwInv(hw', presses') /\ Stage'
  <2>1. /\ hw.out # <<>> /\ hw' = Taken(hw) /\ UNCHANGED <<device, control, presses>>
        /\ l \in active /\ is_set(hw.conf, int_bit[l])
    BY <1>4, Zenon DEF ps2_irq_handler, Interrupt, Taken
  <2>2. /\ Keeps(hw', hw) /\ hw'.late = hw.late /\ hw'.faults = hw.faults
        /\ hw'.busy = hw.busy
    BY <1>1, <2>1, TakenType, Zenon
  <2>3. HwInv(hw', presses')
    BY <1>1, <2>1, <2>2, Zenon DEF HwInv, Keeps, NoneLate
  <2>4. pc = "initialized"
    BY <1>1, <2>1, Zenon DEF Stage, Ending
  <2>5. pc' = "initialized" /\ active' = active
    BY <2>1, <2>4, Zenon DEF control
  <2>6. Finishing' /\ Configured(hw.conf, Lines)'
    BY <1>1, <2>1, <2>2, <2>4, <2>5, Zenon
    DEF Stage, Ending, Finishing, Configured, Keeps, Keyboards
  <2>. QED BY <2>3, <2>5, <2>6, Zenon DEF Stage, Disabling, Testing, ProbingLines, Ending, In
<1>5. ASSUME NEW l \in Lines, Press(l) PROVE HwInv(hw', presses') /\ Stage'
  <2>1. hw' \in {Holds(hw, l), GivesOut(hw, l)} /\ UNCHANGED <<device, control>>
    BY <1>5, Zenon DEF Press, Holds, GivesOut
  <2>2. /\ hw'.conf = hw.conf /\ hw'.late = hw.late /\ hw'.scanning = hw.scanning
        /\ hw'.selftest = hw.selftest /\ hw'.faults = hw.faults /\ hw'.busy = hw.busy
        /\ hw'.redirect = hw.redirect
        /\ hw' = Holds(hw, l) => hw'.out = hw.out
    BY <1>1, <1>5, <2>1, PressType, Zenon
  <2>3. presses' # 0
    BY <1>1, <1>5 DEF Press, TypeOK
  <2>4. HwInv(hw', presses')
    BY <1>1, <2>2, <2>3, Zenon DEF HwInv, NoneLate
  <2>5. CASE hw' = Holds(hw, l)
    <3>1. /\ \A m \in Lines : \A bytes : Expects(hw, m, bytes) => Expects(hw', m, bytes)
          /\ NoneLate(hw) => NoneLate(hw')
          /\ NoAnswers(hw) => NoAnswers(hw')
      BY <2>2, <2>5, Zenon DEF Expects, NoneLate, NoAnswers
    <3>. QED BY <1>1, <2>1, <2>2, <2>3, <2>4, <3>1, StageStays, Zenon DEF control
  <2>6. CASE hw' # Holds(hw, l)
    <3>1. pc \in {"disable", "initialized"}
      BY <1>5, <2>6, Zenon DEF Press, Holds, Undisturbed
    <3>2. UNCHANGED <<pc, line, active>>
      BY <2>1, Zenon DEF control
    <3>3. CASE pc = "disable"
      <4>1. Untouched' /\ NoneLate(hw')
        BY <1>1, <2>2, <3>2, <3>3, Zenon DEF Stage, Disabling, Untouched, NoneLate
      <4>2. /\ (line = 1 => is_set(hw.conf, clock_bit[0]))'
            /\ (\A m \in active : ~is_set(hw.conf, int_bit[m]))'
        BY <1>1, <2>2, <3>2, <3>3, Zenon DEF Stage, Disabling, Ending
      <4>. QED
        BY <2>4, <3>2, <3>3, <4>1, <4>2, Zenon
        DEF Stage, Disabling, Testing, ProbingLines, Ending, In
    <3>4. CASE pc = "initialized"
      <4>1. Finishing' /\ Configured(hw.conf, Lines)'
        BY <1>1, <2>1, <2>2, <3>2, <3>4, Zenon
        DEF Stage, Ending, Finishing, Configured, Keyboards
      <4>. QED
        BY <2>4, <3>2, <3>4, <4>1, Zenon
        DEF Stage, Disabling, Testing, ProbingLines, Ending, In
    <3>. QED BY <3>1, <3>3, <3>4, Zenon
  <2>. QED BY <2>5, <2>6, Zenon
<1>. QED BY <1>2, <1>3, <1>4, <1>5, Zenon

-----------------------------------------------------------------------------
(* The steps of initialize_controller().                                   *)

\* The clock of a line is switched off and on; no other bit changes.
LEMMA ClockBits ==
  ASSUME NEW cb \in Byte, NEW l \in Lines
  PROVE  /\ set(cb, clock_bit[l]) \in Byte
         /\ is_set(set(cb, clock_bit[l]), clock_bit[l])
         /\ ~is_set(unset(cb, clock_bit[l]), clock_bit[l])
         /\ \A m \in Lines \ {l} :
              /\ is_set(set(cb, clock_bit[l]), clock_bit[m]) <=> is_set(cb, clock_bit[m])
              /\ is_set(unset(cb, clock_bit[l]), clock_bit[m]) <=> is_set(cb, clock_bit[m])
         /\ Masked(cb) => Masked(set(cb, clock_bit[l])) /\ Masked(unset(cb, clock_bit[l]))
<1>1. clock_bit[l] \in BitSet
  BY BitsAreBits, Zenon
<1>2. ASSUME NEW b \in BitSet, b # clock_bit[l]
      PROVE  /\ is_set(set(cb, clock_bit[l]), b) <=> is_set(cb, b)
             /\ is_set(unset(cb, clock_bit[l]), b) <=> is_set(cb, b)
  BY <1>1, <1>2, SetKeeps, UnsetKeeps, Zenon
<1>3. \A m \in Lines \ {l} : clock_bit[m] \in BitSet /\ clock_bit[m] # clock_bit[l]
  BY BitsAreBits, Zenon
<1>4. \A m \in Lines : int_bit[m] \in BitSet /\ int_bit[m] # clock_bit[l]
  BY BitsAreBits, Zenon
<1>5. translation \in BitSet /\ translation # clock_bit[l]
  BY BitsAreBits, Zenon
<1>6. Masked(cb) => Masked(set(cb, clock_bit[l])) /\ Masked(unset(cb, clock_bit[l]))
  BY <1>2, <1>4, <1>5, Zenon DEF Masked
<1>. QED BY <1>1, <1>2, <1>3, <1>6, SetSets, UnsetUnsets, Zenon

\* The masked configuration has its bits cleared and the clocks of the other.
LEMMA MaskedConfMasks ==
  ASSUME TypeOK
  PROVE  /\ Masked(MaskedConf)
         /\ ClocksOff(conf) => ClocksOff(MaskedConf)
<1>. DEFINE first == unset(conf, int_bit[0])
            second == unset(first, int_bit[1])
<1>1. /\ int_bit[0] \in BitSet /\ int_bit[1] \in BitSet /\ translation \in BitSet
      /\ int_bit[0] # int_bit[1] /\ int_bit[0] # translation /\ int_bit[1] # translation
  BY BitsAreBits DEF Lines
<1>2. conf \in Byte
  BY Zenon DEF TypeOK
<1>3. first \in Byte /\ ~is_set(first, int_bit[0])
  BY <1>1, <1>2, UnsetUnsets, Zenon
<1>4. second \in Byte /\ ~is_set(second, int_bit[1])
  BY <1>1, <1>3, UnsetUnsets, Zenon
<1>5. ~is_set(second, int_bit[0])
  BY <1>1, <1>3, UnsetKeeps, Zenon
<1>6. MaskedConf = unset(second, translation)
  BY Zenon DEF MaskedConf
<1>7. ~is_set(MaskedConf, translation)
  BY <1>1, <1>4, <1>6, UnsetUnsets, Zenon
<1>8. ~is_set(MaskedConf, int_bit[0]) /\ ~is_set(MaskedConf, int_bit[1])
  BY <1>1, <1>4, <1>5, <1>6, UnsetKeeps, Zenon
<1>9. ASSUME NEW l \in Lines
      PROVE  is_set(MaskedConf, clock_bit[l]) <=> is_set(conf, clock_bit[l])
  <2>1. /\ clock_bit[l] \in BitSet /\ clock_bit[l] # int_bit[0]
        /\ clock_bit[l] # int_bit[1] /\ clock_bit[l] # translation
    BY BitsAreBits, Zenon DEF Lines
  <2>2. is_set(first, clock_bit[l]) <=> is_set(conf, clock_bit[l])
    BY <1>1, <1>2, <2>1, UnsetKeeps, Zenon
  <2>3. is_set(second, clock_bit[l]) <=> is_set(first, clock_bit[l])
    BY <1>1, <1>3, <2>1, UnsetKeeps, Zenon
  <2>4. is_set(MaskedConf, clock_bit[l]) <=> is_set(second, clock_bit[l])
    BY <1>1, <1>4, <1>6, <2>1, UnsetKeeps, Zenon
  <2>. QED BY <2>2, <2>3, <2>4, Zenon
<1>. QED BY <1>7, <1>8, <1>9, Zenon DEF Masked, ClocksOff, Lines

\* The steps up to the self-test keep the invariant.
LEMMA SetupSteps ==
  ASSUME IInv, TypeOK', Undisturbed, Undisturbed',
         disable_lines \/ first_conf \/ mask_interrupts \/ do_selftest \/ selftest_done
  PROVE  HwInv(hw', presses') /\ Stage'
<1>1. /\ TypeOK /\ HwInv(hw, presses) /\ Stage /\ quiet'
      /\ hw \in HwType /\ hw.conf \in Byte /\ line \in Lines
  BY Zenon DEF IInv, TypeOK, HwType, Undisturbed
<1>. USE DEF Goto, CallClean, CallConf, CallReceive
<1>2. CASE disable_lines
  <2>1. Write({WithConf(hw, set(hw.conf, clock_bit[line]))}) /\ UNCHANGED presses
    BY <1>2, Zenon DEF disable_lines, disable_line, WithConf
  <2>2. set(hw.conf, clock_bit[line]) \in Byte
    BY <1>1, ClockBits, Zenon
  <2>3. /\ HwInv(hw', presses')
        /\ hw'.conf = set(hw.conf, clock_bit[line])
        /\ hw'.scanning = hw.scanning /\ hw'.redirect = hw.redirect
        /\ hw'.late = hw.late
    BY <1>1, <2>1, <2>2, ConfWritten, Zenon
  <2>4. /\ pc = "disable" /\ active' = active
        /\ \/ line = 0 /\ line' = 1 /\ pc' = "disable"
           \/ line = 1 /\ line' = 0 /\ pc' = "clean" /\ ret' = "first_conf"
    BY <1>2, Zenon DEF disable_lines, NextLine, LastLine
  <2>5. Untouched /\ NoneLate(hw) /\ (line = 1 => is_set(hw.conf, clock_bit[0]))
    BY <1>1, <2>4, Zenon DEF Stage, Disabling
  <2>6. Untouched' /\ NoneLate(hw') /\ active' = {}
    BY <2>3, <2>4, <2>5, Zenon DEF Untouched, NoneLate
  <2>7. is_set(hw'.conf, clock_bit[0]) /\ (line = 1 => ClocksOff(hw'.conf))
    BY <1>1, <2>3, <2>5, ClockBits DEF ClocksOff, Lines
  <2>. QED
    BY <2>3, <2>4, <2>6, <2>7, Zenon DEF Stage, Disabling, Testing, ProbingLines, Ending, In
<1>3. CASE first_conf
  <2>1. /\ pc = "first_conf" /\ pc' = "read_cb" /\ ret' = "mask"
        /\ UNCHANGED <<hw, line, active, presses>>
    BY <1>3, Zenon DEF first_conf
  <2>2. Untouched /\ line = 0 /\ ClocksOff(hw.conf) /\ NoAnswers(hw) /\ active = {}
    BY <1>1, <2>1, Zenon DEF Stage, Disabling, Untouched
  <2>3. Untouched'
    BY <2>1, <2>2, Zenon DEF Untouched
  <2>. QED
    BY <1>1, <2>1, <2>2, <2>3, Zenon DEF Stage, Disabling, Testing, ProbingLines, Ending, In
<1>4. CASE mask_interrupts
  <2>1. /\ pc = "mask" /\ pc' = "selftest" /\ Write({WithConf(hw, MaskedConf)})
        /\ UNCHANGED <<line, active, presses>>
    BY <1>4, Zenon DEF mask_interrupts, write_cb, WithConf
  <2>2. Untouched /\ line = 0 /\ ClocksOff(hw.conf) /\ NoAnswers(hw) /\ conf = hw.conf
    BY <1>1, <2>1, Zenon DEF Stage, Disabling
  <2>3. /\ HwInv(hw', presses')
        /\ hw'.conf = MaskedConf
        /\ hw'.scanning = hw.scanning /\ hw'.redirect = hw.redirect
        /\ hw'.late = hw.late /\ hw'.out = hw.out
    BY <1>1, <2>1, MaskedConfType, ConfWritten, Zenon
  <2>4. Masked(hw'.conf) /\ ClocksOff(hw'.conf)
    BY <1>1, <2>2, <2>3, MaskedConfMasks, Zenon
  <2>5. Untouched' /\ NoAnswers(hw') /\ active' = {}
    BY <2>1, <2>2, <2>3, Zenon DEF Untouched, NoAnswers, NoneLate
  <2>. QED
    BY <2>1, <2>2, <2>3, <2>4, <2>5, Zenon
    DEF Stage, Disabling, Testing, ProbingLines, Ending, In
<1>5. CASE do_selftest
  <2>1. /\ pc = "selftest" /\ pc' = "receive" /\ ret' = "selftest_done"
        /\ Write(Answer(hw, 0, <<hw.selftest>>))
        /\ UNCHANGED <<line, active, presses>>
    BY <1>5, Zenon DEF do_selftest, self_test
  <2>2. Untouched /\ line = 0 /\ Masked(hw.conf) /\ ClocksOff(hw.conf) /\ NoAnswers(hw)
    BY <1>1, <2>1, Zenon DEF Stage, Testing
  <2>3. hw.selftest \in Byte
    BY <1>1 DEF HwType, Byte, self_test_ok, self_test_fail
  <2>4. /\ HwInv(hw', presses')
        /\ hw'.conf = hw.conf /\ hw'.scanning = hw.scanning
        /\ hw'.selftest = hw.selftest /\ hw'.redirect = hw.redirect
        /\ Expects(hw', 0, <<hw.selftest>>)
    BY <1>1, <2>1, <2>2, <2>3, ChipAsked, Zenon
  <2>5. Untouched' /\ active' = {}
    BY <2>1, <2>2, <2>4, Zenon DEF Untouched
  <2>. QED
    BY <2>1, <2>2, <2>4, <2>5, Zenon
    DEF Stage, Disabling, Testing, ProbingLines, Ending, In
<1>6. CASE selftest_done
  <2>1. /\ pc = "selftest_done" /\ UNCHANGED <<hw, line, active, presses>>
        /\ pc' = IF reply = self_test_ok THEN "enable_second" ELSE "panic"
    BY <1>6, Zenon DEF selftest_done
  <2>2. /\ Untouched /\ line = 0 /\ Masked(hw.conf) /\ ClocksOff(hw.conf)
        /\ NoAnswers(hw) /\ reply = hw.selftest
    BY <1>1, <2>1, Zenon DEF Stage, Testing
  <2>3. Untouched' /\ active' = {}
    BY <2>1, <2>2, Zenon DEF Untouched
  <2>. QED
    BY <1>1, <2>1, <2>2, <2>3, Zenon
    DEF Stage, Disabling, Testing, ProbingLines, Ending, In
<1>. QED BY <1>2, <1>3, <1>4, <1>5, <1>6, Zenon

\* The steps that look for and test the lines keep the invariant.
LEMMA TestSteps ==
  ASSUME IInv, TypeOK', Undisturbed, Undisturbed',
         enable_second \/ disable_second \/ test_lines \/ tested
  PROVE  HwInv(hw', presses') /\ Stage'
<1>1. /\ TypeOK /\ HwInv(hw, presses) /\ Stage /\ quiet'
      /\ hw \in HwType /\ hw.conf \in Byte /\ line \in Lines
  BY Zenon DEF IInv, TypeOK, HwType, Undisturbed
<1>2. 1 \in Lines
  BY Zenon DEF Lines
<1>. USE DEF Goto, CallClean, CallConf, CallReceive
<1>3. CASE enable_second
  <2>1. /\ pc = "enable_second" /\ pc' = "read_cb" /\ ret' = "disable_second"
        /\ Write(enable_line(1)) /\ UNCHANGED <<line, active, presses>>
    BY <1>3, Zenon DEF enable_second
  <2>2. Untouched /\ line = 0 /\ Masked(hw.conf) /\ NoAnswers(hw)
    BY <1>1, <2>1, Zenon DEF Stage, Testing
  <2>3. /\ HwInv(hw', presses')
        /\ hw'.conf = unset(hw.conf, clock_bit[1])
        /\ hw'.scanning = hw.scanning /\ hw'.redirect = hw.redirect
        /\ presses = 0 /\ NoAnswers(hw) => NoAnswers(hw')
    BY <1>1, <1>2, <2>1, EnableWritten, Zenon
  <2>4. Masked(hw'.conf)
    BY <1>1, <1>2, <2>2, <2>3, ClockBits
  <2>5. Untouched' /\ active' = {}
    BY <2>1, <2>2, <2>3, Zenon DEF Untouched
  <2>. QED
    BY <2>1, <2>2, <2>3, <2>4, <2>5, Zenon
    DEF Stage, Disabling, Testing, ProbingLines, Ending, In
<1>4. CASE disable_second
  <2>1. /\ pc = "disable_second" /\ pc' = "test"
        /\ Write({WithConf(hw, set(hw.conf, clock_bit[1]))})
        /\ UNCHANGED <<line, active, presses>>
    BY <1>4, Zenon DEF disable_second, disable_line, WithConf
  <2>2. Untouched /\ Masked(hw.conf) /\ (presses = 0 => NoAnswers(hw))
    BY <1>1, <2>1, Zenon DEF Stage, Testing
  <2>3. set(hw.conf, clock_bit[1]) \in Byte
    BY <1>1, <1>2, ClockBits, Zenon
  <2>4. /\ HwInv(hw', presses')
        /\ hw'.conf = set(hw.conf, clock_bit[1])
        /\ hw'.scanning = hw.scanning /\ hw'.redirect = hw.redirect
        /\ hw'.late = hw.late /\ hw'.out = hw.out
    BY <1>1, <2>1, <2>3, ConfWritten, Zenon
  <2>5. Masked(hw'.conf)
    BY <1>1, <1>2, <2>2, <2>4, ClockBits
  <2>6. Untouched' /\ active' = {} /\ (NoAnswers(hw) => NoAnswers(hw'))
    BY <2>1, <2>2, <2>4, Zenon DEF Untouched, NoAnswers, NoneLate
  <2>. QED
    BY <2>1, <2>2, <2>4, <2>5, <2>6, Zenon
    DEF Stage, Disabling, Testing, ProbingLines, Ending, In
<1>5. CASE test_lines
  <2>1. /\ pc = "test" /\ pc' = "receive" /\ ret' = "tested"
        /\ Write(Answer(hw, 0, <<port_test_ok>>))
        /\ UNCHANGED <<line, active, presses>>
    BY <1>5, Zenon DEF test_lines, test_line
  <2>2. Untouched /\ Masked(hw.conf) /\ (presses = 0 => NoAnswers(hw))
    BY <1>1, <2>1, Zenon DEF Stage, Testing
  <2>3. port_test_ok \in Byte
    BY DEF Byte, port_test_ok
  <2>4. /\ HwInv(hw', presses')
        /\ hw'.conf = hw.conf /\ hw'.scanning = hw.scanning
        /\ hw'.redirect = hw.redirect
        /\ NoAnswers(hw) => Expects(hw', 0, <<port_test_ok>>)
    BY <1>1, <2>1, <2>3, ChipAsked, Zenon
  <2>5. Untouched' /\ active' = {}
    BY <2>1, <2>2, <2>4, ZenonT(30) DEF Untouched
  <2>. QED
    BY <2>1, <2>2, <2>4, <2>5, Zenon
    DEF Stage, Disabling, Testing, ProbingLines, Ending, In
<1>6. CASE tested
  <2>1. /\ pc = "tested" /\ UNCHANGED <<hw, active, presses>>
        /\ \/ pc' = "test"
           \/ pc' = "enable" /\ line' = 0
    BY <1>6, Zenon DEF tested, LastLine
  <2>2. Untouched /\ Masked(hw.conf) /\ (presses = 0 => NoAnswers(hw))
    BY <1>1, <2>1, Zenon DEF Stage, Testing
  <2>3. Untouched' /\ active' = {}
    BY <2>1, <2>2, Zenon DEF Untouched
  <2>4. pc' \in {"test", "enable"} /\ (pc' = "enable" => line' = 0)
    BY <2>1
  <2>5. Disabling' /\ ProbingLines' /\ Ending'
    BY <2>3, <2>4, SMTT(30) DEF Disabling, ProbingLines, Ending, In
  <2>6. Testing'
    BY <2>1, <2>2, <2>3, <2>4, SMTT(30) DEF Testing, In
  <2>. QED BY <1>1, <2>1, <2>5, <2>6, Zenon DEF Stage
<1>. QED BY <1>3, <1>4, <1>5, <1>6, Zenon

\* Enabling the lines keeps the invariant.
LEMMA EnableStep ==
  ASSUME IInv, TypeOK', Undisturbed, Undisturbed', enable_lines
  PROVE  HwInv(hw', presses') /\ Stage'
<1>1. /\ TypeOK /\ HwInv(hw, presses) /\ Stage /\ quiet'
      /\ hw \in HwType /\ hw.conf \in Byte /\ line \in Lines
  BY Zenon DEF IInv, TypeOK, HwType, Undisturbed
<1>2. /\ pc = "enable" /\ Write(enable_line(line)) /\ UNCHANGED <<active, presses>>
      /\ \/ line = 0 /\ line' = 1 /\ pc' = "enable"
         \/ line = 1 /\ line' = 0 /\ pc' = "clean" /\ ret' = "disable_scan"
  BY Zenon DEF enable_lines, NextLine, LastLine, CallClean
<1>3. /\ Untouched /\ Masked(hw.conf) /\ (presses = 0 => NoAnswers(hw))
      /\ line = 1 => ~is_set(hw.conf, clock_bit[0])
  BY <1>1, <1>2, Zenon DEF Stage, Testing
<1>4. /\ HwInv(hw', presses')
      /\ hw'.conf = unset(hw.conf, clock_bit[line])
      /\ hw'.scanning = hw.scanning /\ hw'.redirect = hw.redirect
      /\ presses = 0 /\ NoAnswers(hw) => NoAnswers(hw')
  BY <1>1, <1>2, EnableWritten, Zenon
<1>5. Masked(hw'.conf)
  BY <1>1, <1>3, <1>4, ClockBits
<1>6. ~is_set(hw'.conf, clock_bit[0]) /\ (line = 1 => ClocksOn(hw'.conf))
  BY <1>1, <1>3, <1>4, ClockBits DEF ClocksOn, Lines
<1>7. Untouched' /\ active' = {} /\ hw'.redirect = FALSE
  BY <1>2, <1>3, <1>4, Zenon DEF Untouched
<1>8. CASE line' = 1
  <2>1. pc' = "enable"
    BY <1>2, <1>8
  <2>2. Disabling' /\ ProbingLines' /\ Ending'
    BY <1>7, <2>1, SMTT(30) DEF Disabling, ProbingLines, Ending, In
  <2>3. Testing'
    BY <1>2, <1>3, <1>4, <1>5, <1>6, <1>7, <2>1, SMTT(30) DEF Testing, In
  <2>. QED BY <1>4, <2>2, <2>3, Zenon DEF Stage
<1>9. CASE line' = 0
  <2>1. Probing'
    BY <1>2, <1>5, <1>6, <1>7, <1>9 DEF Probing, Keyboards, Lines
  <2>2. pc' = "clean" /\ ret' = "disable_scan"
    BY <1>2, <1>9
  <2>3. Disabling' /\ Testing' /\ Ending'
    BY <1>7, <2>2, SMTT(30) DEF Disabling, Testing, Ending, In
  <2>4. ProbingLines'
    BY <1>2, <1>3, <1>4, <1>7, <2>1, <2>2, SMTT(30) DEF ProbingLines, In
  <2>. QED BY <1>4, <2>3, <2>4, Zenon DEF Stage
<1>. QED BY <1>2, <1>8, <1>9, Zenon

-----------------------------------------------------------------------------
(* The steps of probe_devices().                                           *)

\* A line is done: the next one is cleaned and probed, or all are done.
LEMMA ProbedStep ==
  ASSUME IInv, Undisturbed, Probing, hw.redirect = FALSE, NoAnswers(hw),
         UNCHANGED <<device, hw, presses>>,
         active' = IF device[line] = "keyboard" THEN active \cup {line} ELSE active \ {line},
         device[line] = "keyboard" => hw.scanning[line],
         \/ line = 0 /\ line' = 1 /\ pc' = "clean" /\ ret' = "disable_scan"
         \/ line = 1 /\ line' = 0 /\ pc' = "read_cb" /\ ret' = "finish"
  PROVE  HwInv(hw', presses') /\ Stage'
<1>1. HwInv(hw, presses)
  BY Zenon DEF IInv
<1>2. \A l \in active' : hw.scanning[l] /\ ~is_set(hw.conf, int_bit[l])
  <2>1. active \subseteq Lines /\ line \in Lines
    BY Zenon DEF Probing, Keyboards, Lines
  <2>2. active' \subseteq Lines
    BY <2>1, Zenon
  <2>3. \A l \in active' : hw.scanning[l]
    BY ZenonT(30) DEF Probing
  <2>. QED BY <2>2, <2>3, Zenon DEF Probing, Masked
<1>3. CASE line = 0
  <2>1. active' = {l \in Keyboards : l < 1}
    BY <1>3 DEF Probing, Keyboards, Lines
  <2>2. Probing'
    BY <1>2, <1>3, <2>1, ZenonT(30) DEF Probing, Keyboards
  <2>3. hw'.redirect = FALSE
    BY Zenon
  <2>4. pc' = "clean" /\ ret' = "disable_scan"
    BY <1>3
  <2>5. Disabling' /\ Testing' /\ Ending'
    BY <1>2, <2>4, SMTT(30) DEF Disabling, Testing, Ending, In
  <2>6. ProbingLines'
    BY <2>2, <2>3, <2>4, SMTT(30) DEF ProbingLines, In
  <2>. QED BY <1>1, <2>5, <2>6, Zenon DEF Stage
<1>4. CASE line = 1
  <2>1. active' = Keyboards
    BY <1>4 DEF Probing, Keyboards, Lines
  <2>2. Finishing'
    BY <1>2, <2>1, Zenon DEF Finishing, Keyboards
  <2>3. Masked(hw'.conf) /\ ClocksOn(hw'.conf) /\ NoAnswers(hw')
    BY Zenon DEF Probing
  <2>4. pc' = "read_cb" /\ ret' = "finish" /\ line' = 0
    BY <1>4
  <2>5. Disabling' /\ Testing' /\ ProbingLines'
    BY <2>4, SMTT(30) DEF Disabling, Testing, ProbingLines, In
  <2>6. Ending'
    BY <1>2, <2>2, <2>3, <2>4, SMTT(30) DEF Ending, In
  <2>. QED BY <1>1, <2>5, <2>6, Zenon DEF Stage
<1>. QED BY <1>3, <1>4, Zenon

\* The three identifications, and which of them match.
LEMMA Identifications ==
  /\ IdOf("keyboard") = <<171, 131>>
  /\ IdOf("terminal") = <<171, 65>>
  /\ IdOf("mouse") = <<0>>
  /\ this_dev_id = <<171, 131>>
  /\ IdFrom("keyboard", 3) = <<>> /\ IdFrom("terminal", 3) = <<>>
  /\ IdFrom("mouse", 2) = <<>>
<1>1. /\ IdOf("keyboard") = <<171, 131>> /\ IdOf("terminal") = <<171, 65>>
      /\ IdOf("mouse") = <<0>> /\ this_dev_id = <<171, 131>>
  BY Zenon DEF IdOf, this_dev_id
<1>2. SubSeq(<<171, 131>>, 3, 2) = <<>> /\ SubSeq(<<171, 65>>, 3, 2) = <<>>
  OBVIOUS
<1>3. SubSeq(<<0>>, 2, 1) = <<>>
  OBVIOUS
<1>. QED BY <1>1, <1>2, <1>3, Zenon DEF IdFrom

\* What may be attached to a line.
LEMMA KindsOfDevices ==
  ASSUME TypeOK
  PROVE  \A l \in Lines : device[l] \in {"keyboard", "terminal", "mouse", "none"}
BY PS2Assumption, Zenon DEF TypeOK

\* The steps of the probe between its calls keep the invariant.
LEMMA ProbeSteps ==
  ASSUME IInv, TypeOK', Undisturbed, Undisturbed',
         probe_begins \/ probe_disabled \/ probe_identified \/ probe_ok
  PROVE  HwInv(hw', presses') /\ Stage'
<1>1. TypeOK /\ HwInv(hw, presses) /\ Stage /\ line \in Lines
  BY Zenon DEF IInv, TypeOK
<1>2. UNCHANGED <<device, hw, presses>>
  BY Zenon DEF probe_begins, probe_disabled, probe_identified, probe_ok
<1>3. Probing => \A l \in active : ~is_set(hw.conf, int_bit[l])
  BY Zenon DEF Probing, Keyboards, Masked
<1>. USE DEF Goto, CallClean, CallConf, CallReceive, CallSend
<1>4. CASE probe_begins
  <2>1. /\ pc = "disable_scan" /\ pc' = "send" /\ data' = "disable_scan"
        /\ ret' = "disabled" /\ UNCHANGED <<line, active>>
    BY <1>4, Zenon DEF probe_begins
  <2>2. Probing /\ hw.redirect = FALSE /\ NoAnswers(hw)
    BY <1>1, <2>1, Zenon DEF Stage, ProbingLines
  <2>3. Probing' /\ Sending' /\ hw'.redirect = FALSE
    BY <1>2, <2>1, <2>2, Zenon DEF Probing, Keyboards, Sending
  <2>. QED
    BY <1>1, <1>2, <1>3, <2>1, <2>2, <2>3, Zenon
    DEF Stage, Disabling, Testing, ProbingLines, Ending, In
<1>5. CASE probe_disabled
  <2>1. pc = "disabled"
    BY <1>5, Zenon DEF probe_disabled
  <2>2. /\ Probing /\ hw.redirect = FALSE /\ NoAnswers(hw)
        /\ reply = IF device[line] = "none" THEN NoReply ELSE ps2_keyboard_ack
    BY <1>1, <2>1, Zenon DEF Stage, ProbingLines
  <2>3. reply = ps2_keyboard_ack <=> device[line] # "none"
    BY <2>2 DEF NoReply, ps2_keyboard_ack
  <2>4. CASE device[line] # "none"
    <3>1. /\ pc' = "send" /\ data' = "identify" /\ ret' = "identified"
          /\ UNCHANGED <<line, active>>
      BY <1>5, <2>3, <2>4, Zenon DEF probe_disabled
    <3>2. Probing' /\ Sending' /\ hw'.redirect = FALSE
      BY <1>2, <2>2, <2>4, <3>1, Zenon DEF Probing, Keyboards, Sending
    <3>. QED
      BY <1>1, <1>2, <1>3, <2>2, <3>1, <3>2, Zenon
      DEF Stage, Disabling, Testing, ProbingLines, Ending, In
  <2>5. CASE device[line] = "none"
    <3>1. /\ active' = active \ {line}
          /\ \/ line = 0 /\ line' = 1 /\ pc' = "clean" /\ ret' = "disable_scan"
             \/ line = 1 /\ line' = 0 /\ pc' = "read_cb" /\ ret' = "finish"
      BY <1>1, <1>5, <2>3, <2>5, Zenon DEF probe_disabled, Probed, Lines
    <3>. QED BY <1>2, <2>2, <2>5, <3>1, ProbedStep, Zenon
  <2>. QED BY <2>4, <2>5, Zenon
<1>6. CASE probe_identified
  <2>1. pc = "identified"
    BY <1>6, Zenon DEF probe_identified
  <2>2. /\ Probing /\ hw.redirect = FALSE /\ device[line] # "none"
        /\ reply = ps2_keyboard_ack /\ Expects(hw, line, IdOf(device[line]))
    BY <1>1, <2>1, Zenon DEF Stage, ProbingLines
  <2>3. /\ pc' = "receive" /\ ret' = "id" /\ id_count' = 0 /\ UNCHANGED <<line, active>>
    BY <1>6, <2>2, Zenon DEF probe_identified
  <2>4. IdFrom(device[line], 1) = IdOf(device[line])
    <3>1. IdOf(device[line]) \in Seq(Byte)
      BY <1>1, <2>2, KindsOfDevices, AnswersAreBytes, ZenonT(30)
    <3>. QED BY <3>1 DEF IdFrom
  <2>5. Probing' /\ Identifying' /\ hw'.redirect = FALSE
    BY <1>2, <2>2, <2>3 DEF Probing, Keyboards, Identifying
  <2>6. id_count' + 1 = 1
    BY <2>3
  <2>7. Expects(hw', line', IdFrom(device[line]', id_count' + 1))
    BY <1>2, <2>2, <2>3, <2>4, <2>6, Zenon
  <2>. QED
    BY <1>1, <1>2, <1>3, <2>2, <2>3, <2>5, <2>7, Zenon
    DEF Stage, Disabling, Testing, ProbingLines, Ending, In
<1>7. CASE probe_ok
  <2>1. pc = "enabled"
    BY <1>7, Zenon DEF probe_ok
  <2>2. /\ Probing /\ hw.redirect = FALSE /\ NoAnswers(hw)
        /\ device[line] = "keyboard" /\ hw.scanning[line]
    BY <1>1, <2>1, Zenon DEF Stage, ProbingLines
  <2>3. /\ active' = active \cup {line}
        /\ \/ line = 0 /\ line' = 1 /\ pc' = "clean" /\ ret' = "disable_scan"
           \/ line = 1 /\ line' = 0 /\ pc' = "read_cb" /\ ret' = "finish"
    BY <1>1, <1>7, Zenon DEF probe_ok, Probed, Lines
  <2>. QED BY <1>2, <2>2, <2>3, ProbedStep, Zenon
<1>. QED BY <1>4, <1>5, <1>6, <1>7, Zenon

\* A byte of the identification is compared.
LEMMA ProbeIdStep ==
  ASSUME IInv, TypeOK', Undisturbed, Undisturbed', probe_id
  PROVE  HwInv(hw', presses') /\ Stage'
<1>1. TypeOK /\ HwInv(hw, presses) /\ Stage /\ line \in Lines /\ hw \in HwType
  BY Zenon DEF IInv, TypeOK
<1>2. pc = "id" /\ UNCHANGED <<device, hw, presses>>
  BY Zenon DEF probe_id
<1>3. /\ Probing /\ hw.redirect = FALSE /\ Identifying
      /\ reply = IdOf(device[line])[id_count + 1]
      /\ Expects(hw, line, IdFrom(device[line], id_count + 2))
  BY <1>1, <1>2, Zenon DEF Stage, ProbingLines
<1>4. Probing => \A l \in active : ~is_set(hw.conf, int_bit[l])
  BY Zenon DEF Probing, Keyboards, Masked
<1>5. /\ device[line] \in {"keyboard", "terminal", "mouse"}
      /\ id_count \in {0, 1}
      /\ id_count = 1 => device[line] \in {"keyboard", "terminal"}
  BY <1>1, <1>3, KindsOfDevices, Zenon DEF Identifying
<1>6. /\ Len(this_dev_id) = 2 /\ this_dev_id[1] = 171 /\ this_dev_id[2] = 131
  BY Zenon DEF this_dev_id
<1>7. /\ id_count = 0 => (IdMatches <=> device[line] \in {"keyboard", "terminal"})
      /\ id_count = 1 => (IdMatches <=> device[line] = "keyboard")
  <2>1. CASE device[line] = "keyboard"
    BY <1>3, <1>5, <1>6, <2>1, Identifications, Zenon DEF IdMatches
  <2>2. CASE device[line] = "terminal"
    <3>1. IdOf(device[line])[1] = 171 /\ IdOf(device[line])[2] = 65
      BY <2>2, Identifications
    <3>. QED BY <1>3, <1>5, <1>6, <2>2, <3>1 DEF IdMatches
  <2>3. CASE device[line] = "mouse"
    <3>1. IdOf(device[line])[1] = 0
      BY <2>3, Identifications
    <3>. QED BY <1>3, <1>5, <1>6, <2>3, <3>1 DEF IdMatches
  <2>. QED BY <1>5, <2>1, <2>2, <2>3, Zenon
<1>8. ASSUME id_count = 1 \/ device[line] = "mouse"
      PROVE  NoAnswers(hw)
  <2>1. IdFrom(device[line], id_count + 2) = <<>>
    <3>1. CASE id_count = 1
      <4>1. id_count + 2 = 3
        BY <3>1
      <4>. QED BY <1>5, <3>1, <4>1, Identifications, Zenon
    <3>2. CASE id_count = 0
      <4>1. id_count + 2 = 2
        BY <3>2
      <4>. QED BY <1>8, <3>2, <4>1, Identifications
    <3>. QED BY <1>5, <3>1, <3>2, Zenon
  <2>. QED BY <1>1, <1>3, <2>1, ExpectsNothing, Zenon
<1>. USE DEF Goto, CallClean, CallConf, CallReceive, CallSend
<1>9. CASE IdMatches /\ id_count = 0
  <2>1. /\ pc' = "receive" /\ ret' = "id" /\ id_count' = 1 /\ UNCHANGED <<line, active>>
    BY <1>6, <1>9 DEF probe_id
  <2>2. Probing' /\ Identifying' /\ hw'.redirect = FALSE
    BY <1>2, <1>3, <1>7, <1>9, <2>1, Zenon DEF Probing, Keyboards, Identifying
  <2>3. id_count' + 1 = id_count + 2
    BY <1>9, <2>1
  <2>4. Expects(hw', line', IdFrom(device[line]', id_count' + 1))
    BY <1>2, <1>3, <2>1, <2>3, Zenon
  <2>. QED
    BY <1>1, <1>2, <1>3, <1>4, <2>1, <2>2, <2>4, Zenon
    DEF Stage, Disabling, Testing, ProbingLines, Ending, In
<1>10. CASE IdMatches /\ id_count = 1
  <2>1. /\ pc' = "send" /\ data' = "enable_scan" /\ ret' = "enabled"
        /\ UNCHANGED <<line, active>>
    BY <1>6, <1>10 DEF probe_id
  <2>2. device[line] = "keyboard" /\ NoAnswers(hw)
    BY <1>7, <1>8, <1>10, Zenon
  <2>3. Probing' /\ Sending' /\ hw'.redirect = FALSE
    BY <1>2, <1>3, <2>1, <2>2, Zenon DEF Probing, Keyboards, Sending
  <2>. QED
    BY <1>1, <1>2, <1>3, <1>4, <2>1, <2>2, <2>3, ZenonT(30)
    DEF Stage, Disabling, Testing, ProbingLines, Ending, In
<1>11. CASE ~IdMatches
  <2>1. /\ active' = active \ {line}
        /\ \/ line = 0 /\ line' = 1 /\ pc' = "clean" /\ ret' = "disable_scan"
           \/ line = 1 /\ line' = 0 /\ pc' = "read_cb" /\ ret' = "finish"
    BY <1>1, <1>11, Zenon DEF probe_id, Probed, Lines
  <2>2. device[line] # "keyboard" /\ NoAnswers(hw)
    BY <1>5, <1>7, <1>8, <1>11, Zenon
  <2>. QED BY <1>2, <1>3, <2>1, <2>2, ProbedStep, Zenon
<1>. QED BY <1>5, <1>9, <1>10, <1>11, Zenon

-----------------------------------------------------------------------------
(* The end of initialize_controller().                                     *)

\* The interrupt of a line is switched on; no other bit changes.
LEMMA InterruptBits ==
  ASSUME NEW cb \in Byte, NEW l \in Lines
  PROVE  /\ is_set(set(cb, int_bit[l]), int_bit[l])
         /\ \A m \in Lines \ {l} :
              is_set(set(cb, int_bit[l]), int_bit[m]) <=> is_set(cb, int_bit[m])
         /\ \A m \in Lines :
              is_set(set(cb, int_bit[l]), clock_bit[m]) <=> is_set(cb, clock_bit[m])
         /\ is_set(set(cb, int_bit[l]), translation) <=> is_set(cb, translation)
<1>1. int_bit[l] \in BitSet
  BY BitsAreBits, Zenon
<1>2. ASSUME NEW b \in BitSet, b # int_bit[l]
      PROVE  is_set(set(cb, int_bit[l]), b) <=> is_set(cb, b)
  BY <1>1, <1>2, SetKeeps, Zenon
<1>3. \A m \in Lines \ {l} : int_bit[m] \in BitSet /\ int_bit[m] # int_bit[l]
  BY BitsAreBits, Zenon DEF int_bit, Lines
<1>4. \A m \in Lines : clock_bit[m] \in BitSet /\ clock_bit[m] # int_bit[l]
  BY BitsAreBits, Zenon
<1>5. translation \in BitSet /\ translation # int_bit[l]
  BY BitsAreBits, Zenon
<1>. QED BY <1>1, <1>2, <1>3, <1>4, <1>5, SetSets, Zenon

\* The local copy of the configuration is completed line by line, and written.
LEMMA EndSteps ==
  ASSUME IInv, TypeOK', Undisturbed, Undisturbed', setup_line \/ write_conf
  PROVE  HwInv(hw', presses') /\ Stage'
<1>1. /\ TypeOK /\ HwInv(hw, presses) /\ Stage /\ quiet'
      /\ hw \in HwType /\ hw.conf \in Byte /\ line \in Lines /\ conf \in Byte
  BY Zenon DEF IInv, TypeOK, HwType, Undisturbed
<1>2. CASE setup_line
  <2>1. /\ pc = "finish" /\ UNCHANGED <<device, active, presses>>
        /\ \/ line = 0 /\ line' = 1 /\ pc' = "finish"
           \/ line = 1 /\ line' = 0 /\ pc' = "write_conf"
    BY <1>2, Zenon DEF setup_line, NextLine, LastLine, Goto
  <2>2. Finishing /\ Masked(hw.conf) /\ Configured(conf, {l \in Lines : l < line})
    BY <1>1, <2>1, Zenon DEF Stage, Ending
  <2>3. active \subseteq Lines
    BY <2>2, Zenon DEF Finishing, Keyboards
  <2>4. /\ HwInv(hw', presses') /\ Masked(hw'.conf) /\ hw'.scanning = hw.scanning
        /\ Configured(conf', {l \in Lines : l <= line})
    <3>1. CASE line \in active
      <4>1. hw' = hw /\ conf' = set(conf, int_bit[line])
        BY <1>2, <3>1, Zenon DEF setup_line
      <4>2. \A l \in Lines :
              is_set(conf', int_bit[l]) <=> l \in active /\ l <= line
        BY <1>1, <2>2, <3>1, <4>1, InterruptBits DEF Configured, Lines
      <4>3. ~is_set(conf', translation)
        BY <1>1, <2>2, <4>1, InterruptBits, Zenon DEF Configured
      <4>4. \A l \in active : ~is_set(conf', clock_bit[l])
        BY <1>1, <2>2, <2>3, <4>1, InterruptBits, Zenon DEF Configured
      <4>5. Configured(conf', {l \in Lines : l <= line})
        BY <4>2, <4>3, <4>4, Zenon DEF Configured
      <4>. QED BY <1>1, <2>1, <2>2, <4>1, <4>5, Zenon
    <3>2. CASE line \notin active
      <4>1. Write({WithConf(hw, set(hw.conf, clock_bit[line]))}) /\ conf' = conf
        BY <1>2, <3>2, Zenon DEF setup_line, disable_line, WithConf
      <4>2. set(hw.conf, clock_bit[line]) \in Byte
        BY <1>1, ClockBits, Zenon
      <4>3. /\ HwInv(hw', presses') /\ hw'.conf = set(hw.conf, clock_bit[line])
            /\ hw'.scanning = hw.scanning
        BY <1>1, <2>1, <4>1, <4>2, ConfWritten, Zenon
      <4>4. Masked(hw'.conf)
        BY <1>1, <2>2, <4>3, ClockBits
      <4>5. \A l \in Lines :
              is_set(conf, int_bit[l]) <=> l \in active /\ l <= line
        BY <1>1, <2>2, <3>2 DEF Configured, Lines
      <4>6. Configured(conf', {l \in Lines : l <= line})
        BY <2>2, <4>1, <4>5, Zenon DEF Configured
      <4>. QED BY <4>3, <4>4, <4>6, Zenon
    <3>. QED BY <3>1, <3>2, Zenon
  <2>5. Finishing'
    BY <2>1, <2>2, <2>4, Zenon DEF Finishing, Keyboards
  <2>6. \A l \in active' : ~is_set(hw'.conf, int_bit[l])
    BY <2>1, <2>3, <2>4, ZenonT(30) DEF Masked
  <2>7. CASE line = 0
    <3>1. {l \in Lines : l <= line} = {l \in Lines : l < line'}
      BY <2>1, <2>7 DEF Lines
    <3>2. Configured(conf, {l \in Lines : l < line})'
      BY <2>1, <2>4, <3>1, ZenonT(30) DEF Configured
    <3>3. pc' = "finish"
      BY <2>1, <2>7
    <3>4. Disabling' /\ Testing' /\ ProbingLines'
      BY <3>3, SMTT(30) DEF Disabling, Testing, ProbingLines, In
    <3>5. Ending'
      BY <2>4, <2>5, <2>6, <3>2, <3>3, SMTT(30) DEF Ending, In
    <3>. QED BY <2>4, <3>4, <3>5, Zenon DEF Stage
  <2>8. CASE line = 1
    <3>1. {l \in Lines : l <= line} = Lines
      BY <2>8 DEF Lines
    <3>2. Configured(conf, Lines)'
      BY <2>1, <2>4, <3>1, Zenon DEF Configured
    <3>3. pc' = "write_conf"
      BY <2>1, <2>8
    <3>4. Disabling' /\ Testing' /\ ProbingLines'
      BY <3>3, SMTT(30) DEF Disabling, Testing, ProbingLines, In
    <3>5. Ending'
      BY <2>4, <2>5, <2>6, <3>2, <3>3, SMTT(30) DEF Ending, In
    <3>. QED BY <2>4, <3>4, <3>5, Zenon DEF Stage
  <2>. QED BY <2>1, <2>7, <2>8, Zenon
<1>3. CASE write_conf
  <2>1. /\ pc = "write_conf" /\ pc' = "initialized" /\ Write({WithConf(hw, conf)})
        /\ UNCHANGED <<device, active, presses>>
    BY <1>3, Zenon DEF write_conf, write_cb, WithConf, Goto
  <2>2. Finishing /\ Configured(conf, Lines)
    BY <1>1, <2>1, Zenon DEF Stage, Ending
  <2>3. /\ HwInv(hw', presses') /\ hw'.conf = conf /\ hw'.scanning = hw.scanning
    BY <1>1, <2>1, ConfWritten, Zenon
  <2>4. Finishing' /\ Configured(hw.conf, Lines)'
    BY <2>1, <2>2, <2>3, Zenon DEF Finishing, Configured, Keyboards
  <2>. QED
    BY <2>1, <2>3, <2>4, Zenon
    DEF Stage, Disabling, Testing, ProbingLines, Ending, In
<1>. QED BY <1>2, <1>3, Zenon

-----------------------------------------------------------------------------
(* The steps of clean_buffer() and conf().                                 *)

\* A sequence of one.
LEMMA OneByte ==
  ASSUME NEW S, NEW x \in S
  PROVE  <<x>> \in Seq(S) /\ Head(<<x>>) = x /\ Tail(<<x>>) = <<>>
OBVIOUS

\* The one expected byte is read, and there are no more.
LEMMA LastRead ==
  ASSUME NEW h \in HwType, h.out # <<>>,
         NEW l \in Lines, NEW byte \in Byte, Expects(h, l, <<byte>>)
  PROVE  Head(h.out)[1] = byte /\ NoAnswers(Taken(h))
<1>1. PICK bytes \in Seq(Byte) : bytes = <<byte>>
  BY OneByte, Zenon
<1>2. Head(bytes) = byte /\ Tail(bytes) = <<>>
  BY <1>1, OneByte, Zenon
<1>3. Expects(h, l, bytes)
  BY <1>1, Zenon
<1>4. Head(h.out)[1] = Head(bytes) /\ Expects(Taken(h), l, Tail(bytes))
  BY <1>3, ReadTakes, Zenon
<1>5. Head(h.out)[1] = byte /\ Expects(Taken(h), l, <<>>)
  BY <1>2, <1>4, Zenon
<1>6. Taken(h) \in HwType
  BY TakenType, Zenon
<1>. QED BY <1>5, <1>6, ExpectsNothing, Zenon

\* The buffer is empty when clean_buffer() returns, and nothing is in flight.
LEMMA CleanStep ==
  ASSUME IInv, TypeOK', Undisturbed, Undisturbed', clean_buffer
  PROVE  HwInv(hw', presses') /\ Stage'
<1>1. /\ TypeOK /\ HwInv(hw, presses) /\ Stage /\ hw \in HwType
      /\ pc = "clean" /\ ret \in {"first_conf", "disable_scan"}
  BY Zenon DEF IInv, TypeOK, Calls, clean_buffer
<1>2. UNCHANGED <<device, ret, line, active, presses>>
  BY Zenon DEF clean_buffer
<1>3. /\ hw'.conf = hw.conf /\ hw'.scanning = hw.scanning /\ hw'.redirect = hw.redirect
      /\ hw'.late = hw.late /\ hw'.held = hw.held /\ hw'.busy = hw.busy
      /\ hw'.faults = hw.faults
      /\ \/ hw.out # <<>> /\ pc' = "clean"
         \/ hw.out = <<>> /\ pc' = ret /\ hw'.out = hw.out
  <2>1. CASE hw.out # <<>>
    <3>1. hw' = Taken(hw) /\ pc' = "clean"
      BY <1>1, <2>1, Zenon DEF clean_buffer, Taken
    <3>. QED BY <1>1, <2>1, <3>1, TakenType, Zenon DEF Keeps
  <2>2. CASE hw.out = <<>>
    BY <2>2, Zenon DEF clean_buffer, Goto
  <2>. QED BY <2>1, <2>2, Zenon
<1>4. HwInv(hw', presses')
  BY <1>1, <1>2, <1>3, Zenon DEF HwInv, NoneLate
<1>5. \A l \in active' : ~is_set(hw'.conf, int_bit[l])
  BY <1>1, <1>2, <1>3, Zenon DEF Stage, Ending
<1>6. CASE ret = "first_conf"
  <2>1. Untouched /\ line = 0 /\ ClocksOff(hw.conf) /\ NoneLate(hw)
    BY <1>1, <1>6, Zenon DEF Stage, Disabling, In
  <2>2. Untouched' /\ NoneLate(hw')
    BY <1>2, <1>3, <2>1, Zenon DEF Untouched, NoneLate
  <2>3. hw.out = <<>> => NoAnswers(hw')
    BY <1>3, <2>2, Zenon DEF NoAnswers
  <2>. QED
    BY <1>2, <1>3, <1>4, <1>5, <1>6, <2>1, <2>2, <2>3, Zenon
    DEF Stage, Disabling, Testing, ProbingLines, Ending, In
<1>7. CASE ret = "disable_scan"
  <2>1. Probing /\ hw.redirect = FALSE /\ (presses = 0 => NoAnswers(hw))
    BY <1>1, <1>7, Zenon DEF Stage, ProbingLines, In
  <2>2. Probing' /\ hw'.redirect = FALSE
    BY <1>2, <1>3, <2>1, Zenon DEF Probing, Keyboards
  <2>3. hw.out = <<>> => NoAnswers(hw')
    BY <1>1, <1>3, <2>1, Zenon DEF NoAnswers, NoneLate, HwInv, Undisturbed
  <2>4. hw.out # <<>> => presses' # 0
    BY <1>2, <2>1, Zenon DEF NoAnswers
  <2>. QED
    BY <1>2, <1>3, <1>4, <1>5, <1>7, <2>2, <2>3, <2>4, ZenonT(30)
    DEF Stage, Disabling, Testing, ProbingLines, Ending, In
<1>. QED BY <1>1, <1>6, <1>7, Zenon

\* conf() gets the configuration byte.
LEMMA ConfSteps ==
  ASSUME IInv, TypeOK', Undisturbed, Undisturbed', conf_command \/ conf_receive
  PROVE  HwInv(hw', presses') /\ Stage'
<1>1. /\ TypeOK /\ HwInv(hw, presses) /\ Stage /\ quiet'
      /\ hw \in HwType /\ hw.conf \in Byte
  BY Zenon DEF IInv, TypeOK, HwType, Undisturbed
<1>2. pc \in {"read_cb", "read_conf"} /\ ret \in {"mask", "disable_second", "finish"}
  BY Zenon DEF IInv, Calls, conf_command, conf_receive
<1>3. UNCHANGED <<device, ret, line, active, presses>>
  BY Zenon DEF conf_command, conf_receive
<1>4. \A l \in active : ~is_set(hw.conf, int_bit[l])
  BY <1>1, <1>2, Zenon DEF Stage, Ending
<1>5. CASE conf_command
  <2>1. pc = "read_cb" /\ pc' = "read_conf" /\ Write(Answer(hw, 0, <<hw.conf>>))
    BY <1>5, Zenon DEF conf_command, read_cb, Goto
  <2>2. /\ HwInv(hw', presses')
        /\ hw'.conf = hw.conf /\ hw'.scanning = hw.scanning
        /\ hw'.redirect = hw.redirect
        /\ NoAnswers(hw) => Expects(hw', 0, <<hw'.conf>>)
    BY <1>1, <1>3, <2>1, ChipAsked, Zenon
  <2>3. CASE ret = "mask"
    <3>1. Untouched /\ line = 0 /\ ClocksOff(hw.conf) /\ NoAnswers(hw)
      BY <1>1, <2>1, <2>3, Zenon DEF Stage, Disabling, In
    <3>2. Untouched'
      BY <1>3, <2>2, <3>1, Zenon DEF Untouched
    <3>. QED
      BY <1>3, <1>4, <2>1, <2>2, <2>3, <3>1, <3>2, Zenon
      DEF Stage, Disabling, Testing, ProbingLines, Ending, In
  <2>4. CASE ret = "disable_second"
    <3>1. Untouched /\ line = 0 /\ Masked(hw.conf) /\ (presses = 0 => NoAnswers(hw))
      BY <1>1, <2>1, <2>4, Zenon DEF Stage, Testing, In
    <3>2. Untouched'
      BY <1>3, <2>2, <3>1, Zenon DEF Untouched
    <3>. QED
      BY <1>3, <1>4, <2>1, <2>2, <2>4, <3>1, <3>2, Zenon
      DEF Stage, Disabling, Testing, ProbingLines, Ending, In
  <2>5. CASE ret = "finish"
    <3>1. /\ Finishing /\ line = 0 /\ Masked(hw.conf) /\ ClocksOn(hw.conf)
          /\ NoAnswers(hw)
      BY <1>1, <2>1, <2>5, Zenon DEF Stage, Ending, In
    <3>2. Finishing'
      BY <1>3, <2>2, <3>1, Zenon DEF Finishing, Keyboards
    <3>. QED
      BY <1>3, <1>4, <2>1, <2>2, <2>5, <3>1, <3>2, Zenon
      DEF Stage, Disabling, Testing, ProbingLines, Ending, In
  <2>. QED BY <1>2, <2>3, <2>4, <2>5, Zenon
<1>6. CASE conf_receive
  <2>1. /\ pc = "read_conf" /\ pc' = ret /\ hw.out # <<>> /\ hw' = Taken(hw)
        /\ conf' = Head(hw.out)[1]
    BY <1>1, <1>6, Zenon DEF conf_receive, Goto, Taken
  <2>2. /\ hw'.conf = hw.conf /\ hw'.scanning = hw.scanning
        /\ hw'.redirect = hw.redirect /\ hw'.late = hw.late
        /\ hw'.held = hw.held /\ hw'.busy = hw.busy /\ hw'.faults = hw.faults
    BY <1>1, <2>1, TakenType, Zenon DEF Keeps
  <2>3. HwInv(hw', presses')
    BY <1>1, <1>3, <2>2, Zenon DEF HwInv, NoneLate
  <2>4. Expects(hw, 0, <<hw.conf>>) => conf' = hw.conf /\ NoAnswers(hw')
    BY <1>1, <2>1, LastRead, Zenon DEF Lines
  <2>5. CASE ret = "mask"
    <3>1. /\ Untouched /\ line = 0 /\ ClocksOff(hw.conf)
          /\ Expects(hw, 0, <<hw.conf>>)
      BY <1>1, <2>1, <2>5 DEF Stage, Disabling, In
    <3>2. Untouched'
      BY <1>3, <2>2, <3>1, Zenon DEF Untouched
    <3>. QED
      BY <1>3, <1>4, <2>1, <2>2, <2>3, <2>4, <2>5, <3>1, <3>2, ZenonT(30)
      DEF Stage, Disabling, Testing, ProbingLines, Ending, In
  <2>6. CASE ret = "disable_second"
    <3>1. /\ Untouched /\ line = 0 /\ Masked(hw.conf)
          /\ presses = 0 => Expects(hw, 0, <<hw.conf>>)
      BY <1>1, <2>1, <2>6 DEF Stage, Testing, In
    <3>2. Untouched'
      BY <1>3, <2>2, <3>1, Zenon DEF Untouched
    <3>. QED
      BY <1>3, <1>4, <2>1, <2>2, <2>3, <2>4, <2>6, <3>1, <3>2, ZenonT(30)
      DEF Stage, Disabling, Testing, ProbingLines, Ending, In
  <2>7. CASE ret = "finish"
    <3>1. /\ Finishing /\ line = 0 /\ Masked(hw.conf) /\ ClocksOn(hw.conf)
          /\ Expects(hw, 0, <<hw.conf>>)
      BY <1>1, <2>1, <2>7, Zenon DEF Stage, Ending, In
    <3>2. Finishing'
      BY <1>3, <2>2, <3>1, Zenon DEF Finishing, Keyboards
    <3>3. {l \in Lines : l < line'} = {} /\ active \subseteq Lines
      BY <1>3, <3>1 DEF Lines, Finishing, Keyboards
    <3>4. Configured(conf, {l \in Lines : l < line})'
      BY <1>3, <2>4, <3>1, <3>3, Zenon DEF Configured, Masked, ClocksOn
    <3>. QED
      BY <1>3, <1>4, <2>1, <2>2, <2>3, <2>7, <3>1, <3>2, <3>4, ZenonT(30)
      DEF Stage, Disabling, Testing, ProbingLines, Ending, In
  <2>. QED BY <1>2, <2>5, <2>6, <2>7, Zenon
<1>. QED BY <1>5, <1>6, Zenon

-----------------------------------------------------------------------------
(* The steps of receive() and send().                                      *)

\* What the devices answer, byte by byte.
LEMMA Answers ==
  ASSUME NEW kind \in {"keyboard", "terminal", "mouse"}
  PROVE  /\ AnswerOf(kind, "disable_scan") = <<ps2_keyboard_ack>>
         /\ AnswerOf(kind, "enable_scan") = <<ps2_keyboard_ack>>
         /\ AnswerOf(kind, "identify") \in Seq(Byte)
         /\ AnswerOf(kind, "identify") # <<>>
         /\ Head(AnswerOf(kind, "identify")) = ps2_keyboard_ack
         /\ Tail(AnswerOf(kind, "identify")) = IdOf(kind)
<1>1. IdOf(kind) \in Seq(Byte) /\ <<ps2_keyboard_ack>> \o IdOf(kind) \in Seq(Byte)
  BY AnswersAreBytes, Zenon
<1>2. AnswerOf(kind, "identify") = <<ps2_keyboard_ack>> \o IdOf(kind)
  BY Zenon DEF AnswerOf
<1>3. /\ <<ps2_keyboard_ack>> \o IdOf(kind) # <<>>
      /\ Head(<<ps2_keyboard_ack>> \o IdOf(kind)) = ps2_keyboard_ack
      /\ Tail(<<ps2_keyboard_ack>> \o IdOf(kind)) = IdOf(kind)
  <2>1. ps2_keyboard_ack \in Byte
    BY DEF ps2_keyboard_ack, Byte
  <2>. QED BY <1>1, <2>1
<1>4. /\ AnswerOf(kind, "disable_scan") = <<ps2_keyboard_ack>>
      /\ AnswerOf(kind, "enable_scan") = <<ps2_keyboard_ack>>
  BY Zenon DEF AnswerOf
<1>. QED BY <1>1, <1>2, <1>3, <1>4, Zenon

\* What is left of a sequence from its i-th element on.
LEMMA RestOfSeq ==
  ASSUME NEW S, NEW s \in Seq(S), NEW i \in 1..Len(s)
  PROVE  /\ SubSeq(s, i, Len(s)) \in Seq(S)
         /\ SubSeq(s, i, Len(s)) # <<>>
         /\ Head(SubSeq(s, i, Len(s))) = s[i]
         /\ Tail(SubSeq(s, i, Len(s))) = SubSeq(s, i + 1, Len(s))
<1>. DEFINE rest == SubSeq(s, i, Len(s))
            next == SubSeq(s, i + 1, Len(s))
<1>1. rest \in Seq(S) /\ Len(rest) = Len(s) - i + 1
  OBVIOUS
<1>2. \A j \in 1..Len(rest) : rest[j] = s[i + j - 1]
  OBVIOUS
<1>3. next \in Seq(S) /\ Len(next) = Len(s) - i
  OBVIOUS
<1>4. \A j \in 1..Len(next) : next[j] = s[i + j]
  OBVIOUS
<1>. HIDE DEF rest, next
<1>5. rest # <<>> /\ Head(rest) = s[i]
  BY <1>1, <1>2
<1>6. Tail(rest) \in Seq(S) /\ Len(Tail(rest)) = Len(next)
  BY <1>1, <1>3, <1>5
<1>7. ASSUME NEW j \in 1..Len(next) PROVE Tail(rest)[j] = next[j]
  <2>1. Tail(rest)[j] = rest[j + 1]
    BY <1>1, <1>3, <1>5
  <2>2. j + 1 \in 1..Len(rest) /\ i + (j + 1) - 1 = i + j
    BY <1>1, <1>3
  <2>. QED BY <1>2, <1>4, <2>1, <2>2, Zenon
<1>8. Tail(rest) = next
  BY <1>3, <1>6, <1>7, SeqEqual, Zenon
<1>. QED BY <1>1, <1>5, <1>8, Zenon DEF rest, next

\* What is left of an identification, byte by byte.
LEMMA IdFroms ==
  ASSUME NEW kind \in {"keyboard", "terminal", "mouse"}, NEW i \in {0, 1},
         i = 1 => kind \in {"keyboard", "terminal"}
  PROVE  /\ IdFrom(kind, i + 1) \in Seq(Byte)
         /\ IdFrom(kind, i + 1) # <<>>
         /\ Head(IdFrom(kind, i + 1)) = IdOf(kind)[i + 1]
         /\ Tail(IdFrom(kind, i + 1)) = IdFrom(kind, i + 2)
<1>1. IdOf(kind) \in Seq(Byte)
  BY AnswersAreBytes, Zenon
<1>2. i + 1 \in 1..Len(IdOf(kind)) /\ i + 1 + 1 = i + 2
  <2>1. CASE kind = "mouse"
    BY <2>1, Identifications
  <2>2. CASE kind = "keyboard"
    BY <2>2, Identifications
  <2>3. CASE kind = "terminal"
    BY <2>3, Identifications
  <2>. QED BY <2>1, <2>2, <2>3, Zenon
<1>. QED BY <1>1, <1>2, RestOfSeq, Zenon DEF IdFrom

\* receive() reads the next of the bytes that are expected.
LEMMA ReceiveByteStep ==
  ASSUME IInv, TypeOK', Undisturbed, Undisturbed', receive_byte
  PROVE  HwInv(hw', presses') /\ Stage'
<1>1. /\ TypeOK /\ HwInv(hw, presses) /\ Stage /\ hw \in HwType /\ line \in Lines
      /\ hw.selftest \in Byte /\ port_test_ok \in Byte /\ ps2_keyboard_ack \in Byte
  BY DEF IInv, TypeOK, HwType, Byte, self_test_ok, self_test_fail, port_test_ok,
         ps2_keyboard_ack
<1>2. /\ pc = "receive" /\ pc' = ret /\ hw.out # <<>> /\ hw' = Taken(hw)
      /\ reply' = Head(hw.out)[1]
      /\ UNCHANGED <<device, ret, line, data, id_count, active, presses>>
  BY Zenon DEF receive_byte, Goto, Taken
<1>3. ret \in {"selftest_done", "tested", "disabled", "identified", "id", "enabled"}
  BY <1>2, Zenon DEF IInv, Calls
<1>4. /\ hw'.conf = hw.conf /\ hw'.scanning = hw.scanning
      /\ hw'.redirect = hw.redirect /\ hw'.late = hw.late /\ hw'.selftest = hw.selftest
      /\ hw'.held = hw.held /\ hw'.busy = hw.busy /\ hw'.faults = hw.faults
  BY <1>1, <1>2, TakenType, Zenon DEF Keeps
<1>5. HwInv(hw', presses')
  BY <1>1, <1>2, <1>4, Zenon DEF HwInv, NoneLate
<1>6. \A l \in active' : ~is_set(hw'.conf, int_bit[l])
  BY <1>1, <1>2, <1>4, Zenon DEF Stage, Ending
<1>7. /\ Untouched => Untouched'
      /\ Probing => Probing'
      /\ Identifying => Identifying'
  BY <1>2, <1>4, Zenon DEF Untouched, Probing, Identifying, Keyboards
<1>8. ASSUME NEW l \in Lines, NEW byte \in Byte, Expects(hw, l, <<byte>>)
      PROVE  reply' = byte /\ NoAnswers(hw')
  BY <1>1, <1>2, <1>8, LastRead, Zenon
<1>9. ASSUME NEW bytes \in Seq(Byte), Expects(hw, line, bytes)
      PROVE  bytes # <<>> /\ reply' = Head(bytes) /\ Expects(hw', line, Tail(bytes))
  BY <1>1, <1>2, <1>9, ReadTakes, Zenon
<1>10. CASE ret = "selftest_done"
  <2>1. /\ Untouched /\ line = 0 /\ Masked(hw.conf) /\ ClocksOff(hw.conf)
        /\ Expects(hw, 0, <<hw.selftest>>)
    BY <1>2, <1>1, <1>10, Zenon DEF Stage, Testing, In
  <2>2. reply' = hw.selftest /\ NoAnswers(hw')
    BY <1>1, <1>8, <2>1, Zenon
  <2>. QED
    BY <1>2, <1>4, <1>5, <1>6, <1>7, <1>10, <2>1, <2>2, Zenon
    DEF Stage, Disabling, Testing, ProbingLines, Ending, In
<1>11. CASE ret = "tested"
  <2>1. /\ Untouched /\ Masked(hw.conf)
        /\ presses = 0 => Expects(hw, 0, <<port_test_ok>>)
    BY <1>2, <1>1, <1>11, Zenon DEF Stage, Testing, In
  <2>2. presses = 0 => NoAnswers(hw')
    BY <1>1, <1>8, <2>1, Zenon DEF Lines
  <2>. QED
    BY <1>2, <1>4, <1>5, <1>6, <1>7, <1>11, <2>1, <2>2, Zenon
    DEF Stage, Disabling, Testing, ProbingLines, Ending, In
<1>12. CASE ret \in {"disabled", "identified", "enabled"}
  <2>1. /\ Probing /\ hw.redirect = FALSE /\ Sending
        /\ Expects(hw, line, AnswerOf(device[line], data))
        /\ ret = "enabled" => hw.scanning[line]
    BY <1>1, <1>2, <1>12, Zenon DEF Stage, ProbingLines, In
  <2>2. device[line] # "none"
    <3>1. ASSUME device[line] = "none" PROVE FALSE
      <4>1. AnswerOf(device[line], data) = <<>>
        BY <3>1, Zenon DEF AnswerOf
      <4>2. NoAnswers(hw)
        BY <1>1, <2>1, <4>1, ExpectsNothing, Zenon
      <4>. QED BY <1>2, <4>2, Zenon DEF NoAnswers
    <3>. QED BY <3>1, Zenon
  <2>3. device[line] \in {"keyboard", "terminal", "mouse"}
    BY <1>1, <2>2, KindsOfDevices, ZenonT(30)
  <2>4. CASE ret \in {"disabled", "enabled"}
    <3>1. AnswerOf(device[line], data) = <<ps2_keyboard_ack>>
      BY <2>1, <2>3, <2>4, Answers, Zenon DEF Sending
    <3>2. reply' = ps2_keyboard_ack /\ NoAnswers(hw')
      BY <1>1, <1>8, <2>1, <3>1, Zenon
    <3>3. ret = "enabled" => device[line] = "keyboard"
      BY <2>1, Zenon DEF Sending
    <3>. QED
      BY <1>2, <1>4, <1>5, <1>6, <1>7, <2>1, <2>2, <2>4, <3>2, <3>3, ZenonT(30)
      DEF Stage, Disabling, Testing, ProbingLines, Ending, In
  <2>5. CASE ret = "identified"
    <3>1. data = "identify"
      BY <2>1, <2>5, Zenon DEF Sending
    <3>2. PICK bytes : bytes = AnswerOf(device[line], "identify")
      BY Zenon
    <3>3. /\ bytes \in Seq(Byte) /\ Head(bytes) = ps2_keyboard_ack
          /\ Tail(bytes) = IdOf(device[line]) /\ Expects(hw, line, bytes)
      BY <2>1, <2>3, <3>1, <3>2, Answers, Zenon
    <3>4. reply' = ps2_keyboard_ack /\ Expects(hw', line, IdOf(device[line]))
      BY <1>9, <3>3, Zenon
    <3>. QED
      BY <1>2, <1>4, <1>5, <1>6, <1>7, <2>1, <2>2, <2>5, <3>4, ZenonT(30)
      DEF Stage, Disabling, Testing, ProbingLines, Ending, In
  <2>. QED BY <1>12, <2>4, <2>5, Zenon
<1>13. CASE ret = "id"
  <2>1. /\ Probing /\ hw.redirect = FALSE /\ Identifying
        /\ Expects(hw, line, IdFrom(device[line], id_count + 1))
    BY <1>1, <1>2, <1>13, Zenon DEF Stage, ProbingLines, In
  <2>2. device[line] \in {"keyboard", "terminal", "mouse"}
    BY <1>1, <2>1, KindsOfDevices, Zenon DEF Identifying
  <2>3. PICK bytes : bytes = IdFrom(device[line], id_count + 1)
    BY Zenon
  <2>4. /\ bytes \in Seq(Byte) /\ Head(bytes) = IdOf(device[line])[id_count + 1]
        /\ Tail(bytes) = IdFrom(device[line], id_count + 2) /\ Expects(hw, line, bytes)
    BY <2>1, <2>2, <2>3, IdFroms, Zenon DEF Identifying
  <2>5. /\ reply' = IdOf(device[line])[id_count + 1]
        /\ Expects(hw', line, IdFrom(device[line], id_count + 2))
    BY <1>9, <2>4, Zenon
  <2>. QED
    BY <1>2, <1>4, <1>5, <1>6, <1>7, <1>13, <2>1, <2>5, ZenonT(30)
    DEF Stage, Disabling, Testing, ProbingLines, Ending, In
<1>. QED BY <1>3, <1>10, <1>11, <1>12, <1>13, Zenon

\* What is expected comes: no wait ends without it.
LEMMA ExpectedIsThere ==
  ASSUME NEW h \in HwType, NoAnswers(h),
         NEW l \in Lines, NEW bytes \in Seq(Byte), Expects(h, l, bytes)
  PROVE  bytes = <<>>
<1>1. h.out = <<>> /\ h.late[l] = <<>>
  BY Zenon DEF NoAnswers, NoneLate
<1>2. h.out \o h.late[l] = <<>>
  BY <1>1
<1>3. From(l, bytes) = <<>>
  BY <1>2, Zenon DEF Expects
<1>. QED BY <1>3, FromTail, Zenon

\* receive() gives up only where no device is.
LEMMA ReceiveTimesOutStep ==
  ASSUME IInv, TypeOK', Undisturbed, Undisturbed', receive_times_out
  PROVE  HwInv(hw', presses') /\ Stage'
<1>1. /\ TypeOK /\ HwInv(hw, presses) /\ Stage /\ hw \in HwType /\ line \in Lines
      /\ hw.selftest \in Byte /\ ps2_keyboard_ack \in Byte
  BY DEF IInv, TypeOK, HwType, Byte, self_test_ok, self_test_fail, ps2_keyboard_ack
<1>2. /\ pc = "receive" /\ pc' = ret /\ hw.out = <<>> /\ reply' = NoReply
      /\ UNCHANGED <<device, hw, ret, line, data, id_count, active, presses>>
  BY Zenon DEF receive_times_out, Goto
<1>3. ret \in {"selftest_done", "tested", "disabled", "identified", "id", "enabled"}
  BY <1>2, Zenon DEF IInv, Calls
<1>4. NoAnswers(hw)
  BY <1>2, Zenon DEF receive_times_out, Undisturbed, NoAnswers, NoneLate
<1>5. \A l \in active' : ~is_set(hw'.conf, int_bit[l])
  BY <1>1, <1>2, Zenon DEF Stage, Ending
<1>6. ASSUME NEW l \in Lines, NEW bytes \in Seq(Byte), Expects(hw, l, bytes)
      PROVE  bytes = <<>>
  BY <1>1, <1>4, <1>6, ExpectedIsThere, Zenon
<1>7. CASE ret = "selftest_done"
  <2>1. Expects(hw, 0, <<hw.selftest>>)
    BY <1>1, <1>2, <1>7, Zenon DEF Stage, Testing, In
  <2>2. <<hw.selftest>> \in Seq(Byte) /\ <<hw.selftest>> # <<>>
    BY <1>1
  <2>. QED BY <1>6, <2>1, <2>2, Zenon DEF Lines
<1>8. CASE ret = "tested"
  <2>1. Untouched /\ Masked(hw.conf)
    BY <1>1, <1>2, <1>8, Zenon DEF Stage, Testing, In
  <2>2. Untouched'
    BY <1>2, <2>1, Zenon DEF Untouched
  <2>. QED
    BY <1>1, <1>2, <1>4, <1>5, <1>8, <2>1, <2>2, Zenon
    DEF Stage, Disabling, Testing, ProbingLines, Ending, In
<1>9. CASE ret \in {"disabled", "identified", "enabled"}
  <2>1. /\ Probing /\ hw.redirect = FALSE /\ Sending
        /\ Expects(hw, line, AnswerOf(device[line], data))
    BY <1>1, <1>2, <1>9, Zenon DEF Stage, ProbingLines, In
  <2>2. device[line] = "none"
    <3>1. ASSUME device[line] # "none" PROVE FALSE
      <4>1. device[line] \in {"keyboard", "terminal", "mouse"}
        BY <1>1, <3>1, KindsOfDevices, Zenon
      <4>2. PICK bytes : bytes = AnswerOf(device[line], data)
        BY Zenon
      <4>3. <<ps2_keyboard_ack>> \in Seq(Byte) /\ <<ps2_keyboard_ack>> # <<>>
        BY <1>1
      <4>4. bytes \in Seq(Byte) /\ bytes # <<>>
        BY <2>1, <4>1, <4>2, <4>3, Answers, Zenon DEF Sending
      <4>. QED BY <1>1, <1>6, <2>1, <4>2, <4>4, Zenon
    <3>. QED BY <3>1, Zenon
  <2>3. ret = "disabled"
    BY <1>9, <2>1, <2>2, Zenon DEF Sending
  <2>4. Probing'
    BY <1>2, <2>1, Zenon DEF Probing, Keyboards
  <2>. QED
    BY <1>1, <1>2, <1>4, <1>5, <2>1, <2>2, <2>3, <2>4, ZenonT(30)
    DEF Stage, Disabling, Testing, ProbingLines, Ending, In
<1>10. CASE ret = "id"
  <2>1. Identifying /\ Expects(hw, line, IdFrom(device[line], id_count + 1))
    BY <1>1, <1>2, <1>10, Zenon DEF Stage, ProbingLines, In
  <2>2. device[line] \in {"keyboard", "terminal", "mouse"}
    BY <1>1, <2>1, KindsOfDevices, Zenon DEF Identifying
  <2>3. PICK bytes : bytes = IdFrom(device[line], id_count + 1)
    BY Zenon
  <2>4. bytes \in Seq(Byte) /\ bytes # <<>>
    BY <2>1, <2>2, <2>3, IdFroms, Zenon DEF Identifying
  <2>. QED BY <1>1, <1>6, <2>1, <2>3, <2>4, Zenon
<1>. QED BY <1>3, <1>7, <1>8, <1>9, <1>10, Zenon

\* wait_for_flag() waits, or its sleep never comes back.
LEMMA WaitStep ==
  ASSUME IInv, TypeOK', Undisturbed, Undisturbed', wait_for_flag
  PROVE  HwInv(hw', presses') /\ Stage'
<1>1. TypeOK /\ HwInv(hw, presses) /\ Stage /\ line \in Lines
  BY Zenon DEF IInv, TypeOK
<1>2. /\ UNCHANGED <<device, hw, ret, line, conf, data, reply, id_count, active, presses>>
      /\ pc \in {"receive", "output"} /\ pc' \in {pc, "undefined"}
  BY Zenon DEF wait_for_flag, Goto
<1>3. HwInv(hw', presses')
  BY <1>1, <1>2, Zenon
<1>4. CASE pc' = pc
  <2>1. /\ hw'.conf = hw.conf /\ hw'.scanning = hw.scanning
        /\ hw'.selftest = hw.selftest /\ hw'.redirect = hw.redirect
        /\ presses' = 0 => presses = 0
        /\ \A l \in Lines : \A bytes : Expects(hw, l, bytes) => Expects(hw', l, bytes)
        /\ NoneLate(hw) => NoneLate(hw')
        /\ NoAnswers(hw) => NoAnswers(hw')
    BY <1>2, Zenon
  <2>. QED BY <1>1, <1>2, <1>3, <1>4, <2>1, StageStays, Zenon
<1>5. CASE pc' = "undefined"
  <2>1. \A l \in active' : ~is_set(hw'.conf, int_bit[l])
    BY <1>1, <1>2, Zenon DEF Stage, Ending
  <2>. QED
    BY <1>3, <1>5, <2>1, Zenon DEF Stage, Disabling, Testing, ProbingLines, Ending, In
<1>. QED BY <1>2, <1>4, <1>5, Zenon

\* send() addresses the line, and the device there gets the byte.
LEMMA SendSteps ==
  ASSUME IInv, TypeOK', Undisturbed, Undisturbed', send \/ send_output \/ send_times_out
  PROVE  HwInv(hw', presses') /\ Stage'
<1>1. /\ TypeOK /\ HwInv(hw, presses) /\ Stage /\ quiet' /\ line \in Lines
      /\ hw \in HwType /\ hw.redirect \in BOOLEAN
      /\ hw' \in HwType /\ hw'.redirect \in BOOLEAN
  BY Zenon DEF IInv, TypeOK, HwType, Undisturbed
<1>2. pc \in {"send", "output"}
  BY Zenon DEF send, send_output, send_times_out
<1>3. /\ ret \in {"disabled", "identified", "enabled"}
      /\ data \in {"disable_scan", "identify", "enable_scan"}
  BY <1>2, Zenon DEF IInv, Calls
<1>4. Probing /\ NoAnswers(hw) /\ Sending
  BY <1>1, <1>2, Zenon DEF Stage, ProbingLines
<1>5. \A l \in active : ~is_set(hw.conf, int_bit[l])
  BY <1>1, <1>2, Zenon DEF Stage, Ending
<1>6. CASE send
  <2>1. /\ pc = "send" /\ pc' = "output"
        /\ UNCHANGED <<device, ret, line, data, active, presses>>
    BY <1>6, Zenon DEF send, Goto
  <2>2. hw.redirect = FALSE
    BY <1>1, <2>1, Zenon DEF Stage, ProbingLines
  <2>3. /\ HwInv(hw', presses')
        /\ hw'.conf = hw.conf /\ hw'.scanning = hw.scanning
        /\ NoAnswers(hw') /\ (hw'.redirect <=> line = 1)
    <3>1. CASE line = 1
      <4>1. Write({[hw EXCEPT !.redirect = TRUE]})
        BY <1>6, <3>1, Zenon DEF send
      <4>. QED BY <1>1, <1>4, <2>1, <3>1, <4>1, RedirectWritten, Zenon
    <3>2. CASE line = 0
      <4>1. hw' = hw
        BY <1>6, <3>2 DEF send
      <4>. QED BY <1>1, <1>4, <2>1, <2>2, <3>2, <4>1
    <3>. QED BY <1>1, <3>1, <3>2, Zenon DEF Lines
  <2>4. Probing' /\ Sending'
    BY <1>4, <2>1, <2>3, Zenon DEF Probing, Sending, Keyboards
  <2>5. hw'.redirect = (line' = 1)
    BY <1>1, <2>1, <2>3, Zenon
  <2>. QED
    BY <1>5, <2>1, <2>3, <2>4, <2>5, ZenonT(30)
    DEF Stage, Disabling, Testing, ProbingLines, Ending, In
<1>7. CASE send_output
  <2>1. /\ pc = "output" /\ pc' = "receive" /\ Accept(DeviceGets(data))
        /\ UNCHANGED <<device, ret, line, data, active, presses>>
    BY <1>7, Zenon DEF send_output, CallReceive
  <2>2. hw.redirect = (line = 1)
    BY <1>1, <2>1, Zenon DEF Stage, ProbingLines
  <2>3. Addressed = line
    BY <1>1, <2>2, Zenon DEF Addressed, Lines
  <2>4. /\ HwInv(hw', presses')
        /\ hw'.conf = hw.conf
        /\ hw'.redirect = FALSE
        /\ \A m \in Lines \ {line} : hw'.scanning[m] = hw.scanning[m]
        /\ data = "enable_scan" /\ device[line] # "none" => hw'.scanning[line]
        /\ Expects(hw', line, AnswerOf(device[line], data))
    BY <1>1, <1>3, <1>4, <2>1, <2>3, DeviceAsked, Zenon
  <2>5. Probing' /\ Sending'
    <3>1. active \subseteq Lines \ {line}
      BY <1>1, <1>4 DEF Probing, Keyboards, Lines
    <3>. QED BY <1>4, <2>1, <2>4, <3>1, Zenon DEF Probing, Sending, Keyboards
  <2>6. ret = "enabled" => hw'.scanning[line]
    BY <1>4, <2>4, Zenon DEF Sending
  <2>. QED
    BY <1>3, <1>5, <2>1, <2>4, <2>5, <2>6, ZenonT(30)
    DEF Stage, Disabling, Testing, ProbingLines, Ending, In
<1>8. CASE send_times_out
  BY <1>1, <1>8, Zenon DEF send_times_out
<1>. QED BY <1>6, <1>7, <1>8, Zenon

-----------------------------------------------------------------------------
(* The invariant, and what follows from it.                                *)

\* What the firmware leaves satisfies the invariant.
LEMMA InitInv == Init => IInv
<1>. SUFFICES ASSUME Init PROVE IInv
  BY Zenon
<1>1. PICK cb \in FirmwareConfs, bytes \in LeftOvers,
           selftest \in {self_test_ok, self_test_fail} : hw = HwInit(bytes, cb, selftest)
  BY Zenon DEF Init
<1>2. cb \in Byte /\ bytes \in Sent
  BY PS2Assumption, Zenon DEF Byte, Sent
<1>3. /\ <<>> \in Sent
      /\ [l \in Lines |-> <<>>] \in [Lines -> Sent]
      /\ [l \in Lines |-> TRUE] \in [Lines -> BOOLEAN]
  BY DEF Sent
<1>4. hw \in HwType
  BY <1>1, <1>2, <1>3, Zenon DEF HwType, HwInit
<1>5. /\ hw.scanning = [l \in Lines |-> TRUE] /\ hw.redirect = FALSE
      /\ \A l \in Lines : hw.late[l] = <<>> /\ hw.held[l] = <<>>
  BY <1>1, Zenon DEF HwInit
<1>6. ~hw.busy
  BY <1>1, Zenon DEF HwInit
<1>7. TypeOK
  BY <1>4 DEF Init, TypeOK, Lines, Byte
<1>8. Calls
  BY Zenon DEF Init, Calls
<1>9. HwInv(hw, presses)
  BY <1>5, <1>6, Zenon DEF HwInv, NoneLate
<1>10. Untouched /\ NoneLate(hw)
  BY <1>5, ZenonT(30) DEF Init, Untouched, NoneLate
<1>11. Stage
  <2>1. pc = "disable" /\ line = 0 /\ active = {}
    BY Zenon DEF Init
  <2>2. Disabling
    BY <1>10, <2>1, SMTT(30) DEF Disabling, In
  <2>3. Testing /\ ProbingLines /\ Ending
    BY <2>1, SMTT(30) DEF Testing, ProbingLines, Ending, In
  <2>. QED BY <2>2, <2>3, Zenon DEF Stage
<1>. QED BY <1>7, <1>8, <1>9, <1>11, Zenon DEF IInv

\* Every step of the driver, of the chip and of the user keeps it.
LEMMA IInvInductive == IInv /\ [Next]_vars => IInv'
<1>. SUFFICES ASSUME IInv, [Next]_vars PROVE IInv'
  BY Zenon
<1>1. CASE Next
  <2>1. TypeOK /\ Calls
    BY Zenon DEF IInv
  <2>2. TypeOK' /\ Grows /\ Calls'
    BY <1>1, <2>1, TypeInductive, CallsInductive, Zenon
  <2>3. ASSUME Undisturbed' PROVE HwInv(hw', presses') /\ Stage'
    <3>1. Undisturbed
      BY <2>1, <2>2, <2>3, GrowsUndisturbed, Zenon
    <3>2. CASE Initialize
      BY ZenonT(30), <2>2, <2>3, <3>1, <3>2, SetupSteps, TestSteps, EnableStep, ProbeSteps,
         ProbeIdStep, EndSteps, CleanStep, ConfSteps, ReceiveByteStep,
         ReceiveTimesOutStep, WaitStep, SendSteps
      DEF Initialize
    <3>3. CASE Ready \/ \E l \in Lines : ps2_irq_handler(l) \/ Arrive(l) \/ Press(l)
      BY <2>2, <2>3, <3>1, <3>3, EnvironmentStays, Zenon
    <3>. QED BY <1>1, <3>2, <3>3, Zenon DEF Next
  <2>. QED BY <2>2, <2>3, Zenon DEF IInv
<1>2. CASE UNCHANGED vars
  <2>1. UNCHANGED <<device, hw, presses, quiet>> /\ UNCHANGED control
    BY <1>2, Zenon DEF vars
  <2>2. UNCHANGED <<pc, ret, line, conf, data, reply, id_count, active>>
    BY <2>1, Zenon DEF control
  <2>3. TypeOK' /\ Calls'
    BY <2>1, <2>2, Zenon DEF IInv, TypeOK, Calls
  <2>4. ASSUME Undisturbed' PROVE HwInv(hw', presses') /\ Stage'
    <3>1. HwInv(hw, presses) /\ Stage /\ line \in Lines
      BY <2>1, <2>4, Zenon DEF IInv, Undisturbed, TypeOK
    <3>. QED BY <2>1, <2>2, <3>1, StageStays, Zenon
  <2>. QED BY <2>3, <2>4, Zenon DEF IInv
<1>. QED BY <1>1, <1>2, Zenon

\* The four invariants follow from the inductive one.
LEMMA IInvImplies ==
  IInv => /\ ProbeFindsKeyboards
          /\ ConfiguredAsProbed
          /\ AnswersAreNotStolen
          /\ PanicMeansFailedSelfTest
<1>. SUFFICES ASSUME IInv, Undisturbed
              PROVE  /\ pc = "initialized" => active = Keyboards
                     /\ pc = "initialized" =>
                          /\ \A l \in Lines : is_set(hw.conf, int_bit[l]) <=> l \in active
                          /\ ~is_set(hw.conf, translation)
                          /\ \A l \in active :
                               ~is_set(hw.conf, clock_bit[l]) /\ hw.scanning[l]
                     /\ pc # "initialized" => \A l \in active : ~is_set(hw.conf, int_bit[l])
                     /\ pc = "panic" => hw.selftest # self_test_ok
  BY Zenon DEF ProbeFindsKeyboards, ConfiguredAsProbed, AnswersAreNotStolen,
         PanicMeansFailedSelfTest
<1>1. Ending
  BY Zenon DEF IInv, Stage
<1>2. pc = "initialized" => Finishing /\ Configured(hw.conf, Lines)
  BY <1>1, Zenon DEF Ending
<1>3. pc = "initialized" => active \subseteq Lines
  BY <1>2, Zenon DEF Finishing, Keyboards
<1>. QED BY <1>1, <1>2, <1>3, Zenon DEF Ending, Finishing, Configured

\* initialize_controller(): the inductive invariant holds throughout.
THEOREM ControllerInvariant == Spec => []IInv
BY InitInv, IInvInductive, PTL DEF Spec

\* probe_devices() finds the keyboards and takes no other device for one, as
\* long as it is undisturbed: for any devices, any configuration and any bytes
\* left by the firmware, any timeouts, and any number of answers that are late
\* or of keys pressed before the probe (controller.cpp:171-173, 208-254).
THEOREM ProbeAlwaysFindsKeyboards == Spec => []ProbeFindsKeyboards
BY ControllerInvariant, IInvImplies, PTL

\* initialize_controller() always leaves the interrupts of exactly the lines
\* with a device on, no translation, and these lines and their keyboards
\* working (controller.cpp:256-270).
THEOREM AlwaysConfiguredAsProbed == Spec => []ConfiguredAsProbed
BY ControllerInvariant, IInvImplies, PTL

\* The interrupt handler never reads an answer that probe() waits for: the
\* interrupt of an active line is off until initialize_controller() ends
\* (controller.cpp:175-180, 218-222).
THEOREM AnswersAreNeverStolen == Spec => []AnswersAreNotStolen
BY ControllerInvariant, IInvImplies, PTL

\* The panic of initialize_controller() always means that the chip reported
\* a failed self-test, however long its answer took (controller.cpp:224-226).
THEOREM PanicAlwaysMeansFailedSelfTest == Spec => []PanicMeansFailedSelfTest
BY ControllerInvariant, IInvImplies, PTL
=============================================================================
