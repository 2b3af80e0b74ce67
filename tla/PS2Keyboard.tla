----------------------------- MODULE PS2Keyboard -----------------------------
(***************************************************************************)
(* The PS/2 keyboard driver (src/kernel/devices/ps2/src/ps2_keyboard.cpp   *)
(* and ps2_keyboard_sm.cpp): the interrupt handler reads one byte from the *)
(* controller and runs a state machine over it until a state says `done`.  *)
(*                                                                         *)
(* The keyboard itself is external: a person presses and releases keys,    *)
(* the keyboard repeats keys that are held down and queues codes of set 2: *)
(* the key's byte for a press, 0xf0 and the key's byte for a release.  The *)
(* translation table gives every key its own byte, so a key stands for its *)
(* byte; kb_key order is the order of the numbers.                         *)
(***************************************************************************)
EXTENDS Naturals, Sequences, FiniteSets

CONSTANTS
  Printable,      \* keys that to_printable_key() gives a symbol
  Shiftable,      \* those whose symbol apply_lshift() changes
  Special,        \* keys of the table without a symbol
  Unmapped,       \* keys whose byte the table does not translate
  kb_key_lshift,  \* the left shift key
  Repeating,      \* keys that the keyboard repeats while they are down
  FifoSize,       \* bound: the keyboard's queue, in bytes
  MaxTyped        \* bound: presses of printable keys

Keys == Printable \cup Special \cup Unmapped

release_byte == 240    \* codeset2_1b_release_byte, 0xf0
NoByte == 0            \* no byte is being handled

ASSUME KeysAssumption ==
  /\ Keys \subseteq Nat \ {release_byte, NoByte}
  /\ Shiftable \subseteq Printable
  /\ kb_key_lshift \in Special
  /\ Repeating \subseteq Keys
  /\ Printable \cap Special = {} /\ Printable \cap Unmapped = {}
  /\ Special \cap Unmapped = {}

VARIABLES
  down,       \* keyboard: the keys held down
  fifo,       \* keyboard: bytes the interrupt handler has not read
  byte,       \* handle_byte(): its argument, or NoByte
  state_,     \* the state of KbdStateMachine
  pressed,    \* keys whose status in the driver is `pressed`
  screen,     \* symbols given to vga_console::putc
  typed       \* history: symbols for the keys pressed so far

vars == <<down, fifo, byte, state_, pressed, screen, typed>>

hardware == <<down, fifo, typed>>

-----------------------------------------------------------------------------
(* The keyboard.                                                           *)

Send(codes) ==
  /\ Len(fifo) + Len(codes) <= FifoSize
  /\ fifo' = fifo \o codes

\* to_printable_key() and apply_lshift(): the symbol of a key.
Symbol(key, lshift) == <<key, lshift /\ key \in Shiftable>>

SendPress(key) ==
  /\ Send(<<key>>)
  /\ IF key \in Printable
     THEN /\ Len(typed) < MaxTyped
          /\ typed' = Append(typed, Symbol(key, kb_key_lshift \in down))
     ELSE UNCHANGED typed
  /\ UNCHANGED <<byte, state_, pressed, screen>>

Press(key) ==
  /\ key \notin down
  /\ SendPress(key)
  /\ down' = down \cup {key}

RepeatKey(key) ==
  /\ key \in down
  /\ SendPress(key)
  /\ UNCHANGED down

Release(key) ==
  /\ key \in down
  /\ Send(<<release_byte, key>>)
  /\ down' = down \ {key}
  /\ UNCHANGED <<byte, state_, pressed, screen, typed>>

-----------------------------------------------------------------------------
(* The driver.                                                             *)

Init ==
  /\ down = {}
  /\ fifo = <<>>
  /\ byte = NoByte
  /\ state_ = "wait"
  /\ pressed = {}
  /\ screen = <<>>
  /\ typed = <<>>

\* handle_irq(): receive_byte(), then the state machine.
handle_irq ==
  /\ byte = NoByte
  /\ fifo # <<>>
  /\ byte' = Head(fifo)
  /\ fifo' = Tail(fifo)
  /\ UNCHANGED <<down, state_, pressed, screen, typed>>

\* A state's handle_byte() sets the next state and returns `cont`: the byte
\* is handled again; or `done`: the interrupt handler returns.
cont(next) == state_' = next /\ UNCHANGED byte
done(next) == state_' = next /\ byte' = NoByte

\* codeset2_1b_translation_table[byte] != __kb_key_none
Translated == byte \in Printable \cup Special

WaitState ==
  /\ byte # NoByte
  /\ state_ = "wait"
  /\ \/ byte = release_byte /\ cont("one_byte_key_released")
     \/ Translated /\ cont("one_byte_key_pressed")
     \/ byte # release_byte /\ ~Translated /\ cont("error")
  /\ UNCHANGED <<hardware, pressed, screen>>

\* The machine enters this state with a translated byte only.
OneByteKeyPressedState ==
  /\ byte # NoByte
  /\ state_ = "one_byte_key_pressed"
  /\ Translated
  /\ \/ /\ byte \notin pressed
        /\ pressed' = pressed \cup {byte}
        /\ cont("print")
     \/ /\ byte \in pressed
        /\ UNCHANGED pressed
        /\ cont("wait")
  /\ UNCHANGED <<hardware, screen>>

\* Mutant of OneByteKeyReleasedState: the key's status is not changed.
ReleaseForgotten ==
  /\ byte # NoByte
  /\ state_ = "one_byte_key_released"
  /\ \/ byte = release_byte /\ done("one_byte_key_released")
     \/ Translated /\ done("wait")
     \/ byte # release_byte /\ ~Translated /\ cont("error")
  /\ UNCHANGED <<hardware, pressed, screen>>

OneByteKeyReleasedState ==
  /\ byte # NoByte
  /\ state_ = "one_byte_key_released"
  /\ \/ /\ byte = release_byte
        /\ done("one_byte_key_released")
        /\ UNCHANGED pressed
     \/ /\ Translated
        /\ pressed' = pressed \ {byte}
        /\ done("wait")
     \/ /\ byte # release_byte /\ ~Translated
        /\ cont("error")
        /\ UNCHANGED pressed
  /\ UNCHANGED <<hardware, screen>>

\* The loop over kb_key: a set of keys in the order of their numbers.
InOrder(keys) ==
  CHOOSE s \in [1 .. Cardinality(keys) -> keys] :
    \A i, j \in DOMAIN s : i < j => s[i] < s[j]

\* Mutant of PrintState: the keys printed stay pressed.
PrintAgain ==
  /\ byte # NoByte
  /\ state_ = "print"
  /\ LET keys == InOrder(pressed \cap Printable)
         lshift == kb_key_lshift \in pressed
     IN  screen' = screen \o [i \in DOMAIN keys |-> Symbol(keys[i], lshift)]
  /\ done("wait")
  /\ UNCHANGED <<hardware, pressed>>

\* Every pressed printable key is put on the screen, in kb_key order, and
\* counts as released from then on.
PrintState ==
  /\ byte # NoByte
  /\ state_ = "print"
  /\ LET keys == InOrder(pressed \cap Printable)
         lshift == kb_key_lshift \in pressed
     IN  screen' = screen \o [i \in DOMAIN keys |-> Symbol(keys[i], lshift)]
  /\ pressed' = pressed \ Printable
  /\ done("wait")
  /\ UNCHANGED hardware

\* Mutant of ErrorState: the byte is handled again.
ErrorContinues ==
  /\ byte # NoByte
  /\ state_ = "error"
  /\ cont("wait")
  /\ UNCHANGED <<hardware, pressed, screen>>

ErrorState ==
  /\ byte # NoByte
  /\ state_ = "error"
  /\ done("wait")
  /\ UNCHANGED <<hardware, pressed, screen>>

HandleByte ==
  \/ WaitState
  \/ OneByteKeyPressedState
  \/ OneByteKeyReleasedState
  \/ PrintState
  \/ ErrorState

Next ==
  \/ \E key \in Keys : Press(key)
  \/ \E key \in Repeating : RepeatKey(key)
  \/ \E key \in Keys : Release(key)
  \/ handle_irq
  \/ HandleByte

Spec == Init /\ [][Next]_vars

\* The CPU runs the handler, and takes the interrupt of a byte that waits.
Fairness == WF_vars(handle_irq) /\ WF_vars(HandleByte)

FairSpec == Spec /\ Fairness

-----------------------------------------------------------------------------
(* Properties.                                                             *)

\* Every byte has been handled.
Quiet == fifo = <<>> /\ byte = NoByte

\* What is on the screen is what was typed, in order and with the shift that
\* was held at the time of typing, however late the bytes are handled; and
\* nothing is missing once they are (ps2_keyboard_sm.cpp:102-157).
PrintsWhatWasTyped ==
  /\ \E n \in 0 .. Len(typed) : screen = SubSeq(typed, 1, n)
  /\ Quiet => screen = typed

\* Once every byte has been handled the machine waits for a new key and the
\* driver knows which of the special keys are down.
KeyStatusFollowsKeyboard ==
  Quiet => state_ = "wait" /\ pressed = down \cap Special

\* The handler returns from every byte but those of keys that the driver
\* already holds for pressed; until it has returned it is not called for the
\* next interrupt of the device (ps2_keyboard_sm.hpp:121-124).
HandlerReturnsUnlessPressed ==
  byte # NoByte /\ byte \notin pressed ~> byte = NoByte

\* The handler returns from every byte.
HandlerReturns == byte # NoByte ~> byte = NoByte
=============================================================================
