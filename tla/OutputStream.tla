---------------------------- MODULE OutputStream ----------------------------
(***************************************************************************)
(* lib::ostream (src/kernel/libkernelcxx/src/ostream.cpp), with the        *)
(* ScopedFormatGuard of the printers of interrupt frames (x86/src/irq.cpp) *)
(* and with the bounded buffer of SnprintfStream as the stream's sink.     *)
(*                                                                         *)
(* Characters are their ASCII codes.  Numbers have a width in bits and     *)
(* are signed or not; all integral types go through one template.          *)
(***************************************************************************)
EXTENDS Integers, FiniteSets, SequencesExt

CONSTANTS
  Numbers,      \* [value, bits]: numbers of some types
  Registers,    \* 32-bit values in an interrupt frame
  Strings,      \* strings
  Widths,       \* arguments of setw
  Fills,        \* arguments of setfill
  Lengths       \* lengths of the buffer

VARIABLES
  fmt,          \* format_, width_ and fillch_ of the stream
  memory,       \* the buffer and one byte behind it
  _buf,         \* as in the code, an index of memory
  _last,        \* as in the code
  text,         \* history: what was put, as far as a buffer can hold it
  number,       \* history: the number last inserted and what was put for it
  page          \* history: the parts of the interrupt frame last inserted

vars == <<fmt, memory, _buf, _last, text, number, page>>

NUL == 0
DIGIT_0 == 48
LETTER_A == 97
MINUS == 45
LF == 10
SPACE == 32
UNTOUCHED == -1

MaxLength == CHOOSE n \in Lengths : \A m \in Lengths : m <= n

-----------------------------------------------------------------------------
(* Formatting.                                                             *)

\* A format_ is the set of its flags.
dec(f) == [f EXCEPT !.format = (@ \ {"dec", "hex"}) \cup {"dec"}]
hex(f) == [f EXCEPT !.format = (@ \ {"dec", "hex"}) \cup {"hex"}]
setw(f, n) == [f EXCEPT !.width = n]
setfill(f, c) == [f EXCEPT !.fillch = c]

fill_field(f, already_have) ==
  [i \in 1 .. (IF f.width > already_have THEN f.width - already_have ELSE 0) |->
    f.fillch]

to_printable(digit) ==
  IF digit < 10 THEN DIGIT_0 + digit ELSE LETTER_A + digit - 10

\* Mutant of unsigned_value: the sign is dropped within the signed type.
unsigned_value_of_abs(f, value, bits) ==
  CASE value >= 0                           -> value
    [] value < 0 /\ f.format = {"hex"}      -> value % 2^bits
    [] OTHER                                -> (0 - value) % 2^(bits - 1)

\* The conversion of the value, or in decimal of its magnitude, to the
\* unsigned type of as many bits.
unsigned_value(f, value, bits) ==
  CASE value >= 0                           -> value
    [] value < 0 /\ f.format = {"hex"}      -> value % 2^bits
    [] OTHER                                -> (0 - value) % 2^bits

\* show_numerical_value(): the digits are found last one first.
show_numerical_value(f, value, bits) ==
  LET base == IF f.format = {"hex"} THEN 16 ELSE 10
      buffer[n \in Nat] ==
        IF n = 0 THEN <<>> ELSE <<to_printable(n % base)>> \o buffer[n \div base]
      digits == buffer[unsigned_value(f, value, bits)]
      nonempty == IF digits = <<>> THEN <<DIGIT_0>> ELSE digits
      signed == IF f.format = {"dec"} /\ value < 0
                THEN Append(nonempty, MINUS)
                ELSE nonempty
  IN  fill_field(f, Len(signed)) \o Reverse(signed)

\* operator<< of a string or a character.
show_string(f, string) == fill_field(f, Len(string)) \o string

-----------------------------------------------------------------------------
(* The printers of interrupt frames.  Their p is what they put, one    *)
(* entry for each insertion, and the format they leave.                    *)

Text(p, string) ==
  [p EXCEPT !.out = Append(@, [reg |-> -1, text |-> string, put |-> show_string(p.fmt, string)])]

endl(p) == [p EXCEPT !.out = Append(@, [reg |-> -1, text |-> <<LF>>, put |-> <<LF>>])]

Register(p, value) ==
  [p EXCEPT !.out = Append(@, [reg |-> value, text |-> <<>>,
                                  put |-> show_numerical_value(p.fmt, value, 32)])]

Setw(p, n) == [p EXCEPT !.fmt = setw(@, n)]
Hex(p) == [p EXCEPT !.fmt = hex(@)]
Setfill(p, c) == [p EXCEPT !.fmt = setfill(@, c)]

\* ScopedFormatGuard: the destructor copies back what the constructor copied.
Guarded(p, printed) == [printed EXCEPT !.fmt = p.fmt]

\* " name = " << setw(8) << value << setw(0)
Field(p, name, value) == Setw(Register(Setw(Text(p, name), 8), value), 0)

\* The name of a register: its length is all that matters.
Name == <<SPACE, LETTER_A, SPACE>>

\* operator<<(registers_dump_t): eax, then seven that look the same.
registers_dump(p, value) ==
  LET begun == Setfill(Hex(Setw(p, 0)), SPACE)
      eax == Setfill(Register(Setfill(Setw(Text(begun, Name), 8), DIGIT_0), value), SPACE)
      first == Text(Setw(eax, 0), <<SPACE>>)
      second == Text(Field(first, Name, value), <<SPACE>>)
      third == Text(Field(endl(second), Name, value), <<SPACE>>)
  IN  Guarded(p, third)

\* Mutant of execution_info_dump: the width is not taken back.
execution_info_dump_wide(p, value) ==
  LET begun == Hex(Setw(p, 0))
      eflags == Text(Register(Setw(Text(begun, Name), 8), value), <<SPACE>>)
  IN  Guarded(p, Field(eflags, Name, value))

\* operator<<(execution_info_dump_t): eflags and cs alike, then eip.
execution_info_dump(p, value) ==
  LET begun == Hex(Setw(p, 0))
      eflags == Text(Field(begun, Name, value), <<SPACE>>)
  IN  Guarded(p, Field(eflags, Name, value))

\* operator<<(int_frame_error_t)
int_frame_error(p, value) ==
  LET begun == Text(Setw(Hex(p), 0), Name)
      error_code == endl(Register(Setw(begun, 8), value))
      exe == endl(execution_info_dump(error_code, value))
  IN  Guarded(p, registers_dump(exe, value))

\* operator<<(int_frame_noerror_t)
int_frame_noerror(p, value) ==
  LET begun == Hex(Setw(p, 0))
      exe == endl(execution_info_dump(begun, value))
  IN  Guarded(p, registers_dump(exe, value))

-----------------------------------------------------------------------------
(* The sink.                                                               *)

\* Mutant of LastOf: the terminator's place is not kept.
LastOfAll(max_len) == max_len

\* The constructor's _last, relative to the buffer.
LastOf(max_len) == IF max_len = 0 THEN 0 ELSE max_len - 1

\* xsputn(s), and overflow(c) for one character: the text is cut off in
\* front of _last, where the terminator is.
xsputn(s) ==
  LET room == _last - _buf
      n == IF Len(s) < room THEN Len(s) ELSE room
      all == text \o s
  IN  /\ _buf' = _buf + n
      /\ memory' = IF room = 0
                   THEN memory
                   ELSE [i \in DOMAIN memory |->
                          CASE i \in _buf .. (_buf + n - 1) -> s[i - _buf + 1]
                            [] i = _buf + n                 -> NUL
                            [] OTHER                        -> memory[i]]
      /\ text' = SubSeq(all, 1, IF Len(all) < MaxLength THEN Len(all) ELSE MaxLength)
      /\ UNCHANGED _last

-----------------------------------------------------------------------------
NoNumber == [value |-> 0, bits |-> 0, put |-> <<>>]

\* SnprintfStream(buf, max_len): the constructor terminates an empty text,
\* even in a buffer of no bytes.
Init ==
  /\ fmt = [format |-> {"dec"}, width |-> 0, fillch |-> SPACE]
  /\ \E max_len \in Lengths :
       /\ memory = [i \in 0 .. max_len |-> IF i = 0 THEN NUL ELSE UNTOUCHED]
       /\ _last = LastOf(max_len)
  /\ _buf = 0
  /\ text = <<>>
  /\ number = NoNumber
  /\ page = <<>>

Manipulate(f) ==
  /\ fmt' = f
  /\ number' = NoNumber
  /\ page' = <<>>
  /\ UNCHANGED <<memory, _buf, _last, text>>

\* write(str, len), and put(c) for one character: no field is filled.
write(string) ==
  /\ xsputn(string)
  /\ number' = NoNumber
  /\ page' = <<>>
  /\ UNCHANGED fmt

\* operator<< of a string; a bool is the string true or false.
InsertString(string) ==
  /\ xsputn(show_string(fmt, string))
  /\ number' = NoNumber
  /\ page' = <<>>
  /\ UNCHANGED fmt

InsertNumber(n) ==
  LET put == show_numerical_value(fmt, n.value, n.bits)
  IN  /\ xsputn(put)
      /\ number' = [value |-> n.value, bits |-> n.bits, put |-> put]
      /\ page' = <<>>
      /\ UNCHANGED fmt

\* A frame is printed.
InsertFrame(printed) ==
  /\ xsputn(FlattenSeq([i \in DOMAIN printed.out |-> printed.out[i].put]))
  /\ page' = printed.out
  /\ fmt' = printed.fmt
  /\ number' = NoNumber

Next ==
  \/ Manipulate(dec(fmt))
  \/ Manipulate(hex(fmt))
  \/ \E n \in Widths : Manipulate(setw(fmt, n))
  \/ \E c \in Fills : Manipulate(setfill(fmt, c))
  \/ \E string \in Strings : write(string) \/ InsertString(string)
  \/ \E n \in Numbers : InsertNumber(n)
  \/ \E value \in Registers :
       \/ InsertFrame(int_frame_error([fmt |-> fmt, out |-> <<>>], value))
       \/ InsertFrame(int_frame_noerror([fmt |-> fmt, out |-> <<>>], value))

Spec == Init /\ [][Next]_vars

-----------------------------------------------------------------------------
(* Properties.                                                             *)

\* A numeral has digits of the base and no leading zeros.
IsNumeral(numeral, base) ==
  /\ numeral # <<>>
  /\ ToSet(numeral) \subseteq {to_printable(d) : d \in 0 .. (base - 1)}
  /\ Head(numeral) = DIGIT_0 => numeral = <<DIGIT_0>>

\* Its value, from the definition of positional notation.
Meaning(numeral, base) ==
  LET Digit(c) == CHOOSE d \in 0 .. (base - 1) : to_printable(d) = c
  IN  FoldLeft(LAMBDA acc, c : acc * base + Digit(c), 0, numeral)

\* What operator<< puts for a number is padding up to the width, then the
\* number's only numeral without leading zeros: a minus sign and the digits
\* of its magnitude in decimal, its bits in hexadecimal.  This holds for
\* zero and for the most negative number of a type, whose magnitude the type
\* cannot represent (ostream.cpp:263-303).
NumbersReadBack ==
  number # NoNumber =>
    \E k \in 0 .. Len(number.put) :
      LET hexadecimal == fmt.format = {"hex"}
          base == IF hexadecimal THEN 16 ELSE 10
          rest == SubSeq(number.put, k + 1, Len(number.put))
          negative == rest # <<>> /\ rest[1] = MINUS
          numeral == IF negative THEN Tail(rest) ELSE rest
      IN  /\ \A i \in 1 .. k : number.put[i] = fmt.fillch
          /\ k > 0 => Len(number.put) = fmt.width
          /\ Len(number.put) >= fmt.width
          /\ IsNumeral(numeral, base)
          /\ (IF negative THEN -Meaning(numeral, base) ELSE Meaning(numeral, base))
               = IF hexadecimal THEN number.value % 2^number.bits ELSE number.value

\* A register takes eight columns and the texts between the registers take
\* their own length, whatever width and filling the stream was left with: the
\* width stays after an insertion (ostream.cpp:298), so the printers have to
\* take it back themselves (irq.cpp:110-175).
DumpsAreAligned ==
  \A i \in DOMAIN page :
    IF page[i].reg = -1
    THEN page[i].put = page[i].text
    ELSE Len(page[i].put) = 8

\* The buffer holds the beginning of the text, terminated, and the byte
\* behind it is left alone (snprintf_stream.cpp:9-41), if there is room for
\* the terminator at all.
BufferHoldsPrefix ==
  LET max_len == CHOOSE n \in Lengths : DOMAIN memory = 0 .. n
  IN  max_len > 0 =>
        /\ memory[_buf] = NUL
        /\ [i \in 1 .. _buf |-> memory[i - 1]] = SubSeq(text, 1, _buf)
        /\ _buf = IF Len(text) < max_len THEN Len(text) ELSE max_len - 1
        /\ memory[max_len] = UNTOUCHED
=============================================================================
