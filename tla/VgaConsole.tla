----------------------------- MODULE VgaConsole -----------------------------
(***************************************************************************)
(* The text console, vga_console (src/kernel/devices/src/vga_console.cpp), *)
(* under the log (src/kernel/log): lines of the log that a task prints and *)
(* that interrupt handlers print in between, and symbols that the handler  *)
(* of the keyboard prints.                                                 *)
(*                                                                         *)
(* Nothing is locked.  A handler may come between any two loads and stores *)
(* of the task, and runs to its end before the task goes on.  The compiler *)
(* may load the line and the column in either order, may keep them in      *)
(* registers from cursor_address() on or load them again, also for the     *)
(* comparison that follows an increment, and may leave out a store that    *)
(* another one overwrites: all of these are possible steps.  The stores    *)
(* that are left come in the order of the source.                          *)
(***************************************************************************)
EXTENDS Integers, Sequences

CONSTANTS
  screen_height,
  screen_width,
  Symbol,         \* printable characters
  LF, CR,         \* line feed and carriage return
  Colour,         \* colours
  global_grey,    \* the colour at boot
  TaskColour,     \* the colour of the task's log level
  IrqColour,      \* the colour of the handlers' log level
  Prefix,         \* the prefix of a log line, one character
  MaxText         \* bound: characters printed

ASSUME ScreenAssumption ==
  /\ screen_height \in Nat \ {0}
  /\ screen_width \in Nat \ {0}
  /\ MaxText \in Nat
  /\ {LF, CR} \cap (Symbol \cup {Prefix}) = {}
  /\ LF # CR
  /\ {global_grey, TaskColour, IrqColour} \subseteq Colour

VARIABLES
  cursor_line,      \* as in the code
  cursor_column,
  global_fg,
  iomem,            \* the characters and colours on the screen
  pc,               \* where the task is in putc_color(), or "idle"
  reg,              \* its symbol, and the line, column and colour it has read
  log,              \* where it is in overflow(), and the character
  task,             \* _show_header and _saved_color of its log stream
  irq,              \* the handler: where it is, and its _saved_color
  text,             \* history: what was printed, in the intended colours, on
                    \* a roll of paper of the screen's width; see Feed
  torn,             \* history: a handler printed in the midst of putc_color()
  raced             \* history: the cursor had reached the edge, but a handler
                    \* moved it before it was loaded to be compared

vars == <<cursor_line, cursor_column, global_fg, iomem, pc, reg, log, task,
          irq, text, torn, raced>>

Characters == Symbol \cup {LF, CR}

Cells == 0 .. (screen_height * screen_width - 1)

Blank == [ch |-> " ", fg |-> global_grey]

\* kernel_main has cleared the screen.
Init ==
  /\ cursor_line = 0
  /\ cursor_column = 0
  /\ global_fg = global_grey
  /\ iomem = [i \in Cells |-> Blank]
  /\ pc = "idle"
  /\ reg = [symbol |-> LF, line |-> 0, column |-> 0, fg |-> global_grey]
  /\ log = [at |-> "none", c |-> LF]
  /\ task = [show_header |-> TRUE, saved_color |-> TaskColour]
  /\ irq = [at |-> "none", saved_color |-> IrqColour]
  /\ text = [rows |-> <<<<>>>>, column |-> 0, length |-> 0]
  /\ torn = FALSE
  /\ raced = FALSE

-----------------------------------------------------------------------------
(* The screen.                                                             *)

\* A store behind the screen changes nothing that is shown.
Stored(mem, address, cell) ==
  [i \in Cells |-> IF i = address THEN cell ELSE mem[i]]

\* Mutant of Scrolled: the last line is not cleared.
ScrolledUncleared(mem, fg) ==
  [i \in Cells |-> IF i + screen_width \in Cells THEN mem[i + screen_width] ELSE mem[i]]

\* scroll(); only its outcome is modelled, as nobody reads the screen.
Scrolled(mem, fg) ==
  [i \in Cells |-> IF i + screen_width \in Cells
                   THEN mem[i + screen_width]
                   ELSE [ch |-> " ", fg |-> fg]]

\* The reference: a roll of paper that a teleprinter puts the character t on.
Feed(paper, t) ==
  LET n == Len(paper.rows)
      row == paper.rows[n]
      column == paper.column
      put == IF column < Len(row)
             THEN [row EXCEPT ![column + 1] = t]
             ELSE Append(row, t)
      rows == IF t.ch \in {LF, CR} THEN paper.rows ELSE [paper.rows EXCEPT ![n] = put]
      breaks == t.ch = LF \/ (t.ch # CR /\ column + 1 = screen_width)
  IN  [rows |-> IF breaks THEN Append(rows, <<>>) ELSE rows,
       column |-> IF breaks \/ t.ch = CR THEN 0 ELSE column + 1,
       length |-> paper.length + 1]

Printed(c, fg) == text' = Feed(text, [ch |-> c, fg |-> fg])

-----------------------------------------------------------------------------
(* The task in putc_color(), one load or store at a time.                  *)

TaskRuns == irq.at = "none"

ScreenKept == UNCHANGED <<cursor_line, cursor_column, iomem>>

\* putc(c) reads the colour and calls putc_color().
putc(c) ==
  /\ reg' = [reg EXCEPT !.symbol = c, !.fg = global_fg]
  /\ pc' = CASE c = LF -> "line_break"
             [] c = CR -> "carriage_return"
             [] OTHER  -> "cell"
  /\ Printed(c, TaskColour)
  /\ ScreenKept
  /\ UNCHANGED <<global_fg, irq, torn, raced>>

LoadLine == reg' = [reg EXCEPT !.line = cursor_line]
LoadColumn == reg' = [reg EXCEPT !.column = cursor_column]

cursor_address ==
  /\ TaskRuns
  /\ \/ pc = "cell" /\ LoadLine /\ pc' = "cell_column"
     \/ pc = "cell" /\ LoadColumn /\ pc' = "cell_line"
     \/ pc = "cell_column" /\ LoadColumn /\ pc' = "store"
     \/ pc = "cell_line" /\ LoadLine /\ pc' = "store"
  /\ ScreenKept
  /\ UNCHANGED <<global_fg, log, task, irq, text, torn, raced>>

store_cell ==
  /\ TaskRuns
  /\ pc = "store"
  /\ iomem' = Stored(iomem, reg.line * screen_width + reg.column,
                     [ch |-> reg.symbol, fg |-> reg.fg])
  /\ pc' = "next"
  /\ UNCHANGED <<cursor_line, cursor_column, global_fg, reg, log, task, irq,
                 text, torn, raced>>

\* cursor_next(): the column is incremented and stored, ...
cursor_next ==
  /\ TaskRuns
  /\ pc = "next"
  /\ \E column \in {reg.column, cursor_column} :
       /\ reg' = [reg EXCEPT !.column = column + 1]
       /\ \/ cursor_column' = column + 1 /\ pc' = "compare_column"
          \/ column + 1 = screen_width /\ UNCHANGED cursor_column /\ pc' = "line_break"
  /\ UNCHANGED <<cursor_line, global_fg, iomem, log, task, irq, text, torn, raced>>

\* ... and it, or what is loaded again, is compared.
compare_column ==
  /\ TaskRuns
  /\ pc = "compare_column"
  /\ \E column \in {reg.column, cursor_column} :
       /\ pc' = IF column = screen_width THEN "line_break" ELSE "idle"
       /\ raced' = (raced \/ (reg.column = screen_width /\ column # screen_width))
  /\ ScreenKept
  /\ UNCHANGED <<global_fg, reg, log, task, irq, text, torn>>

\* line_break() and new_line(): the line is loaded, or known from
\* cursor_address(), ...
line_break ==
  /\ TaskRuns
  /\ pc = "line_break"
  /\ LoadLine \/ (reg.symbol # LF /\ UNCHANGED reg)
  /\ pc' = "new_line"
  /\ ScreenKept
  /\ UNCHANGED <<global_fg, log, task, irq, text, torn, raced>>

\* ... incremented and stored, ...
new_line ==
  /\ TaskRuns
  /\ pc = "new_line"
  /\ reg' = [reg EXCEPT !.line = reg.line + 1]
  /\ \/ cursor_line' = reg.line + 1 /\ pc' = "compare_line"
     \/ reg.line + 1 = screen_height /\ UNCHANGED cursor_line /\ pc' = "last_line"
  /\ UNCHANGED <<cursor_column, global_fg, iomem, log, task, irq, text, torn, raced>>

\* ... and it, or what is loaded again, is compared.
compare_line ==
  /\ TaskRuns
  /\ pc = "compare_line"
  /\ \E line \in {reg.line, cursor_line} :
       /\ pc' = IF line = screen_height THEN "last_line" ELSE "carriage_return"
       /\ raced' = (raced \/ (reg.line = screen_height /\ line # screen_height))
  /\ ScreenKept
  /\ UNCHANGED <<global_fg, reg, log, task, irq, text, torn>>

\* Mutant of last_line: the cursor stays below the screen.
last_line_below ==
  /\ TaskRuns
  /\ pc = "last_line"
  /\ pc' = "scroll"
  /\ UNCHANGED <<cursor_line, cursor_column, global_fg, iomem, reg, log, task, irq,
                 text, torn, raced>>

last_line ==
  /\ TaskRuns
  /\ pc = "last_line"
  /\ cursor_line' = screen_height - 1
  /\ pc' = "scroll"
  /\ UNCHANGED <<cursor_column, global_fg, iomem, reg, log, task, irq, text, torn, raced>>

scroll ==
  /\ TaskRuns
  /\ pc = "scroll"
  /\ iomem' = Scrolled(iomem, global_fg)
  /\ pc' = "carriage_return"
  /\ UNCHANGED <<cursor_line, cursor_column, global_fg, reg, log, task, irq,
                 text, torn, raced>>

carriage_return ==
  /\ TaskRuns
  /\ pc = "carriage_return"
  /\ cursor_column' = 0
  /\ pc' = "idle"
  /\ UNCHANGED <<cursor_line, global_fg, iomem, reg, log, task, irq, text, torn, raced>>

-----------------------------------------------------------------------------
(* The task in overflow() of its log stream.                               *)

LogAt(at) == TaskRuns /\ pc = "idle" /\ log.at = at

\* overflow(c), for a level that is enabled.
overflow(c) ==
  /\ LogAt("none")
  /\ text.length < MaxText
  /\ log' = [at |-> IF task.show_header THEN "save" ELSE "body", c |-> c]
  /\ ScreenKept
  /\ UNCHANGED <<global_fg, pc, reg, task, irq, text, torn, raced>>

\* Mutant of handle_pre_prefix: the colour is saved after it was set.
handle_pre_prefix_late ==
  \/ /\ LogAt("save")
     /\ log' = [log EXCEPT !.at = "colour"]
     /\ global_fg' = TaskColour
     /\ ScreenKept
     /\ UNCHANGED <<pc, reg, task, irq, text, torn, raced>>
  \/ /\ LogAt("colour")
     /\ task' = [task EXCEPT !.saved_color = global_fg]
     /\ log' = [log EXCEPT !.at = "prefix"]
     /\ ScreenKept
     /\ UNCHANGED <<global_fg, pc, reg, irq, text, torn, raced>>

handle_pre_prefix ==
  \/ /\ LogAt("save")
     /\ task' = [task EXCEPT !.saved_color = global_fg]
     /\ log' = [log EXCEPT !.at = "colour"]
     /\ ScreenKept
     /\ UNCHANGED <<global_fg, pc, reg, irq, text, torn, raced>>
  \/ /\ LogAt("colour")
     /\ global_fg' = TaskColour
     /\ log' = [log EXCEPT !.at = "prefix"]
     /\ ScreenKept
     /\ UNCHANGED <<pc, reg, task, irq, text, torn, raced>>

\* do_start_log_line() puts the prefix, overflow() clears _show_header.
do_start_log_line ==
  /\ LogAt("prefix")
  /\ putc(Prefix)
  /\ log' = [log EXCEPT !.at = "body"]
  /\ task' = [task EXCEPT !.show_header = FALSE]

put_character ==
  /\ LogAt("body")
  /\ putc(log.c)
  /\ log' = [log EXCEPT !.at = "printed"]
  /\ UNCHANGED task

\* do_end_long_line() and handle_end_line() at the end of a line.
handle_end_line ==
  /\ LogAt("printed")
  /\ global_fg' = IF log.c = LF THEN task.saved_color ELSE global_fg
  /\ task' = [task EXCEPT !.show_header = (log.c = LF)]
  /\ log' = [log EXCEPT !.at = "none"]
  /\ ScreenKept
  /\ UNCHANGED <<pc, reg, irq, text, torn, raced>>

-----------------------------------------------------------------------------
(* The handlers, in which putc_color() is not interrupted.                 *)

putc_color(c, fg) ==
  LET visible == c \notin {LF, CR}
      breaks == c = LF \/ (visible /\ cursor_column + 1 = screen_width)
      scrolls == breaks /\ cursor_line + 1 = screen_height
      stored == IF visible
                THEN Stored(iomem, cursor_line * screen_width + cursor_column,
                            [ch |-> c, fg |-> fg])
                ELSE iomem
  IN  /\ cursor_column' = IF breaks \/ c = CR THEN 0 ELSE cursor_column + 1
      /\ cursor_line' = CASE ~breaks  -> cursor_line
                          [] scrolls  -> screen_height - 1
                          [] OTHER    -> cursor_line + 1
      /\ iomem' = IF scrolls THEN Scrolled(stored, fg) ELSE stored
      /\ Printed(c, fg)
      /\ torn' = (torn \/ pc # "idle")
      /\ UNCHANGED <<pc, reg, log, task, raced>>

\* The keyboard's handler prints a symbol in the colour that it finds.
typed(c) ==
  /\ irq.at = "none"
  /\ text.length < MaxText
  /\ putc_color(c, global_fg)
  /\ UNCHANGED <<global_fg, irq>>

\* A handler prints a line of the log: overflow() of the first character
\* begins with the prefix, ...
irq_log_begins ==
  /\ irq.at = "none"
  /\ text.length < MaxText
  /\ irq' = [at |-> "line", saved_color |-> global_fg]
  /\ global_fg' = IrqColour
  /\ putc_color(Prefix, IrqColour)

irq_log_character(c) ==
  /\ irq.at = "line"
  /\ text.length < MaxText
  /\ putc_color(c, global_fg)
  /\ UNCHANGED <<global_fg, irq>>

\* ... and the last one, endl, restores the colour.
irq_log_ends ==
  /\ irq.at = "line"
  /\ irq' = [irq EXCEPT !.at = "none"]
  /\ putc_color(LF, global_fg)
  /\ global_fg' = irq.saved_color

TaskStep ==
  \/ \E c \in Characters : overflow(c)
  \/ handle_pre_prefix
  \/ do_start_log_line
  \/ put_character
  \/ handle_end_line
  \/ cursor_address
  \/ store_cell
  \/ cursor_next
  \/ compare_column
  \/ line_break
  \/ new_line
  \/ compare_line
  \/ last_line
  \/ scroll
  \/ carriage_return

IrqStep ==
  \/ \E c \in Symbol \cup {LF} : typed(c)
  \/ irq_log_begins
  \/ \E c \in Symbol : irq_log_character(c)
  \/ irq_log_ends

Next == TaskStep \/ IrqStep

Spec == Init /\ [][Next]_vars

-----------------------------------------------------------------------------
(* Properties.                                                             *)

AtRest == pc = "idle" /\ irq.at = "none"

OnLine(line) == line \in 0 .. (screen_height - 1)
InColumn(column) == column \in 0 .. (screen_width - 1)

OnScreen == OnLine(cursor_line) /\ InColumn(cursor_column)

\* Whenever neither the task nor a handler is printing, the cursor is on the
\* screen, at whatever load or store handlers came in between
\* (vga_console.cpp:118-165).  A cursor that skipped the width or the height
\* would never again compare equal to it; that takes a comparison that loads
\* the cursor again after the increment, and a handler just before the load.
CursorComesBack == AtRest /\ ~raced => OnScreen

\* The colour of the log ends with the line, also when a handler's line comes
\* in its midst (static_serial_log_buf.hpp:91-98): each stream has saved what
\* it found, and the handler's is done before the task goes on.
ColourIsRestored ==
  AtRest /\ log.at = "none" /\ task.show_header => global_fg = global_grey

\* Every variable keeps its type.
TypeOK ==
  /\ cursor_line \in Nat
  /\ cursor_column \in Nat
  /\ global_fg \in Colour
  /\ pc \in {"idle", "cell", "cell_line", "cell_column", "store", "next",
             "compare_column", "line_break", "new_line", "compare_line",
             "last_line", "scroll", "carriage_return"}
  /\ raced \in BOOLEAN
  /\ reg \in [symbol : Characters \cup {Prefix}, line : Nat, column : Nat, fg : Colour]
  /\ log \in [at : {"none", "save", "colour", "prefix", "body", "printed"}, c : Characters]
  /\ task \in [show_header : BOOLEAN, saved_color : Colour]
  /\ irq \in [at : {"none", "line"}, saved_color : Colour]

\* What makes CursorComesBack inductive: how far the cursor may be off the
\* screen depends on the stores that the task has yet to do.
CursorInv ==
  ~raced =>
    /\ pc \in {"idle", "cell", "cell_line", "cell_column", "store", "next"} => OnScreen
    /\ pc \in {"cell_line", "store", "next"} => InColumn(reg.column)
    /\ pc = "compare_column" => /\ reg.column \in 1 .. screen_width
                                /\ reg.column # screen_width => InColumn(cursor_column)
    /\ \/ pc \in {"cell_column", "store", "next", "compare_column", "new_line"}
       \/ pc = "line_break" /\ reg.symbol # LF
       => OnLine(reg.line)
    /\ pc = "compare_line" => /\ reg.line \in 1 .. screen_height
                              /\ reg.line # screen_height => OnLine(cursor_line)
    /\ pc \in {"compare_column", "line_break", "new_line", "scroll", "carriage_return"} =>
         OnLine(cursor_line)

\* The colour that the task finds when the handler has returned.
ColourOfTask == IF irq.at = "line" THEN irq.saved_color ELSE global_fg

\* What makes ColourIsRestored inductive.
ColourInv ==
  /\ log.at \in {"save", "colour", "prefix"} => task.show_header
  /\ log.at \in {"body", "printed"} => ~task.show_header
  /\ ColourOfTask = IF task.show_header /\ log.at # "prefix"
                    THEN global_grey
                    ELSE TaskColour
  /\ ~task.show_header \/ log.at \in {"colour", "prefix"} =>
       task.saved_color = global_grey

\* The screen shows the last rows of the text that was printed, wrapped at
\* the width, each character in the colour of its line of the log, as long as
\* handlers print only between two characters of the task.
ScreenShowsText ==
  AtRest /\ ~torn =>
    LET rows == text.rows
        first == IF Len(rows) > screen_height THEN Len(rows) - screen_height ELSE 0
    IN  \A i \in Cells :
          LET row == first + (i \div screen_width) + 1
              column == (i % screen_width) + 1
          IN  IF row <= Len(rows) /\ column <= Len(rows[row])
              THEN iomem[i] = rows[row][column]
              ELSE iomem[i].ch = " "
=============================================================================
