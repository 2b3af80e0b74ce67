-------------------------- MODULE VgaConsoleProofs --------------------------
(***************************************************************************)
(* The cursor comes back to the screen, the colour of the log is restored, *)
(* and the screen shows the text that was printed, for a screen of any     *)
(* size and texts of any length.                                           *)
(***************************************************************************)
EXTENDS VgaConsole, TLAPS

IInv == TypeOK /\ CursorInv /\ ColourInv

\* The cleared screen with the cursor in its corner.
LEMMA InitInv == Init => IInv
<1>. SUFFICES ASSUME Init PROVE IInv
  OBVIOUS
<1>1. TypeOK
  BY ScreenAssumption DEF Init, TypeOK, Characters
<1>2. CursorInv
  BY ScreenAssumption DEF Init, CursorInv, OnScreen, OnLine, InColumn
<1>3. ColourInv
  BY DEF Init, ColourInv, ColourOfTask
<1>. QED BY <1>1, <1>2, <1>3 DEF IInv

\* The steps of the task inside putc_color() leave the log alone.
LEMMA PutcStepKeepsInv ==
  ASSUME IInv,
         \/ cursor_address \/ store_cell \/ cursor_next \/ compare_column \/ line_break
         \/ new_line \/ compare_line \/ last_line \/ scroll \/ carriage_return
  PROVE  IInv'
<1>. USE ScreenAssumption DEF IInv
<1>1. ColourInv'
  BY DEF cursor_address, store_cell, cursor_next, compare_column, line_break, new_line,
    compare_line, last_line, scroll, carriage_return, ScreenKept, ColourInv, ColourOfTask
<1>. USE DEF TypeOK, CursorInv, OnScreen, OnLine, InColumn
<1>2. CASE cursor_address
  BY <1>1, <1>2 DEF cursor_address, LoadLine, LoadColumn, ScreenKept
<1>3. CASE store_cell
  BY <1>1, <1>3 DEF store_cell
<1>4. CASE cursor_next
  BY <1>1, <1>4 DEF cursor_next
<1>5. CASE compare_column
  BY <1>1, <1>5 DEF compare_column, ScreenKept
<1>6. CASE line_break
  BY <1>1, <1>6 DEF line_break, LoadLine, ScreenKept
<1>7. CASE new_line
  BY <1>1, <1>7 DEF new_line
<1>8. CASE compare_line
  BY <1>1, <1>8 DEF compare_line, ScreenKept
<1>9. CASE last_line
  BY <1>1, <1>9 DEF last_line
<1>10. CASE scroll
  BY <1>1, <1>10 DEF scroll
<1>11. CASE carriage_return
  BY <1>1, <1>11 DEF carriage_return
<1>. QED BY <1>2, <1>3, <1>4, <1>5, <1>6, <1>7, <1>8, <1>9, <1>10, <1>11

\* putc() starts from a cursor on the screen.
LEMMA PutcKeepsCursor ==
  ASSUME IInv, pc = "idle", NEW c \in Characters \cup {Prefix}, putc(c)
  PROVE  /\ CursorInv'
         /\ cursor_line' \in Nat /\ cursor_column' \in Nat /\ global_fg' \in Colour
         /\ (pc \in {"idle", "cell", "line_break", "carriage_return"})'
         /\ (reg \in [symbol : Characters \cup {Prefix}, line : Nat, column : Nat, fg : Colour])'
         /\ raced' \in BOOLEAN
  BY ScreenAssumption DEF IInv, putc, ScreenKept, TypeOK, CursorInv, OnScreen, OnLine,
    InColumn

\* The steps of overflow().
LEMMA LogStepKeepsInv ==
  ASSUME IInv,
         \/ \E c \in Characters : overflow(c)
         \/ handle_pre_prefix
         \/ do_start_log_line \/ put_character \/ handle_end_line
  PROVE  IInv'
<1>. USE ScreenAssumption DEF LogAt, TaskRuns
<1>1. CASE \E c \in Characters : overflow(c)
  BY <1>1 DEF IInv, overflow, ScreenKept, TypeOK, CursorInv, OnScreen, OnLine,
    InColumn, ColourInv, ColourOfTask
<1>2. CASE handle_pre_prefix
  BY <1>2 DEF IInv, handle_pre_prefix, ScreenKept, TypeOK, CursorInv, OnScreen, OnLine,
    InColumn, ColourInv, ColourOfTask
<1>3. CASE do_start_log_line
  <2>1. pc = "idle" /\ putc(Prefix)
    BY <1>3 DEF do_start_log_line
  <2>2. TypeOK' /\ CursorInv'
    BY <1>3, <2>1, PutcKeepsCursor DEF do_start_log_line, putc, IInv, TypeOK
  <2>3. ColourInv'
    BY <1>3 DEF do_start_log_line, putc, IInv, TypeOK, ColourInv, ColourOfTask
  <2>. QED BY <2>2, <2>3 DEF IInv
<1>4. CASE put_character
  <2>1. pc = "idle" /\ putc(log.c) /\ log.c \in Characters
    BY <1>4 DEF put_character, IInv, TypeOK
  <2>2. TypeOK' /\ CursorInv'
    BY <1>4, <2>1, PutcKeepsCursor DEF put_character, putc, IInv, TypeOK
  <2>3. ColourInv'
    BY <1>4 DEF put_character, putc, IInv, TypeOK, ColourInv, ColourOfTask
  <2>. QED BY <2>2, <2>3 DEF IInv
<1>5. CASE handle_end_line
  BY <1>5 DEF IInv, handle_end_line, ScreenKept, TypeOK, CursorInv, OnScreen, OnLine,
    InColumn, ColourInv, ColourOfTask
<1>. QED BY <1>1, <1>2, <1>3, <1>4, <1>5

\* A handler prints wherever it finds the cursor: on the screen it keeps it
\* there, and on a line of the screen it keeps it on such a line.
LEMMA IrqKeepsCursor ==
  ASSUME IInv, NEW c, NEW fg, putc_color(c, fg)
  PROVE  CursorInv' /\ cursor_line' \in Nat /\ cursor_column' \in Nat
<1>. USE ScreenAssumption
<1>1. cursor_line' \in Nat /\ cursor_column' \in Nat
  BY DEF putc_color, IInv, TypeOK
<1>2. cursor_line \in 0 .. (screen_height - 1) =>
        cursor_line' \in 0 .. (screen_height - 1)
  BY DEF putc_color, IInv, TypeOK
<1>3. cursor_column \in 0 .. (screen_width - 1) =>
        cursor_column' \in 0 .. (screen_width - 1)
  BY DEF putc_color, IInv, TypeOK
<1>4. pc' = pc /\ reg' = reg /\ raced' = raced
  BY DEF putc_color
<1>. QED BY <1>1, <1>2, <1>3, <1>4 DEF IInv, CursorInv, OnScreen, OnLine, InColumn

\* The steps of handlers.
LEMMA IrqStepKeepsInv ==
  ASSUME IInv, IrqStep
  PROVE  IInv'
<1>. USE ScreenAssumption
<1>1. CursorInv' /\ cursor_line' \in Nat /\ cursor_column' \in Nat
  BY IrqKeepsCursor DEF IrqStep, typed, irq_log_begins, irq_log_character, irq_log_ends
<1>2. pc' = pc /\ reg' = reg /\ log' = log /\ task' = task /\ raced' = raced
  BY DEF IrqStep, typed, irq_log_begins, irq_log_character, irq_log_ends, putc_color
<1>3. irq' \in [at : {"none", "line"}, saved_color : Colour] /\ global_fg' \in Colour
  BY DEF IrqStep, typed, irq_log_begins, irq_log_character, irq_log_ends, IInv, TypeOK
<1>4. ColourOfTask' = ColourOfTask
  BY DEF IrqStep, typed, irq_log_begins, irq_log_character, irq_log_ends, IInv,
    TypeOK, ColourOfTask
<1>. QED BY <1>1, <1>2, <1>3, <1>4 DEF IInv, TypeOK, ColourInv

\* Every step of the task and of the handlers keeps the cursor and the colour.
LEMMA NextKeepsInv == IInv /\ [Next]_vars => IInv'
<1>. SUFFICES ASSUME IInv, [Next]_vars PROVE IInv'
  OBVIOUS
<1>1. CASE TaskStep
  BY <1>1, PutcStepKeepsInv, LogStepKeepsInv DEF TaskStep
<1>2. CASE IrqStep
  BY <1>2, IrqStepKeepsInv
<1>3. CASE UNCHANGED vars
  BY <1>3 DEF vars, IInv, TypeOK, CursorInv, OnScreen, OnLine, InColumn, ColourInv,
    ColourOfTask
<1>. QED BY <1>1, <1>2, <1>3 DEF Next

\* Whatever handlers print between the loads and stores of putc_color(), the
\* cursor is on the screen when nobody prints (vga_console.cpp:118-165), up to
\* the first comparison that loads a cursor that a handler moved off the edge.
THEOREM CursorAlwaysComesBack == Spec => []CursorComesBack
<1>1. IInv => CursorComesBack
  BY DEF IInv, CursorInv, CursorComesBack, AtRest
<1>. QED BY InitInv, NextKeepsInv, <1>1, PTL DEF Spec

\* Between two lines of the task's log the colour is that of the boot, even
\* if handlers logged lines within its lines (static_serial_log_buf.hpp:91-98).
THEOREM ColourAlwaysRestored == Spec => []ColourIsRestored
<1>1. IInv => ColourIsRestored
  BY DEF IInv, ColourInv, ColourOfTask, ColourIsRestored, AtRest
<1>. QED BY InitInv, NextKeepsInv, <1>1, PTL DEF Spec
-----------------------------------------------------------------------------
(***************************************************************************)
(* The screen shows the text.                                              *)
(*                                                                         *)
(* The argument: Shown relates a cursor and a screen to the paper, and the *)
(* whole of putc_color() keeps it (PutShows).  While the task is inside    *)
(* putc_color() the paper has the character already, and Shown holds of    *)
(* the screen as it will be when the task's remaining steps are done       *)
(* (ScreenInv), unless a handler prints in the midst of them.              *)
(***************************************************************************)

\* line_break(): the line below, and the screen when the lines are moved up.
BreakLine(line) == IF line + 1 = screen_height THEN screen_height - 1 ELSE line + 1

BreakMem(line, mem, fg) == IF line + 1 = screen_height THEN Scrolled(mem, fg) ELSE mem

\* putc_color() of a visible character: the cell, then cursor_next().
CellMem(line, column, mem, cell) == Stored(mem, line * screen_width + column, cell)

\* The first row of the paper that is on the screen, less one.
FirstRow(rows) == IF Len(rows) > screen_height THEN Len(rows) - screen_height ELSE 0

\* What a place of the screen shows of a row.
CellShows(cell, rows, row, column) ==
  IF row <= Len(rows) /\ column <= Len(rows[row])
  THEN cell = rows[row][column]
  ELSE cell.ch = " "

Shows(mem, rows) ==
  \A r \in 0 .. (screen_height - 1), k \in 0 .. (screen_width - 1) :
    CellShows(mem[r * screen_width + k], rows, FirstRow(rows) + r + 1, k + 1)

Glyphs == [ch : Characters \cup {Prefix}, fg : Colour]

IsRoll(rows) ==
  /\ rows \in Seq(Seq(Glyphs))
  /\ Len(rows) > 0
  /\ \A i \in 1 .. Len(rows) : Len(rows[i]) <= screen_width

\* The next character goes over one of the last row or behind it.
IsColumn(column, rows) ==
  column \in 0 .. (screen_width - 1) /\ column <= Len(rows[Len(rows)])

\* The line of the last row.
LineOf(rows) == Len(rows) - 1 - FirstRow(rows)

Shown(line, column, mem, paper) ==
  /\ IsRoll(paper.rows)
  /\ IsColumn(paper.column, paper.rows)
  /\ line = LineOf(paper.rows)
  /\ column = paper.column
  /\ Shows(mem, paper.rows)

\* The same after a line break.
ShownBroken(line, mem, fg, paper) ==
  Shown(BreakLine(line), 0, BreakMem(line, mem, fg), paper)

\* The same after cursor_next().
ShownNext(line, column, mem, fg, paper) ==
  IF column + 1 = screen_width
  THEN ShownBroken(line, mem, fg, paper)
  ELSE Shown(line, column + 1, mem, paper)

ScreenInv ==
  ~torn =>
    /\ pc = "idle" => Shown(cursor_line, cursor_column, iomem, text)
    /\ pc \in {"cell", "cell_line", "cell_column", "store"} =>
         ShownNext(cursor_line, cursor_column,
                   CellMem(cursor_line, cursor_column, iomem,
                           [ch |-> reg.symbol, fg |-> reg.fg]),
                   global_fg, text)
    /\ pc \in {"cell_line", "store", "next", "compare_column"} => reg.column = cursor_column
    /\ \/ pc \in {"cell_column", "store", "next", "compare_column", "new_line", "compare_line"}
       \/ pc = "line_break" /\ reg.symbol # LF
       => reg.line = cursor_line
    /\ pc = "next" => ShownNext(cursor_line, cursor_column, iomem, global_fg, text)
    /\ pc = "compare_column" =>
         IF cursor_column = screen_width
         THEN ShownBroken(cursor_line, iomem, global_fg, text)
         ELSE Shown(cursor_line, cursor_column, iomem, text)
    /\ pc \in {"line_break", "new_line"} => ShownBroken(cursor_line, iomem, global_fg, text)
    /\ pc = "compare_line" =>
         IF cursor_line = screen_height
         THEN Shown(screen_height - 1, 0, Scrolled(iomem, global_fg), text)
         ELSE Shown(cursor_line, 0, iomem, text)
    /\ pc \in {"last_line", "scroll"} =>
         Shown(screen_height - 1, 0, Scrolled(iomem, global_fg), text)
    /\ pc = "scroll" => cursor_line = screen_height - 1
    /\ pc = "carriage_return" => Shown(cursor_line, 0, iomem, text)

\* Rows of a matrix do not overlap.
LEMMA RowsApart ==
  ASSUME NEW m \in Nat, NEW a \in Nat, NEW b \in Nat, a < b
  PROVE  a * m \in Nat /\ b * m \in Nat /\ a * m + m <= b * m
<1>1. PICK d \in Nat : b = a + 1 + d
  <2>1. b - a - 1 \in Nat /\ b = a + 1 + (b - a - 1)
    OBVIOUS
  <2>. QED BY <2>1
<1>2. b * m = a * m + m + d * m
  BY <1>1, Z3
<1>3. d * m \in Nat /\ a * m \in Nat
  BY <1>1, Z3
<1>4. a * m + m <= b * m
  BY <1>2, <1>3
<1>5. b * m \in Nat
  BY <1>2, <1>3
<1>. QED BY <1>3, <1>4, <1>5

\* The places of the screen are its cells, each is one cell, and the place
\* below is the cell that scroll() copies.
LEMMA Places ==
  ASSUME NEW r \in 0 .. (screen_height - 1), NEW k \in 0 .. (screen_width - 1)
  PROVE  /\ r * screen_width + k \in Cells
         /\ \A q \in 0 .. (screen_height - 1), j \in 0 .. (screen_width - 1) :
              r * screen_width + k = q * screen_width + j => r = q /\ k = j
         /\ (r * screen_width + k) + screen_width = (r + 1) * screen_width + k
         /\ (r + 1) * screen_width + k \in Cells <=> r + 1 < screen_height
<1>. DEFINE w == screen_width
            h == screen_height
<1>0. w \in Nat \ {0} /\ h \in Nat \ {0}
  BY ScreenAssumption
<1>. HIDE DEF w, h
<1>1. r \in Nat /\ k \in Nat /\ r < h /\ k < w
  BY <1>0 DEF w, h
<1>2. r * w \in Nat /\ h * w \in Nat /\ r * w + w <= h * w
  BY <1>0, <1>1, RowsApart
<1>3. r * w + k \in 0 .. (h * w - 1)
  BY <1>0, <1>1, <1>2
<1>4. ASSUME NEW q \in 0 .. (h - 1), NEW j \in 0 .. (w - 1), r * w + k = q * w + j
      PROVE  r = q /\ k = j
  <2>1. q \in Nat /\ j \in Nat /\ j < w
    BY <1>0
  <2>2. ~(r < q)
    <3>1. r < q => q * w \in Nat /\ r * w + w <= q * w
      BY <1>0, <1>1, <2>1, RowsApart
    <3>. QED BY <1>0, <1>1, <1>2, <1>4, <2>1, <3>1
  <2>3. ~(q < r)
    <3>1. q < r => q * w \in Nat /\ q * w + w <= r * w
      BY <1>0, <1>1, <2>1, RowsApart
    <3>. QED BY <1>0, <1>1, <1>2, <1>4, <2>1, <3>1
  <2>4. r = q
    BY <1>1, <2>1, <2>2, <2>3
  <2>. QED BY <1>1, <1>2, <1>4, <2>1, <2>4
<1>5. (r + 1) * w = r * w + w
  BY <1>0, <1>1, Z3
<1>6. (r * w + k) + w = (r + 1) * w + k
  BY <1>0, <1>1, <1>2, <1>5
<1>7. (r + 1) * w + k \in 0 .. (h * w - 1) <=> r + 1 < h
  <2>1. CASE r + 1 < h
    <3>1. (r + 1) * w + w <= h * w /\ (r + 1) * w \in Nat
      BY <1>0, <1>1, <2>1, RowsApart
    <3>. QED BY <1>0, <1>1, <1>2, <2>1, <3>1
  <2>2. CASE r + 1 = h
    BY <1>0, <1>1, <1>2, <1>5, <2>2
  <2>. QED BY <1>0, <1>1, <2>1, <2>2
<1>. QED BY <1>3, <1>4, <1>6, <1>7 DEF w, h, Cells

\* The last row is on the screen.
LEMMA LastRow ==
  ASSUME NEW rows, IsRoll(rows)
  PROVE  /\ Len(rows) \in Nat \ {0} /\ FirstRow(rows) \in Nat
         /\ LineOf(rows) \in 0 .. (screen_height - 1)
         /\ FirstRow(rows) + LineOf(rows) + 1 = Len(rows)
BY ScreenAssumption DEF IsRoll, FirstRow, LineOf

\* The row with the character put at the column.
PutRow(row, column, cell) ==
  IF column < Len(row) THEN [row EXCEPT ![column + 1] = cell] ELSE Append(row, cell)

\* The rows with the character put at the column of the last one.
PutRows(rows, column, cell) ==
  [rows EXCEPT ![Len(rows)] = PutRow(rows[Len(rows)], column, cell)]

\* The row that a character is put on keeps its other characters.
LEMMA PutRowProps ==
  ASSUME NEW row \in Seq(Glyphs), NEW cell \in Glyphs, NEW column \in Nat,
         column <= Len(row), column < screen_width, Len(row) <= screen_width
  PROVE  /\ PutRow(row, column, cell) \in Seq(Glyphs)
         /\ Len(PutRow(row, column, cell)) <= screen_width
         /\ column + 1 <= Len(PutRow(row, column, cell))
         /\ PutRow(row, column, cell)[column + 1] = cell
         /\ \A k \in Nat \ {column} :
              /\ k + 1 <= Len(PutRow(row, column, cell)) <=> k + 1 <= Len(row)
              /\ k + 1 <= Len(row) => PutRow(row, column, cell)[k + 1] = row[k + 1]
<1>. USE ScreenAssumption
<1>1. CASE column < Len(row)
  <2>. DEFINE put == [row EXCEPT ![column + 1] = cell]
  <2>1. put \in Seq(Glyphs) /\ Len(put) = Len(row)
    BY <1>1
  <2>2. \A i \in 1 .. Len(row) : put[i] = IF i = column + 1 THEN cell ELSE row[i]
    BY <1>1
  <2>3. PutRow(row, column, cell) = put
    BY <1>1 DEF PutRow
  <2>. HIDE DEF put
  <2>. QED BY <1>1, <2>1, <2>2, <2>3
<1>2. CASE column = Len(row)
  <2>. DEFINE put == Append(row, cell)
  <2>1. put \in Seq(Glyphs) /\ Len(put) = Len(row) + 1
    OBVIOUS
  <2>2. \A i \in 1 .. Len(put) : put[i] = IF i = Len(row) + 1 THEN cell ELSE row[i]
    OBVIOUS
  <2>3. PutRow(row, column, cell) = put
    BY <1>2 DEF PutRow
  <2>. HIDE DEF put
  <2>. QED BY <1>2, <2>1, <2>2, <2>3
<1>. QED BY <1>1, <1>2

\* A character goes into the cell under the cursor and on the paper.
LEMMA StoreShows ==
  ASSUME NEW rows, IsRoll(rows), NEW column, IsColumn(column, rows),
         NEW mem, Shows(mem, rows), NEW cell \in Glyphs,
         NEW put, put = PutRows(rows, column, cell)
  PROVE  /\ IsRoll(put)
         /\ Len(put) = Len(rows) /\ FirstRow(put) = FirstRow(rows) /\ LineOf(put) = LineOf(rows)
         /\ column + 1 <= Len(put[Len(put)])
         /\ Shows(CellMem(LineOf(rows), column, mem, cell), put)
<1>. USE ScreenAssumption
<1>. DEFINE n == Len(rows)
            row == rows[n]
            new == PutRow(row, column, cell)
            line == LineOf(rows)
            stored == CellMem(line, column, mem, cell)
<1>1. n \in Nat \ {0} /\ FirstRow(rows) \in Nat /\ line \in 0 .. (screen_height - 1)
        /\ FirstRow(rows) + line + 1 = n
  BY LastRow
<1>2. /\ row \in Seq(Glyphs) /\ Len(row) <= screen_width
      /\ column \in Nat /\ column < screen_width /\ column <= Len(row)
      /\ column \in 0 .. (screen_width - 1)
  BY <1>1 DEF IsRoll, IsColumn
<1>3. /\ new \in Seq(Glyphs) /\ Len(new) <= screen_width /\ column + 1 <= Len(new)
      /\ new[column + 1] = cell
      /\ \A k \in Nat \ {column} : /\ k + 1 <= Len(new) <=> k + 1 <= Len(row)
                                   /\ k + 1 <= Len(row) => new[k + 1] = row[k + 1]
  BY <1>2, PutRowProps
<1>. HIDE DEF new
<1>4. put \in Seq(Seq(Glyphs)) /\ Len(put) = n
  BY <1>1, <1>3 DEF IsRoll, new, PutRows
<1>5. \A i \in 1 .. n : put[i] = IF i = n THEN new ELSE rows[i]
  BY <1>1 DEF IsRoll, new, PutRows
<1>6. IsRoll(put)
  BY <1>1, <1>3, <1>4, <1>5 DEF IsRoll
<1>7. FirstRow(put) = FirstRow(rows) /\ LineOf(put) = line
  BY <1>4 DEF FirstRow, LineOf
<1>8. ASSUME NEW r \in 0 .. (screen_height - 1), NEW k \in 0 .. (screen_width - 1)
      PROVE  CellShows(stored[r * screen_width + k], put, FirstRow(put) + r + 1, k + 1)
  <2>. DEFINE p == r * screen_width + k
              i == FirstRow(rows) + r + 1
  <2>1. p \in Cells
    BY Places
  <2>2. stored[p] = IF p = line * screen_width + column THEN cell ELSE mem[p]
    BY <2>1 DEF CellMem, Stored
  <2>3. p = line * screen_width + column => r = line /\ k = column
    <3>1. \A q \in 0 .. (screen_height - 1), j \in 0 .. (screen_width - 1) :
            p = q * screen_width + j => r = q /\ k = j
      BY Places
    <3>. QED BY <1>1, <1>2, <3>1, Zenon
  <2>4. CellShows(mem[p], rows, i, k + 1)
    BY DEF Shows
  <2>5. i \in Nat \ {0} /\ k \in Nat /\ (i = n <=> r = line)
    BY <1>1
  <2>. HIDE DEF stored
  <2>6. CASE r = line /\ k = column
    <3>1. stored[p] = cell
      BY <2>2, <2>6
    <3>2. i = n /\ put[i] = new
      BY <1>1, <1>5, <2>5, <2>6
    <3>. HIDE DEF p, n
    <3>3. i <= Len(put) /\ k + 1 <= Len(put[i]) /\ put[i][k + 1] = cell
      BY <1>1, <1>3, <1>4, <2>6, <3>2
    <3>4. CellShows(stored[p], put, i, k + 1)
      BY <3>1, <3>3 DEF CellShows
    <3>. QED BY <1>7, <3>4 DEF p
  <2>7. CASE r = line /\ k # column
    <3>1. stored[p] = mem[p]
      BY <2>2, <2>3, <2>7
    <3>2. i = n /\ put[i] = new /\ rows[i] = row
      BY <1>1, <1>5, <2>5, <2>7
    <3>3. /\ k + 1 <= Len(new) <=> k + 1 <= Len(row)
          /\ k + 1 <= Len(row) => new[k + 1] = row[k + 1]
      BY <1>3, <2>5, <2>7
    <3>. HIDE DEF p, row, n
    <3>4. CellShows(mem[p], put, i, k + 1)
      BY <1>4, <2>4, <3>2, <3>3 DEF CellShows, n
    <3>. QED BY <1>7, <3>1, <3>4 DEF p
  <2>8. CASE r # line
    <3>1. stored[p] = mem[p]
      BY <2>2, <2>3, <2>8
    <3>2. i <= n => put[i] = rows[i]
      BY <1>1, <1>5, <2>5, <2>8
    <3>. HIDE DEF p, n
    <3>3. CellShows(mem[p], put, i, k + 1)
      BY <1>4, <2>4, <3>2 DEF CellShows, n
    <3>. QED BY <1>7, <3>1, <3>3 DEF p
  <2>. QED BY <2>6, <2>7, <2>8
<1>9. Shows(stored, put)
  BY <1>8 DEF Shows
<1>10. column + 1 <= Len(put[Len(put)])
  BY <1>1, <1>3, <1>4, <1>5
<1>. HIDE DEF stored, line, n
<1>. QED BY <1>4, <1>6, <1>7, <1>9, <1>10 DEF stored, line, n

\* One more row: either the screen is full and moves up, or the row is below
\* the last one.
LEMMA OneMoreRow ==
  ASSUME NEW rows, IsRoll(rows), NEW fed, Len(fed) = Len(rows) + 1
  PROVE  /\ LineOf(rows) + 1 = screen_height =>
              /\ FirstRow(fed) = FirstRow(rows) + 1
              /\ LineOf(fed) = screen_height - 1
         /\ LineOf(rows) + 1 # screen_height =>
              /\ FirstRow(fed) = 0 /\ FirstRow(rows) = 0
              /\ LineOf(fed) = LineOf(rows) + 1
<1>1. PICK n \in Nat \ {0} : n = Len(rows)
  BY LastRow
<1>. QED BY <1>1, ScreenAssumption DEF FirstRow, LineOf

\* A row that is not the new one shows as before.
LEMMA OldRowShows ==
  ASSUME NEW n \in Nat, NEW i \in 1 .. n, NEW rows, NEW fed, Len(rows) = n, Len(fed) = n + 1,
         fed[i] = rows[i], NEW cell, NEW column, CellShows(cell, rows, i, column)
  PROVE  CellShows(cell, fed, i, column)
<1>1. i <= n /\ i <= n + 1
  OBVIOUS
<1>. QED BY <1>1 DEF CellShows

\* The paper with an empty row more.
IsFed(rows, fed) ==
  /\ fed \in Seq(Seq(Glyphs))
  /\ Len(fed) = Len(rows) + 1
  /\ Len(fed[Len(rows) + 1]) = 0
  /\ \A i \in 1 .. Len(rows) : fed[i] = rows[i]

\* It is what Append makes.
LEMMA AppendFeeds ==
  ASSUME NEW rows, IsRoll(rows)
  PROVE  IsFed(rows, Append(rows, <<>>))
<1>1. << >> \in Seq(Glyphs) /\ Len(<< >>) = 0
  OBVIOUS
<1>. QED BY <1>1 DEF IsRoll, IsFed

\* A line break: a new row on the paper, and the screen moves up when it is
\* full.
LEMMA BreakShows ==
  ASSUME NEW rows, IsRoll(rows), NEW mem, Shows(mem, rows), NEW fg,
         NEW fed, IsFed(rows, fed)
  PROVE  /\ IsRoll(fed)
         /\ IsColumn(0, fed)
         /\ BreakLine(LineOf(rows)) = LineOf(fed)
         /\ Shows(BreakMem(LineOf(rows), mem, fg), fed)
<1>. USE ScreenAssumption
<1>. DEFINE n == Len(rows)
            line == LineOf(rows)
            broken == BreakMem(line, mem, fg)
<1>1. n \in Nat \ {0} /\ FirstRow(rows) \in Nat /\ line \in 0 .. (screen_height - 1)
        /\ FirstRow(rows) + line + 1 = n
  BY LastRow
<1>2. fed \in Seq(Seq(Glyphs)) /\ Len(fed) = n + 1
  BY DEF IsFed
<1>3. Len(fed[n + 1]) = 0 /\ \A i \in 1 .. n : fed[i] = rows[i]
  BY DEF IsFed
<1>4. \A i \in 1 .. n : Len(rows[i]) <= screen_width
  BY DEF IsRoll
<1>. HIDE DEF n, line
<1>7. IsRoll(fed) /\ IsColumn(0, fed)
  <2>1. ASSUME NEW i \in 1 .. (n + 1) PROVE Len(fed[i]) <= screen_width
    <3>1. CASE i = n + 1
      BY <1>3, <3>1
    <3>2. CASE i \in 1 .. n
      BY <1>3, <1>4, <3>2
    <3>. QED BY <1>1, <3>1, <3>2
  <2>. QED BY <1>1, <1>2, <1>3, <2>1 DEF IsRoll, IsColumn
<1>5. CASE line + 1 = screen_height
  <2>1. FirstRow(fed) = FirstRow(rows) + 1 /\ LineOf(fed) = screen_height - 1
    BY <1>2, <1>5, OneMoreRow DEF n, line
  <2>2. broken = Scrolled(mem, fg) /\ BreakLine(line) = screen_height - 1
    BY <1>5 DEF BreakMem, BreakLine
  <2>3. ASSUME NEW r \in 0 .. (screen_height - 1), NEW k \in 0 .. (screen_width - 1)
        PROVE  CellShows(broken[r * screen_width + k], fed, FirstRow(fed) + r + 1, k + 1)
    <3>. DEFINE p == r * screen_width + k
                i == FirstRow(rows) + (r + 1) + 1
    <3>1. /\ p \in Cells
          /\ p + screen_width = (r + 1) * screen_width + k
          /\ (r + 1) * screen_width + k \in Cells <=> r + 1 < screen_height
      BY Places
    <3>2. broken[p] = IF r + 1 < screen_height
                      THEN mem[(r + 1) * screen_width + k]
                      ELSE [ch |-> " ", fg |-> fg]
      BY <2>2, <3>1 DEF Scrolled
    <3>3. FirstRow(fed) + r + 1 = i /\ i \in Nat /\ k \in Nat
      <4>1. r \in Nat /\ k \in Nat
        OBVIOUS
      <4>2. \A a, b \in Nat : (a + 1) + b + 1 = a + (b + 1) + 1 /\ a + (b + 1) + 1 \in Nat
        OBVIOUS
      <4>. QED BY <1>1, <2>1, <4>1, <4>2
    <3>. HIDE DEF p, broken
    <3>4. CASE r + 1 < screen_height
      <4>1. r + 1 \in 0 .. (screen_height - 1) /\ i \in 1 .. n
        BY <1>1, <1>5, <3>4
      <4>2. CellShows(mem[(r + 1) * screen_width + k], rows, i, k + 1)
        BY <4>1 DEF Shows
      <4>3. CellShows(broken[p], fed, i, k + 1)
        <5>1. fed[i] = rows[i] /\ Len(rows) = n
          BY <1>3, <4>1 DEF n
        <5>2. CellShows(mem[(r + 1) * screen_width + k], fed, i, k + 1)
          BY <1>1, <1>2, <4>1, <4>2, <5>1, OldRowShows
        <5>3. broken[p] = mem[(r + 1) * screen_width + k]
          BY <3>2, <3>4
        <5>. QED BY <5>2, <5>3
      <4>. QED BY <3>3, <4>3 DEF p
    <3>5. CASE r + 1 = screen_height
      <4>1. i = n + 1
        BY <1>1, <1>5, <3>5
      <4>2. broken[p].ch = " "
        <5>1. ~(r + 1 < screen_height)
          BY <3>5
        <5>2. broken[p] = [ch |-> " ", fg |-> fg]
          BY <3>2, <5>1
        <5>. HIDE DEF broken
        <5>3. [ch |-> " ", fg |-> fg].ch = " "
          OBVIOUS
        <5>. QED BY <5>2, <5>3
      <4>3. ~(k + 1 <= Len(fed[i]))
        <5>1. Len(fed[i]) = 0
          BY <1>3, <4>1
        <5>. QED BY <3>3, <5>1
      <4>4. CellShows(broken[p], fed, i, k + 1)
        BY <4>2, <4>3 DEF CellShows
      <4>. QED BY <3>3, <4>4 DEF p
    <3>. QED BY <3>4, <3>5
  <2>. QED BY <1>7, <2>1, <2>2, <2>3 DEF Shows, line
<1>6. CASE line + 1 # screen_height
  <2>1. FirstRow(fed) = 0 /\ FirstRow(rows) = 0 /\ LineOf(fed) = line + 1
    BY <1>2, <1>6, OneMoreRow DEF n, line
  <2>2. broken = mem /\ BreakLine(line) = line + 1
    BY <1>6 DEF BreakMem, BreakLine
  <2>3. ASSUME NEW r \in 0 .. (screen_height - 1), NEW k \in 0 .. (screen_width - 1)
        PROVE  CellShows(mem[r * screen_width + k], fed, FirstRow(fed) + r + 1, k + 1)
    <3>. DEFINE p == r * screen_width + k
                i == r + 1
    <3>1. CellShows(mem[p], rows, FirstRow(rows) + r + 1, k + 1)
      BY DEF Shows
    <3>2. FirstRow(rows) + r + 1 = i /\ FirstRow(fed) + r + 1 = i /\ i \in Nat \ {0} /\ k \in Nat
      BY <2>1
    <3>. HIDE DEF p, i
    <3>0. CellShows(mem[p], rows, i, k + 1)
      BY <3>1, <3>2
    <3>3. CASE i <= n
      <4>1. i \in 1 .. n /\ Len(rows) = n
        BY <1>1, <3>2, <3>3 DEF n
      <4>2. CellShows(mem[p], fed, i, k + 1)
        BY <1>1, <1>2, <1>3, <3>0, <4>1, OldRowShows
      <4>. QED BY <3>2, <4>2 DEF p
    <3>4. CASE i = n + 1
      <4>1. ~(i <= Len(rows)) /\ ~(k + 1 <= Len(fed[i]))
        BY <1>1, <1>3, <3>2, <3>4 DEF n
      <4>2. CellShows(mem[p], fed, i, k + 1)
        BY <3>0, <4>1 DEF CellShows
      <4>. QED BY <3>2, <4>2 DEF p
    <3>5. CASE i > n + 1
      <4>1. ~(i <= Len(rows)) /\ ~(i <= Len(fed))
        BY <1>1, <1>2, <3>2, <3>5 DEF n
      <4>2. CellShows(mem[p], fed, i, k + 1)
        BY <3>0, <4>1 DEF CellShows
      <4>. QED BY <3>2, <4>2 DEF p
    <3>. QED BY <1>1, <3>2, <3>3, <3>4, <3>5
  <2>. QED BY <1>7, <2>1, <2>2, <2>3 DEF Shows, line
<1>. QED BY <1>5, <1>6

\* The paper after a character.
LEMMA FeedRows ==
  ASSUME NEW paper, NEW t,
         NEW put, put = PutRows(paper.rows, paper.column, t)
  PROVE  /\ t.ch = LF => /\ Feed(paper, t).rows = Append(paper.rows, <<>>)
                         /\ Feed(paper, t).column = 0
         /\ t.ch = CR => /\ Feed(paper, t).rows = paper.rows
                         /\ Feed(paper, t).column = 0
         /\ t.ch \notin {LF, CR} /\ paper.column + 1 = screen_width =>
              /\ Feed(paper, t).rows = Append(put, <<>>)
              /\ Feed(paper, t).column = 0
         /\ t.ch \notin {LF, CR} /\ paper.column + 1 # screen_width =>
              /\ Feed(paper, t).rows = put
              /\ Feed(paper, t).column = paper.column + 1
BY ScreenAssumption DEF Feed, PutRow, PutRows

\* putc_color(), the whole of it, keeps screen and paper alike
\* (vga_console.cpp:77-165).
LEMMA PutShows ==
  ASSUME NEW line, NEW column, NEW mem, NEW paper, Shown(line, column, mem, paper),
         NEW t \in Glyphs, NEW fg
  PROVE  /\ t.ch = LF => ShownBroken(line, mem, fg, Feed(paper, t))
         /\ t.ch = CR => Shown(line, 0, mem, Feed(paper, t))
         /\ t.ch \notin {LF, CR} =>
              ShownNext(line, column, CellMem(line, column, mem, t), fg, Feed(paper, t))
<1>. USE ScreenAssumption
<1>1. /\ IsRoll(paper.rows) /\ IsColumn(paper.column, paper.rows)
      /\ line = LineOf(paper.rows) /\ column = paper.column /\ Shows(mem, paper.rows)
  BY DEF Shown
<1>2. PICK put : put = PutRows(paper.rows, paper.column, t)
  OBVIOUS
<1>3. ASSUME t.ch = LF PROVE ShownBroken(line, mem, fg, Feed(paper, t))
  <2>1. Feed(paper, t).rows = Append(paper.rows, <<>>) /\ Feed(paper, t).column = 0
    BY <1>2, <1>3, FeedRows
  <2>2. IsFed(paper.rows, Feed(paper, t).rows)
    BY <1>1, <2>1, AppendFeeds
  <2>. QED BY <1>1, <2>1, <2>2, BreakShows DEF ShownBroken, Shown
<1>4. ASSUME t.ch = CR PROVE Shown(line, 0, mem, Feed(paper, t))
  <2>1. Feed(paper, t).rows = paper.rows /\ Feed(paper, t).column = 0
    BY <1>2, <1>4, FeedRows
  <2>2. IsColumn(0, paper.rows)
    <3>1. Len(paper.rows[Len(paper.rows)]) \in Nat
      BY <1>1, LastRow DEF IsRoll
    <3>. QED BY <3>1 DEF IsColumn
  <2>. QED BY <1>1, <2>1, <2>2 DEF Shown
<1>5. ASSUME t.ch \notin {LF, CR}
      PROVE  ShownNext(line, column, CellMem(line, column, mem, t), fg, Feed(paper, t))
  <2>. DEFINE stored == CellMem(line, column, mem, t)
  <2>1. /\ IsRoll(put) /\ Len(put) = Len(paper.rows) /\ LineOf(put) = line
        /\ column + 1 <= Len(put[Len(put)]) /\ Shows(stored, put)
    <3>1. /\ IsRoll(put) /\ Len(put) = Len(paper.rows)
          /\ LineOf(put) = LineOf(paper.rows)
          /\ paper.column + 1 <= Len(put[Len(put)])
          /\ Shows(CellMem(LineOf(paper.rows), paper.column, mem, t), put)
      BY <1>1, <1>2, StoreShows
    <3>. QED BY <1>1, <3>1, Zenon
  <2>. HIDE DEF stored
  <2>2. CASE column + 1 = screen_width
    <3>1. Feed(paper, t).rows = Append(put, <<>>) /\ Feed(paper, t).column = 0
      BY <1>1, <1>2, <1>5, <2>2, FeedRows
    <3>2. IsFed(put, Feed(paper, t).rows)
      BY <2>1, <3>1, AppendFeeds
    <3>3. ShownBroken(line, stored, fg, Feed(paper, t))
      BY <2>1, <3>1, <3>2, BreakShows DEF ShownBroken, Shown
    <3>. QED BY <2>2, <3>3 DEF ShownNext, stored
  <2>3. CASE column + 1 # screen_width
    <3>0. paper.column + 1 # screen_width
      BY <1>1, <2>3
    <3>1. Feed(paper, t).rows = put /\ Feed(paper, t).column = column + 1
      BY <1>1, <1>2, <1>5, <3>0, FeedRows
    <3>2. IsColumn(column + 1, put)
      BY <1>1, <2>1, <2>3 DEF IsColumn
    <3>3. Shown(line, column + 1, stored, Feed(paper, t))
      BY <2>1, <3>1, <3>2 DEF Shown
    <3>. QED BY <2>3, <3>3 DEF ShownNext, stored
  <2>. QED BY <2>2, <2>3
<1>. QED BY <1>3, <1>4, <1>5

-----------------------------------------------------------------------------
(* The steps.                                                              *)

\* The cleared screen shows empty paper.
LEMMA InitShows == Init => ScreenInv
<1>. SUFFICES ASSUME Init PROVE ScreenInv
  OBVIOUS
<1>. USE ScreenAssumption
<1>1. PICK rows : rows = <<<<>>>>
  OBVIOUS
<1>2. /\ rows \in Seq(Seq(Glyphs)) /\ Len(rows) = 1 /\ Len(rows[1]) = 0
  <2>1. << >> \in Seq(Glyphs) /\ Len(<< >>) = 0
    OBVIOUS
  <2>. QED BY <1>1, <2>1
<1>3. text.rows = rows /\ text.column = 0
  BY <1>1 DEF Init
<1>4. IsRoll(rows) /\ IsColumn(0, rows) /\ LineOf(rows) = 0 /\ FirstRow(rows) = 0
  <2>1. FirstRow(rows) = 0
    BY <1>2 DEF FirstRow
  <2>2. LineOf(rows) = 0
    BY <1>2, <2>1 DEF LineOf
  <2>3. \A i \in 1 .. Len(rows) : Len(rows[i]) <= screen_width
    <3>1. \A i \in 1 .. Len(rows) : i = 1
      BY <1>2
    <3>. QED BY <1>2, <3>1
  <2>4. Len(rows) > 0 /\ Len(rows[Len(rows)]) = 0
    BY <1>2
  <2>5. IsRoll(rows)
    BY <1>2, <2>3, <2>4 DEF IsRoll
  <2>6. IsColumn(0, rows)
    BY <2>4 DEF IsColumn
  <2>. QED BY <2>1, <2>2, <2>5, <2>6
<1>5. Shows(iomem, rows)
  <2>. SUFFICES ASSUME NEW r \in 0 .. (screen_height - 1), NEW k \in 0 .. (screen_width - 1)
               PROVE  CellShows(iomem[r * screen_width + k], rows, FirstRow(rows) + r + 1, k + 1)
    BY DEF Shows
  <2>. DEFINE p == r * screen_width + k
  <2>1. p \in Cells
    BY Places
  <2>2. iomem[p] = Blank
    BY <2>1 DEF Init
  <2>3. Blank.ch = " "
    BY DEF Blank
  <2>. HIDE DEF p
  <2>4. ~(r + 1 <= Len(rows) /\ k + 1 <= Len(rows[r + 1]))
    BY <1>2
  <2>5. FirstRow(rows) + r + 1 = r + 1
    BY <1>4
  <2>6. CellShows(iomem[p], rows, r + 1, k + 1)
    BY <2>2, <2>3, <2>4 DEF CellShows
  <2>. QED BY <2>5, <2>6 DEF p
<1>6. Shown(cursor_line, cursor_column, iomem, text)
  BY <1>3, <1>4, <1>5 DEF Init, Shown
<1>. QED BY <1>6 DEF Init, ScreenInv

\* The task's loads and stores approach the screen that putc_color() is to
\* leave.
LEMMA PutcStepShows ==
  ASSUME IInv, ScreenInv,
         \/ cursor_address \/ store_cell \/ cursor_next \/ compare_column \/ line_break
         \/ new_line \/ compare_line \/ last_line \/ scroll \/ carriage_return
  PROVE  ScreenInv'
<1>. SUFFICES ASSUME ~torn PROVE ScreenInv'
  BY DEF ScreenInv, cursor_address, store_cell, cursor_next, compare_column, line_break,
    new_line, compare_line, last_line, scroll, carriage_return
<1>1. CASE cursor_address
  <2>1. /\ UNCHANGED <<cursor_line, cursor_column, iomem, global_fg, text, torn>>
        /\ reg'.symbol = reg.symbol /\ reg'.fg = reg.fg
        /\ pc \in {"cell", "cell_line", "cell_column"}
        /\ pc' \in {"cell_line", "cell_column", "store"}
    BY <1>1 DEF cursor_address, LoadLine, LoadColumn, ScreenKept, IInv, TypeOK
  <2>2. pc' \in {"cell_line", "store"} => reg'.column = cursor_column
    BY <1>1 DEF cursor_address, LoadLine, LoadColumn, ScreenInv, IInv, TypeOK
  <2>3. pc' \in {"cell_column", "store"} => reg'.line = cursor_line
    BY <1>1 DEF cursor_address, LoadLine, LoadColumn, ScreenInv, IInv, TypeOK
  <2>. QED BY <2>1, <2>2, <2>3 DEF ScreenInv
<1>2. CASE store_cell
  <2>1. iomem' = CellMem(cursor_line, cursor_column, iomem,
                         [ch |-> reg.symbol, fg |-> reg.fg])
    BY <1>2 DEF store_cell, ScreenInv, CellMem
  <2>. QED BY <1>2, <2>1 DEF store_cell, ScreenInv
<1>3. CASE cursor_next
  <2>1. /\ ShownNext(cursor_line, cursor_column, iomem, global_fg, text)
        /\ reg.column = cursor_column /\ reg.line = cursor_line
    BY <1>3 DEF cursor_next, ScreenInv
  <2>2. /\ UNCHANGED <<cursor_line, iomem, global_fg, text, torn>>
        /\ reg'.column = cursor_column + 1 /\ reg'.line = cursor_line
        /\ \/ cursor_column' = cursor_column + 1 /\ pc' = "compare_column"
           \/ cursor_column + 1 = screen_width /\ pc' = "line_break"
    BY <1>3, <2>1 DEF cursor_next, IInv, TypeOK
  <2>3. CASE cursor_column' = cursor_column + 1 /\ pc' = "compare_column"
    BY <2>1, <2>2, <2>3 DEF ScreenInv, ShownNext
  <2>4. CASE cursor_column + 1 = screen_width /\ pc' = "line_break"
    BY <2>1, <2>2, <2>4 DEF ScreenInv, ShownNext
  <2>. QED BY <2>2, <2>3, <2>4
<1>4. CASE compare_column
  <2>1. /\ reg.column = cursor_column /\ reg.line = cursor_line
        /\ IF cursor_column = screen_width
           THEN ShownBroken(cursor_line, iomem, global_fg, text)
           ELSE Shown(cursor_line, cursor_column, iomem, text)
    BY <1>4 DEF compare_column, ScreenInv
  <2>2. /\ UNCHANGED <<cursor_line, cursor_column, iomem, global_fg, reg, text, torn>>
        /\ pc' = IF cursor_column = screen_width THEN "line_break" ELSE "idle"
    BY <1>4, <2>1 DEF compare_column, ScreenKept
  <2>. QED BY <2>1, <2>2 DEF ScreenInv
<1>5. CASE line_break
  <2>1. /\ UNCHANGED <<cursor_line, cursor_column, iomem, global_fg, text, torn>>
        /\ pc' = "new_line" /\ reg'.line = cursor_line
    BY <1>5 DEF line_break, LoadLine, ScreenKept, ScreenInv, IInv, TypeOK
  <2>2. ShownBroken(cursor_line, iomem, global_fg, text)
    BY <1>5 DEF line_break, ScreenInv
  <2>. QED BY <2>1, <2>2 DEF ScreenInv
<1>6. CASE new_line
  <2>1. ShownBroken(cursor_line, iomem, global_fg, text) /\ reg.line = cursor_line
    BY <1>6 DEF new_line, ScreenInv
  <2>2. /\ UNCHANGED <<cursor_column, iomem, global_fg, text, torn>>
        /\ reg'.line = cursor_line + 1
        /\ \/ cursor_line' = cursor_line + 1 /\ pc' = "compare_line"
           \/ cursor_line + 1 = screen_height /\ pc' = "last_line"
    BY <1>6, <2>1 DEF new_line, IInv, TypeOK
  <2>3. CASE cursor_line' = cursor_line + 1 /\ pc' = "compare_line"
    BY <2>1, <2>2, <2>3 DEF ScreenInv, ShownBroken, BreakLine, BreakMem
  <2>4. CASE cursor_line + 1 = screen_height /\ pc' = "last_line"
    BY <2>1, <2>2, <2>4 DEF ScreenInv, ShownBroken, BreakLine, BreakMem
  <2>. QED BY <2>2, <2>3, <2>4
<1>7. CASE compare_line
  <2>1. /\ reg.line = cursor_line
        /\ IF cursor_line = screen_height
           THEN Shown(screen_height - 1, 0, Scrolled(iomem, global_fg), text)
           ELSE Shown(cursor_line, 0, iomem, text)
    BY <1>7 DEF compare_line, ScreenInv
  <2>2. /\ UNCHANGED <<cursor_line, cursor_column, iomem, global_fg, reg, text, torn>>
        /\ pc' = IF cursor_line = screen_height THEN "last_line" ELSE "carriage_return"
    BY <1>7, <2>1 DEF compare_line, ScreenKept
  <2>. QED BY <2>1, <2>2 DEF ScreenInv
<1>8. CASE last_line
  BY <1>8 DEF last_line, ScreenInv
<1>9. CASE scroll
  BY <1>9 DEF scroll, ScreenInv
<1>10. CASE carriage_return
  BY <1>10 DEF carriage_return, ScreenInv
<1>. QED BY <1>1, <1>2, <1>3, <1>4, <1>5, <1>6, <1>7, <1>8, <1>9, <1>10

\* putc() of the task, in the colour of its log.
LEMMA PutcShows ==
  ASSUME IInv, ScreenInv, pc = "idle", NEW c \in Characters \cup {Prefix}, putc(c),
         global_fg = TaskColour
  PROVE  ScreenInv'
<1>. USE ScreenAssumption
<1>. SUFFICES ASSUME ~torn PROVE ScreenInv'
  BY DEF ScreenInv, putc
<1>1. PICK t : t = [ch |-> c, fg |-> TaskColour]
  OBVIOUS
<1>2. t \in Glyphs /\ t.ch = c
  BY <1>1 DEF Glyphs
<1>3. text' = Feed(text, t)
  BY <1>1 DEF putc, Printed
<1>4. Shown(cursor_line, cursor_column, iomem, text)
  BY DEF ScreenInv
<1>5. /\ UNCHANGED <<cursor_line, cursor_column, iomem, global_fg, torn>>
      /\ reg'.symbol = c /\ reg'.fg = TaskColour
  BY DEF putc, ScreenKept, IInv, TypeOK
<1>6. CASE c = LF
  <2>1. ShownBroken(cursor_line, iomem, global_fg, text')
    BY <1>2, <1>3, <1>4, <1>6, PutShows
  <2>2. pc' = "line_break"
    BY <1>6 DEF putc
  <2>. QED BY <1>5, <1>6, <2>1, <2>2 DEF ScreenInv
<1>7. CASE c = CR
  <2>1. Shown(cursor_line, 0, iomem, text')
    BY <1>2, <1>3, <1>4, <1>7, PutShows
  <2>2. pc' = "carriage_return"
    BY <1>7 DEF putc
  <2>. QED BY <1>5, <2>1, <2>2 DEF ScreenInv
<1>8. CASE c \notin {LF, CR}
  <2>1. ShownNext(cursor_line, cursor_column,
                  CellMem(cursor_line, cursor_column, iomem, t), global_fg, text')
    BY <1>2, <1>3, <1>4, <1>8, PutShows
  <2>2. pc' = "cell"
    BY <1>8 DEF putc
  <2>3. t = [ch |-> reg'.symbol, fg |-> reg'.fg]
    BY <1>1, <1>5
  <2>. QED BY <1>5, <2>1, <2>2, <2>3 DEF ScreenInv
<1>. QED BY <1>6, <1>7, <1>8

\* The steps of overflow() that print nothing leave screen and paper alone.
LEMMA LogStepShows ==
  ASSUME IInv, ScreenInv,
         \/ \E c \in Characters : overflow(c)
         \/ handle_pre_prefix
         \/ do_start_log_line \/ put_character \/ handle_end_line
  PROVE  ScreenInv'
<1>1. CASE (\E c \in Characters : overflow(c)) \/ handle_pre_prefix \/ handle_end_line
  <2>1. pc = "idle" /\ pc' = "idle" /\ UNCHANGED <<cursor_line, cursor_column, iomem, text, torn>>
    BY <1>1 DEF overflow, handle_pre_prefix, handle_end_line, LogAt, ScreenKept
  <2>. QED BY <2>1 DEF ScreenInv
<1>2. CASE do_start_log_line
  <2>1. pc = "idle" /\ putc(Prefix) /\ global_fg = TaskColour
    BY <1>2 DEF do_start_log_line, LogAt, TaskRuns, IInv, ColourInv, ColourOfTask
  <2>. QED BY <2>1, PutcShows
<1>3. CASE put_character
  <2>1. pc = "idle" /\ putc(log.c) /\ log.c \in Characters /\ global_fg = TaskColour
    BY <1>3 DEF put_character, LogAt, TaskRuns, IInv, TypeOK, ColourInv, ColourOfTask
  <2>. QED BY <2>1, PutcShows
<1>. QED BY <1>1, <1>2, <1>3

\* A handler prints a character as a whole, or tears one of the task's.
LEMMA IrqPutShows ==
  ASSUME IInv, ScreenInv, NEW c \in Symbol \cup {LF, Prefix}, NEW fg \in Colour,
         putc_color(c, fg)
  PROVE  ScreenInv'
<1>. USE ScreenAssumption
<1>1. CASE torn \/ pc # "idle"
  BY <1>1 DEF putc_color, ScreenInv
<1>2. CASE ~torn /\ pc = "idle"
  <2>1. PICK t : t = [ch |-> c, fg |-> fg]
    OBVIOUS
  <2>2. t \in Glyphs /\ t.ch = c /\ c # CR
    BY <2>1 DEF Glyphs, Characters
  <2>3. text' = Feed(text, t) /\ pc' = "idle"
    BY <1>2, <2>1 DEF putc_color, Printed
  <2>4. Shown(cursor_line, cursor_column, iomem, text)
    BY <1>2 DEF ScreenInv
  <2>5. CASE c = LF
    <3>1. ShownBroken(cursor_line, iomem, fg, text')
      BY <2>2, <2>3, <2>4, <2>5, PutShows
    <3>2. cursor_line' = BreakLine(cursor_line) /\ cursor_column' = 0
      BY <2>5 DEF putc_color, BreakLine
    <3>3. iomem' = BreakMem(cursor_line, iomem, fg)
      BY <2>5 DEF putc_color, BreakMem
    <3>4. Shown(cursor_line', cursor_column', iomem', text')
      BY <3>1, <3>2, <3>3 DEF ShownBroken
    <3>. QED BY <2>3, <3>4 DEF ScreenInv
  <2>6. CASE c # LF
    <3>. DEFINE stored == CellMem(cursor_line, cursor_column, iomem, t)
    <3>1. ShownNext(cursor_line, cursor_column, stored, fg, text')
      BY <2>2, <2>3, <2>4, <2>6, PutShows
    <3>2. CASE cursor_column + 1 = screen_width
      <4>1. cursor_line' = BreakLine(cursor_line) /\ cursor_column' = 0
        BY <2>2, <2>6, <3>2 DEF putc_color, BreakLine
      <4>2. iomem' = BreakMem(cursor_line, stored, fg)
        BY <2>1, <2>2, <2>6, <3>2 DEF putc_color, BreakMem, CellMem
      <4>. HIDE DEF stored
      <4>3. Shown(cursor_line', cursor_column', iomem', text')
        BY <3>1, <3>2, <4>1, <4>2 DEF ShownNext, ShownBroken
      <4>. QED BY <2>3, <4>3 DEF ScreenInv
    <3>3. CASE cursor_column + 1 # screen_width
      <4>1. cursor_line' = cursor_line /\ cursor_column' = cursor_column + 1
        BY <2>2, <2>6, <3>3 DEF putc_color
      <4>2. iomem' = stored
        BY <2>1, <2>2, <2>6, <3>3 DEF putc_color, CellMem
      <4>. HIDE DEF stored
      <4>3. Shown(cursor_line', cursor_column', iomem', text')
        BY <3>1, <3>3, <4>1, <4>2 DEF ShownNext
      <4>. QED BY <2>3, <4>3 DEF ScreenInv
    <3>. QED BY <3>2, <3>3
  <2>. QED BY <2>5, <2>6
<1>. QED BY <1>1, <1>2

\* Every step keeps screen and paper alike.
LEMMA NextShows == IInv /\ ScreenInv /\ [Next]_vars => ScreenInv'
<1>. SUFFICES ASSUME IInv, ScreenInv, [Next]_vars PROVE ScreenInv'
  OBVIOUS
<1>1. CASE TaskStep
  BY <1>1, PutcStepShows, LogStepShows DEF TaskStep
<1>2. CASE IrqStep
  <2>1. global_fg \in Colour /\ IrqColour \in Colour
    BY ScreenAssumption DEF IInv, TypeOK
  <2>. QED BY <1>2, <2>1, IrqPutShows
      DEF IrqStep, typed, irq_log_begins, irq_log_character, irq_log_ends
<1>3. CASE UNCHANGED vars
  BY <1>3 DEF vars, ScreenInv
<1>. QED BY <1>1, <1>2, <1>3 DEF Next

\* Whatever is printed, on a screen of any size: as long as handlers print
\* between two characters of the task, the screen shows the last rows of the
\* text, wrapped at the width, in the colours of the log, and nothing else
\* (vga_console.cpp:77-171).
THEOREM ScreenAlwaysShowsText == Spec => []ScreenShowsText
<1>1. ScreenInv => ScreenShowsText
  <2>. SUFFICES ASSUME ScreenInv, AtRest, ~torn, NEW i \in Cells
               PROVE  CellShows(iomem[i], text.rows,
                                FirstRow(text.rows) + (i \div screen_width) + 1,
                                (i % screen_width) + 1)
    BY DEF ScreenShowsText, CellShows, FirstRow
  <2>. DEFINE w == screen_width
              r == i \div w
              k == i % w
  <2>1. Shows(iomem, text.rows)
    BY DEF ScreenInv, AtRest, Shown
  <2>2. w \in Nat \ {0} /\ screen_height \in Nat \ {0} /\ i \in Nat /\ i < screen_height * w
    <3>1. screen_height \in Nat \ {0} /\ w \in Nat \ {0}
      BY ScreenAssumption
    <3>2. screen_height * w \in Nat
      BY <3>1, Z3
    <3>. QED BY <3>1, <3>2 DEF Cells
  <2>. HIDE DEF w
  <2>3. r \in Nat /\ k \in Nat /\ k < w /\ i = w * r + k
    <3>1. \A a \in Nat, b \in Nat \ {0} : /\ a \div b \in Nat /\ a % b \in Nat /\ a % b < b
                                        /\ a = b * (a \div b) + (a % b)
      BY Z3
    <3>. QED BY <2>2, <3>1
  <2>. HIDE DEF r, k
  <2>4. w * r = r * w
    BY <2>2, <2>3, Z3
  <2>5. r < screen_height
    <3>1. ~(screen_height < r + 1)
      <4>1. screen_height < r + 1 => screen_height * w + w <= (r + 1) * w
        BY <2>2, <2>3, RowsApart
      <4>2. (r + 1) * w = r * w + w /\ r * w \in Nat /\ screen_height * w \in Nat
        BY <2>2, <2>3, Z3
      <4>. QED BY <2>2, <2>3, <2>4, <4>1, <4>2
    <3>. QED BY <2>2, <2>3, <3>1
  <2>6. r \in 0 .. (screen_height - 1) /\ k \in 0 .. (screen_width - 1) /\ i = r * screen_width + k
    BY <2>2, <2>3, <2>4, <2>5 DEF w
  <2>7. CellShows(iomem[i], text.rows, FirstRow(text.rows) + r + 1, k + 1)
    BY <2>1, <2>6 DEF Shows
  <2>. QED BY <2>7 DEF r, k, w
<1>. QED BY InitInv, NextKeepsInv, InitShows, NextShows, <1>1, PTL DEF Spec
=============================================================================
