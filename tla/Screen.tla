------------------------------- MODULE Screen -------------------------------
(***************************************************************************)
(* The page of the text that is on the screen and the cursor in it          *)
(* (src/display.c, include/display.h and the cursor motions of              *)
(* src/actions.c), as operators on display_info, a record of                *)
(*   file_size, page_start, page_end, cursor_addr,                          *)
(*   select   visual_select_addr,                                           *)
(*   hex_cols, hex_lines   what HEX_COLS and HEX_LINES come to,             *)
(*   crashed  whether a division by zero has ended the program.             *)
(* The preference "grouping" is 1, its default.  What is drawn where in the *)
(* windows is left out, but for the bytes that are highlighted.             *)
(***************************************************************************)
EXTENDS Integers

CONSTANT Unit   \* the 100 of update_percent: a share of the file is a percent

ASSUME UnitAssumption == Unit \in Nat \ {0}

Least(a, b) == IF a < b THEN a ELSE b
Most(a, b) == IF a > b THEN a ELSE b

(***************************************************************************)
(* The macros of include/display.h.                                        *)
(***************************************************************************)
SharedWidth(cols) == Most(cols - 9, 4)
MaxHexCols(cols) == (SharedWidth(cols) - 4) \div 4

\* a layout: LINES, COLS and the preference "max_cols", 0 for as many as fit
HexCols(layout) ==
  IF layout[3] = 0 THEN MaxHexCols(layout[2]) ELSE Least(MaxHexCols(layout[2]), layout[3])
HexLines(layout) == Most(layout[1] - 3, 3) - 2

BytesPerLine(d) == d.hex_cols
PageSize(d) == d.hex_lines * d.hex_cols

PageEnd(d) ==
  LET last == d.page_start + PageSize(d) - 1
  IN  IF last > d.file_size THEN Most(d.file_size - 1, 0) ELSE last

NoAddr == -1   \* INVALID_ADDR

AddressValid(d, addr) == addr \in 0 .. d.file_size - 1
OnPage(d, addr) == addr \in d.page_start .. d.page_end

LineStart(d, addr) == addr - ((addr - d.page_start) % BytesPerLine(d))

(***************************************************************************)
(* What update_display_info, print_screen and place_cursor make of it.     *)
(***************************************************************************)
\* page_start over a percent of file_size, between the first and the last page
UpdatePercent(d) ==
  [d EXCEPT !.crashed = \/ @
                        \/ /\ d.page_start # 0 /\ d.page_end # d.file_size - 1
                           /\ d.file_size \div Unit = 0]

\* a page without columns is divided by
PrintScreen(d, addr) ==
  LET turned == [d EXCEPT !.page_start = addr, !.crashed = @ \/ BytesPerLine(d) = 0]
  IN  [turned EXCEPT !.page_end = PageEnd(turned)]

UpdateDisplayInfo(d, size) ==
  IF BytesPerLine(d) = 0 THEN [d EXCEPT !.crashed = TRUE]
  ELSE LET page == PrintScreen([d EXCEPT !.file_size = size],
                               d.page_start - (d.page_start % BytesPerLine(d)))
       IN  UpdatePercent([page EXCEPT !.cursor_addr =
                            Least(Most(@, page.page_start), page.page_end)])

\* the lines of a distance, a part of a line being a line
Lines(d, distance) == (distance + BytesPerLine(d) - 1) \div BytesPerLine(d)

\* faulty: a part of a line is no line
TurnWhole(d, addr) ==
  CASE addr < d.page_start ->
         PrintScreen(d, d.page_start
                        - ((d.page_start - addr) \div BytesPerLine(d)) * BytesPerLine(d))
    [] addr > d.page_end ->
         PrintScreen(d, d.page_start
                        + ((addr - d.page_end) \div BytesPerLine(d)) * BytesPerLine(d))
    [] OTHER -> d

\* scrolled by lines until the address is on the page
Turn(d, addr) ==
  CASE addr < d.page_start ->
         UpdatePercent(PrintScreen(d, d.page_start - Lines(d, d.page_start - addr) * BytesPerLine(d)))
    [] addr > d.page_end ->
         UpdatePercent(PrintScreen(d, d.page_start + Lines(d, addr - d.page_end) * BytesPerLine(d)))
    [] OTHER -> d

\* place_cursor(addr, calign, CURSOR_REAL): the address goes by way of the
\* row and the column it has on the page
PlaceCursor(d, addr) ==
  LET turned == Turn(d, addr)
  IN  CASE AddressValid(d, addr) ->
             [turned EXCEPT !.cursor_addr = IF OnPage(turned, addr) THEN addr ELSE NoAddr]
        [] d.file_size = 0 -> [d EXCEPT !.cursor_addr = 0]
        [] OTHER -> d

(***************************************************************************)
(* The motions: the address a motion asks place_cursor for, NoAddr when it *)
(* asks for none or for one that is no address.  n is the count, 0 for none*)
(***************************************************************************)
Count(n) == IF n = 0 THEN 1 ELSE n

Up(d, n) ==
  LET to == d.cursor_addr - BytesPerLine(d) * Count(n)
      a == IF to < 0 THEN to % BytesPerLine(d) ELSE to
  IN  IF a >= d.cursor_addr THEN NoAddr ELSE a

\* at most one line behind the end, which is no address, after all
Down(d, n) ==
  LET to == d.cursor_addr + BytesPerLine(d) * Count(n)
      a == IF to > d.file_size THEN d.file_size - ((d.file_size - to) % BytesPerLine(d)) ELSE to
  IN  IF AddressValid(d, a) THEN a ELSE NoAddr

Left(d, n) ==
  LET a == Most(d.cursor_addr - Count(n), 0)
  IN  IF AddressValid(d, a) THEN a ELSE NoAddr

Right(d, n) ==
  LET a == Least(d.cursor_addr + Count(n), d.file_size)
  IN  IF AddressValid(d, a) THEN a ELSE NoAddr

ToLineStart(d) ==
  LET a == LineStart(d, d.cursor_addr)
  IN  IF OnPage(d, a) /\ AddressValid(d, a) THEN a ELSE NoAddr

ToLineEnd(d) ==
  LET a == ToLineStart(d) + BytesPerLine(d) - 1
  IN  IF AddressValid(d, a) THEN a ELSE d.file_size - 1

ToFileEnd(d) == d.file_size - 1

PageDown(d) ==
  LET a == d.cursor_addr + PageSize(d)
  IN  IF AddressValid(d, a) THEN a ELSE d.file_size - 1

PageUp(d) ==
  LET a == d.cursor_addr - PageSize(d)
  IN  IF AddressValid(d, a) THEN a ELSE 0

\* the motions that end in place_cursor whatever the address is
Always == {"line_start", "line_end", "file_start", "file_end", "page_down", "page_up", "jump"}

Motions == Always \cup {"up", "down", "left", "right"}

\* m is a record of the motion, its count n and, for a jump, the address to
Target(d, m) ==
  CASE m.key = "up" -> Up(d, m.n)
    [] m.key = "down" -> Down(d, m.n)
    [] m.key = "left" -> Left(d, m.n)
    [] m.key = "right" -> Right(d, m.n)
    [] m.key = "line_start" -> ToLineStart(d)
    [] m.key = "line_end" -> ToLineEnd(d)
    [] m.key = "file_start" -> 0
    [] m.key = "file_end" -> ToFileEnd(d)
    [] m.key = "page_down" -> PageDown(d)
    [] m.key = "page_up" -> PageUp(d)
    [] m.key = "jump" -> m.to

\* CURSOR_REAL: a motion that is refused leaves the cursor alone
Move(d, m) ==
  LET to == Target(d, m)
  IN  IF to = NoAddr /\ m.key \notin Always THEN d ELSE PlaceCursor(d, to)

\* CURSOR_VIRTUAL: display_info.virtual_cursor_addr, INVALID_ADDR before
Virtual(d, m) ==
  LET to == Target(d, m)
  IN  CASE to = NoAddr /\ m.key \notin Always -> NoAddr
        [] AddressValid(d, to) -> to
        [] OTHER -> d.cursor_addr

(***************************************************************************)
(* Visual select: what is highlighted, and what is acted on.               *)
(***************************************************************************)
IsVisualOn(d) == d.select # NoAddr

VisualAddr(d) == Least(d.cursor_addr, d.select)
VisualSpan(d) == Most(d.cursor_addr, d.select) - VisualAddr(d) + 1

\* print_line: the bytes shown in standout where they are on the page
Highlighted(d) ==
  {a \in 0 .. d.file_size - 1 :
     \/ d.select <= a /\ d.cursor_addr >= a
     \/ d.cursor_addr <= a /\ d.select >= a}

Laid(d, layout) == [d EXCEPT !.hex_cols = HexCols(layout), !.hex_lines = HexLines(layout)]

ResetDisplayInfo(size, layout) ==
  PrintScreen(Laid([file_size |-> size, page_start |-> 0, page_end |-> 0, cursor_addr |-> 0,
                    select |-> NoAddr, hex_cols |-> 0, hex_lines |-> 0, crashed |-> FALSE],
                   layout), 0)
=============================================================================
