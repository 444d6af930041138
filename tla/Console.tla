------------------------------- MODULE Console -------------------------------
(***************************************************************************)
(* The VGA text console of src/drivers/driver.cpp: a Rows x Cols buffer of *)
(* cells (character, attribute) written at the cursor, the cursor itself   *)
(* (cursor_row, cursor_col), the current colour, and the scrolling that    *)
(* moves every row up when the cursor leaves the last one.  The code fixes *)
(* 80 x 25; both are constants here.  The kernel is single-threaded when   *)
(* it prints, so each exported function is one step.                      *)
(*                                                                         *)
(* The ghost hist is the page of an unbounded terminal that never scrolls: *)
(* every cell written at screen row r is written at row top + r of hist,   *)
(* and a scroll only moves the window down (top + 1).  The screen must be  *)
(* the window of hist at top.                                              *)
(***************************************************************************)
EXTENDS Integers, Sequences

CONSTANTS
  Rows, Cols,     \* 25 and 80 in the code
  Chars,          \* the printable characters the kernel prints
  NL, BS,         \* '\n' and '\b'
  Texts,          \* the strings passed to cpp_print / cpp_println
  Header,         \* "PCI scan (first 24 devices):"
  DeviceLine,     \* the text of one device line, before its '\n'
  NoneLine,       \* "No PCI devices found."
  MaxShown,       \* 24: the devices cpp_pci_scan_brief lists at most
  MaxDevices,     \* bound on the devices present on the PCI bus
  Fgs, Bgs,       \* the arguments passed to cpp_set_color
  MaxScroll       \* bound on the scrolls between two clears

\* ' ', the character clear, scroll and backspace write.
Blank == " "

ASSUME ConsoleAssumption ==
  /\ Rows \in Nat \ {0} /\ Cols \in Nat \ {0}
  /\ NL # BS /\ {NL, BS} \cap Chars = {} /\ Blank \in Chars
  /\ Texts \subseteq Seq(Chars \cup {NL, BS})
  /\ {Header, DeviceLine, NoneLine} \subseteq Seq(Chars)
  /\ MaxShown \in Nat /\ MaxDevices \in Nat /\ MaxScroll \in Nat
  /\ Fgs \subseteq 0..255 /\ Bgs \subseteq 0..255

VARIABLES
  vga,            \* VGA[0 .. Rows*Cols - 1], one cell per character
  cursor_row, cursor_col,
  color,          \* the attribute byte of the cells written next
  hist, top       \* ghost: the unscrolled page and the row it shows at

vars == <<vga, cursor_row, cursor_col, color, hist, top>>

Cells == 0..(Rows * Cols - 1)
HistCells == 0..((Rows + MaxScroll) * Cols - 1)

\* vga_entry(c, col): the character in the low byte, the colour above.
Cell(c, attr) == [ch |-> c, attr |-> attr]

\* The BIOS leaves the text screen blank in light grey (0x07); the statics
\* start at row 0, column 0 and colour 0x0B.
BootCell == Cell(Blank, 7)
Boot == [vga |-> [i \in Cells |-> BootCell], row |-> 0, col |-> 0, color |-> 11,
         hist |-> [i \in HistCells |-> BootCell], top |-> 0]

\* The driver's state as one record, so that a call is a function of it.
St == [vga |-> vga, row |-> cursor_row, col |-> cursor_col, color |-> color,
       hist |-> hist, top |-> top]

\* The state after a call is st: the scrolls it made stay within the bound.
Becomes(st) ==
  /\ st.top <= MaxScroll
  /\ vga' = st.vga /\ cursor_row' = st.row /\ cursor_col' = st.col
  /\ color' = st.color /\ hist' = st.hist /\ top' = st.top

Init ==
  /\ vga = Boot.vga /\ cursor_row = 0 /\ cursor_col = 0 /\ color = 11
  /\ hist = Boot.hist /\ top = 0

-----------------------------------------------------------------------------
(* The steps of the code, as functions of the state.                       *)

\* VGA[cursor_row * 80 + cursor_col] = cell, and the same cell of the page.
WriteCell(st, cell) ==
  [st EXCEPT !.vga[st.row * Cols + st.col] = cell,
             !.hist[(st.top + st.row) * Cols + st.col] = cell]

\* Blank a row of the page as the new last row of the window.
NewPageRow(st) ==
  [i \in HistCells |->
     IF i \div Cols = st.top + Rows THEN Cell(Blank, st.color) ELSE st.hist[i]]

\* Mutant: the copy loop stops one row early (y < 24).
ScrollShort(st) ==
  IF st.row < Rows THEN st
  ELSE [st EXCEPT
          !.vga = [i \in Cells |-> IF i < (Rows - 2) * Cols THEN st.vga[i + Cols]
                                   ELSE IF i < (Rows - 1) * Cols THEN st.vga[i]
                                   ELSE Cell(Blank, st.color)],
          !.row = Rows - 1, !.top = st.top + 1, !.hist = NewPageRow(st)]

\* Mutant: the early return tests cursor_row <= 25.
ScrollLate(st) ==
  IF st.row <= Rows THEN st
  ELSE [st EXCEPT
          !.vga = [i \in Cells |-> IF i < (Rows - 1) * Cols THEN st.vga[i + Cols]
                                   ELSE Cell(Blank, st.color)],
          !.row = Rows - 1, !.top = st.top + 1, !.hist = NewPageRow(st)]

\* scroll_if_needed: once the cursor is below the last row, copy rows
\* 1..24 up by one (the forward copy reads each row before it is
\* overwritten), blank the last row in the current colour, and put the
\* cursor on it.
ScrollIfNeeded(st) ==
  IF st.row < Rows THEN st
  ELSE [st EXCEPT
          !.vga = [i \in Cells |-> IF i < (Rows - 1) * Cols THEN st.vga[i + Cols]
                                   ELSE Cell(Blank, st.color)],
          !.row = Rows - 1, !.top = st.top + 1, !.hist = NewPageRow(st)]

\* cpp_putc: '\n' starts a new line; '\b' blanks the cell before the cursor
\* on the same row only; any other character is written and the cursor
\* advances, wrapping to the next row at column 80; then scroll.
CppPutc(st, c) ==
  IF c = NL THEN ScrollIfNeeded([st EXCEPT !.col = 0, !.row = st.row + 1])
  ELSE IF c = BS
       THEN IF st.col > 0
            THEN WriteCell([st EXCEPT !.col = st.col - 1], Cell(Blank, st.color))
            ELSE st
  ELSE LET s1 == [WriteCell(st, Cell(c, st.color)) EXCEPT !.col = st.col + 1]
           s2 == IF s1.col >= Cols THEN [s1 EXCEPT !.col = 0, !.row = s1.row + 1]
                 ELSE s1
       IN  ScrollIfNeeded(s2)

\* cpp_print: cpp_putc on each character up to the NUL; P[i] is the state
\* after the first i characters.
CppPrint(st, s) ==
  LET P[i \in 0..Len(s)] == IF i = 0 THEN st ELSE CppPutc(P[i - 1], s[i])
  IN  P[Len(s)]

\* cpp_println: cpp_print, then '\n'.
CppPrintln(st, s) == CppPutc(CppPrint(st, s), NL)

\* cpp_pci_scan_brief with n devices answering on bus 0..255, slot 0..31:
\* the header, one line for each of the first 24, or the "none" line.
PciScan(st, n) ==
  LET shown == IF n < MaxShown THEN n ELSE MaxShown
      L[k \in 0..shown] == IF k = 0 THEN CppPrintln(st, Header)
                           ELSE CppPrintln(L[k - 1], DeviceLine)
  IN  IF n = 0 THEN CppPrintln(L[shown], NoneLine) ELSE L[shown]

-----------------------------------------------------------------------------
(* The calls.                                                              *)

CallPutc(c) == Becomes(CppPutc(St, c))

\* cpp_print(NULL) returns at once; that is the empty text here.
CallPrint(s) == Becomes(CppPrint(St, s))

CallPrintln(s) == Becomes(CppPrintln(St, s))

\* cpp_clear_screen: every cell blank in the current colour, cursor home.
CallClearScreen ==
  Becomes([St EXCEPT !.vga = [i \in Cells |-> Cell(Blank, color)],
                     !.row = 0, !.col = 0,
                     !.hist = [i \in HistCells |-> Cell(Blank, color)], !.top = 0])

\* cpp_set_color: color = (bg << 4) | (fg & 0x0F), truncated to a byte.
CallSetColor(fg, bg) ==
  /\ color' = (bg * 16 + (fg % 16)) % 256
  /\ UNCHANGED <<vga, cursor_row, cursor_col, hist, top>>

CallPciScan(n) == Becomes(PciScan(St, n))

\* cpp_reboot: print "Rebooting...", then pulse the reset line through the
\* keyboard controller (0xFE to port 0x64): the machine restarts, the BIOS
\* blanks the screen and the driver's statics take their initial values.
CallReboot ==
  /\ vga' = Boot.vga /\ cursor_row' = 0 /\ cursor_col' = 0 /\ color' = 11
  /\ hist' = Boot.hist /\ top' = 0

Next ==
  \/ \E c \in Chars \cup {NL, BS} : CallPutc(c)
  \/ \E s \in Texts : CallPrint(s) \/ CallPrintln(s)
  \/ CallClearScreen
  \/ \E fg \in Fgs, bg \in Bgs : CallSetColor(fg, bg)
  \/ \E n \in 0..MaxDevices : CallPciScan(n)
  \/ CallReboot

Spec == Init /\ [][Next]_vars

-----------------------------------------------------------------------------
(* Properties.                                                             *)

\* Between calls the cursor is on the screen, so the next cpp_putc writes
\* inside the 80 x 25 buffer (driver.cpp:52, 57): wrapping and '\n' push
\* it below the last row only for scroll_if_needed to bring it back.
CursorInBounds ==
  cursor_row \in 0..(Rows - 1) /\ cursor_col \in 0..(Cols - 1)

\* The screen shows the last lines of what was printed: after any mix of
\* writes, wraps, backspaces and scrolls, every cell holds what the
\* unscrolled page holds at the same place of the window (driver.cpp:13-27).
ScreenIsWindow ==
  \A i \in Cells : vga[i] = hist[top * Cols + i]

=============================================================================
