----------------------------- MODULE ConsoleProofs -----------------------------
(***************************************************************************)
(* Proofs that the VGA console of src/drivers/driver.cpp keeps its cursor  *)
(* on the screen and its screen equal to the window of the unscrolled page *)
(* (CursorInBounds and ScreenIsWindow of Console), for every screen size   *)
(* and every bound on the scrolls.                                         *)
(*                                                                         *)
(* The argument is about one driver state st at a time: GoodSt is the set  *)
(* of states whose cursor is on the screen and whose screen is the window  *)
(* of the page at top whenever that window lies inside the page.  Every    *)
(* cpp_putc maps GoodSt into GoodSt (the window clause is an implication   *)
(* because a call may scroll past MaxScroll midway; Becomes then refuses   *)
(* it).  cpp_print's loop and the PCI scan's loop are recursive functions  *)
(* over their iterations; IterExists gives each one a run inside GoodSt,   *)
(* LoopUnique shows the recursive function is that run.                    *)
(***************************************************************************)
EXTENDS Console, LoopInduction, TLAPS

-----------------------------------------------------------------------------
(* The states of the driver.                                               *)

CellT == [ch : Chars, attr : 0..255]

StateT == [vga : [Cells -> CellT], row : Nat, col : Nat, color : 0..255,
           hist : [HistCells -> CellT], top : Nat]

\* The screen is the window of the page at top, when that window is in it.
Win(st) ==
  st.top <= MaxScroll => \A i \in Cells : st.vga[i] = st.hist[st.top * Cols + i]

GoodSt == {st \in StateT : st.row \in 0..(Rows - 1) /\ st.col \in 0..(Cols - 1)
                           /\ Win(st)}

-----------------------------------------------------------------------------
(* Indices into the screen and the page.                                   *)

LEMMA Consts ==
  /\ Rows \in Nat /\ Rows > 0 /\ Cols \in Nat /\ Cols > 0 /\ MaxScroll \in Nat
  /\ Blank \in Chars /\ NL \notin Chars /\ BS \notin Chars /\ NL # BS
BY ConsoleAssumption

\* Cell (r, c) of a screen of Rows rows.
LEMMA CellIndex ==
  ASSUME NEW r \in 0..(Rows - 1), NEW c \in 0..(Cols - 1)
  PROVE  r * Cols + c \in Cells
<1>1. r * Cols <= (Rows - 1) * Cols
  BY Consts
<1>. QED  BY <1>1, Consts DEF Cells

\* A cell of the window at t, for t within the page.
LEMMA HistIndex ==
  ASSUME NEW t \in 0..MaxScroll, NEW i \in Cells
  PROVE  t * Cols + i \in HistCells
<1>1. t * Cols <= MaxScroll * Cols /\ i <= Rows * Cols - 1
  BY Consts DEF Cells
<1>2. (Rows + MaxScroll) * Cols = Rows * Cols + MaxScroll * Cols
  BY Consts
<1>. QED  BY <1>1, <1>2, Consts DEF Cells, HistCells

\* Division by a positive divisor.
LEMMA DivMod ==
  ASSUME NEW x \in Nat, NEW y \in Nat \ {0}
  PROVE  /\ x = y * (x \div y) + (x % y)
         /\ x % y \in 0..(y - 1) /\ x \div y \in Nat
OBVIOUS

\* The quotient is the only q with x = y * q + r and r in 0..(y - 1).
LEMMA DivUnique ==
  ASSUME NEW x \in Int, NEW y \in Nat \ {0}, NEW q \in Int, NEW r \in 0..(y - 1),
         x = y * q + r
  PROVE  x \div y = q
OBVIOUS

\* Multiplying by a natural keeps the order.
LEMMA MulMono ==
  ASSUME NEW a \in Nat, NEW b \in Int, NEW c \in Int, b <= c
  PROVE  a * b <= a * c
OBVIOUS

\* A screen index splits into its row and column.
LEMMA RowCol ==
  ASSUME NEW i \in Cells
  PROVE  /\ i \div Cols \in 0..(Rows - 1) /\ i % Cols \in 0..(Cols - 1)
         /\ i = (i \div Cols) * Cols + (i % Cols)
<1>0. i \in Nat /\ i < Rows * Cols /\ Cols \in Nat \ {0}
  BY Consts DEF Cells
<1>1. /\ i = Cols * (i \div Cols) + (i % Cols)
      /\ i % Cols \in 0..(Cols - 1) /\ i \div Cols \in Nat
  BY <1>0, DivMod
<1>2. i \div Cols < Rows
  <2> SUFFICES ASSUME i \div Cols >= Rows PROVE FALSE
    BY <1>1, Consts
  <2>1. Cols * Rows <= Cols * (i \div Cols)
    BY <1>0, <1>1, Consts, MulMono
  <2>. QED  BY <1>0, <1>1, <2>1, Consts
<1>. QED  BY <1>0, <1>1, <1>2, Consts

\* The row of the page that q * Cols + c lies on.
LEMMA DivRow ==
  ASSUME NEW q \in Nat, NEW c \in 0..(Cols - 1)
  PROVE  (q * Cols + c) \div Cols = q
<1>1. q * Cols + c \in Int /\ q * Cols + c = Cols * q + c /\ Cols \in Nat \ {0}
  BY Consts
<1>. QED  BY <1>1, DivUnique

\* After a scroll, cell i of the window at t + 1 is on the new last row of
\* the page exactly when i is on the last row of the screen.
LEMMA ScrollRow ==
  ASSUME NEW t \in Nat, NEW i \in Cells
  PROVE  (((t + 1) * Cols + i) \div Cols = t + Rows) <=> (i >= (Rows - 1) * Cols)
<1> DEFINE r == i \div Cols
           c == i % Cols
<1>0. i \in Nat
  BY Consts DEF Cells
<1>1. r \in 0..(Rows - 1) /\ c \in 0..(Cols - 1) /\ i = r * Cols + c
  BY RowCol
<1>2. (t + 1) * Cols + i = (t + 1 + r) * Cols + c /\ t + 1 + r \in Nat
  BY <1>0, <1>1, Consts
<1>3. ((t + 1) * Cols + i) \div Cols = t + 1 + r
  BY <1>1, <1>2, DivRow
<1>4. r = Rows - 1 => i >= (Rows - 1) * Cols
  BY <1>1, Consts
<1>5. r < Rows - 1 => i < (Rows - 1) * Cols
  <2> SUFFICES ASSUME r < Rows - 1 PROVE i < (Rows - 1) * Cols
    OBVIOUS
  <2>1. r * Cols <= (Rows - 2) * Cols
    BY <1>1, Consts
  <2>. QED  BY <2>1, <1>1, Consts
<1>. QED  BY <1>1, <1>3, <1>4, <1>5, Consts

-----------------------------------------------------------------------------
(* One write and one scroll.                                               *)

LEMMA BlankCell ==
  ASSUME NEW st \in StateT
  PROVE  Cell(Blank, st.color) \in CellT
BY Consts DEF Cell, CellT, StateT

\* VGA[cursor_row * 80 + cursor_col] = cell writes the screen and the page
\* at the same place of the window, and moves nothing else.
LEMMA WriteGood ==
  ASSUME NEW st \in GoodSt, NEW cell \in CellT
  PROVE  /\ WriteCell(st, cell) \in GoodSt
         /\ WriteCell(st, cell).row = st.row /\ WriteCell(st, cell).col = st.col
         /\ WriteCell(st, cell).color = st.color
<1> DEFINE p == st.row * Cols + st.col
           h == (st.top + st.row) * Cols + st.col
           w == WriteCell(st, cell)
<1>0. st \in StateT /\ st.row \in 0..(Rows - 1) /\ st.col \in 0..(Cols - 1) /\ Win(st)
  BY DEF GoodSt
<1>1. p \in Cells
  BY <1>0, CellIndex
<1>2. /\ w.vga = [st.vga EXCEPT ![p] = cell] /\ w.hist = [st.hist EXCEPT ![h] = cell]
      /\ w.row = st.row /\ w.col = st.col /\ w.color = st.color /\ w.top = st.top
  BY <1>0 DEF WriteCell, StateT
<1>3. w \in StateT
  BY <1>0, <1>1, <1>2 DEF WriteCell, StateT
<1>4. Win(w)
  <2> SUFFICES ASSUME st.top <= MaxScroll, NEW i \in Cells
               PROVE  w.vga[i] = w.hist[st.top * Cols + i]
    BY <1>2 DEF Win
  <2>1. st.top \in 0..MaxScroll /\ i \in Nat /\ p \in Nat
    BY <1>0, <1>1, Consts DEF StateT, Cells
  <2>2. st.top * Cols + i \in HistCells /\ st.top * Cols + p \in HistCells
    BY <1>1, <2>1, HistIndex
  <2>3. h = st.top * Cols + p /\ (st.top * Cols + i = h <=> i = p)
    BY <1>0, <2>1, Consts DEF StateT
  <2>4. st.vga[i] = st.hist[st.top * Cols + i]
    BY <1>0 DEF Win
  <2>. QED  BY <1>0, <1>1, <1>2, <2>2, <2>3, <2>4 DEF StateT
<1>. QED  BY <1>0, <1>2, <1>3, <1>4 DEF GoodSt

\* scroll_if_needed brings a cursor that is one row below the screen back
\* to the last row, and the screen it leaves is the window one row down.
LEMMA ScrollGood ==
  ASSUME NEW st \in StateT, st.row \in 0..Rows, st.col \in 0..(Cols - 1), Win(st)
  PROVE  ScrollIfNeeded(st) \in GoodSt
<1>1. CASE st.row < Rows
  <2>1. ScrollIfNeeded(st) = st
    BY <1>1 DEF ScrollIfNeeded
  <2>2. st.row \in 0..(Rows - 1)
    BY <1>1, Consts
  <2>. QED  BY <2>1, <2>2 DEF GoodSt
<1>2. CASE st.row = Rows
  <2> DEFINE nv == [i \in Cells |-> IF i < (Rows - 1) * Cols THEN st.vga[i + Cols]
                                    ELSE Cell(Blank, st.color)]
             s2 == [st EXCEPT !.vga = nv, !.row = Rows - 1, !.top = st.top + 1,
                              !.hist = NewPageRow(st)]
  <2>1. ScrollIfNeeded(st) = s2
    BY <1>2 DEF ScrollIfNeeded
  <2>2. \A i \in Cells : i < (Rows - 1) * Cols => i + Cols \in Cells
    BY Consts DEF Cells
  <2>3. nv \in [Cells -> CellT]
    BY <2>2, BlankCell DEF StateT
  <2>4. NewPageRow(st) \in [HistCells -> CellT]
    BY BlankCell DEF NewPageRow, StateT
  <2>5. /\ s2.vga = nv /\ s2.hist = NewPageRow(st) /\ s2.row = Rows - 1
        /\ s2.col = st.col /\ s2.color = st.color /\ s2.top = st.top + 1
    BY DEF StateT
  <2>6. s2 \in StateT
    <3>1. Rows - 1 \in Nat /\ st.top + 1 \in Nat /\ st.col \in Nat /\ st.color \in 0..255
      BY Consts DEF StateT
    <3>. QED  BY <2>3, <2>4, <3>1 DEF StateT
  <2>7. Win(s2)
    <3> SUFFICES ASSUME st.top + 1 <= MaxScroll, NEW i \in Cells
                 PROVE  nv[i] = NewPageRow(st)[(st.top + 1) * Cols + i]
      BY <2>5 DEF Win
    <3>0. st.top \in Nat /\ st.top + 1 \in 0..MaxScroll /\ i \in Nat
      BY Consts DEF StateT, Cells
    <3>1. (st.top + 1) * Cols + i \in HistCells
      BY <3>0, HistIndex
    <3>2. NewPageRow(st)[(st.top + 1) * Cols + i] =
            IF ((st.top + 1) * Cols + i) \div Cols = st.top + Rows
            THEN Cell(Blank, st.color) ELSE st.hist[(st.top + 1) * Cols + i]
      BY <3>1 DEF NewPageRow
    <3>3. (((st.top + 1) * Cols + i) \div Cols = st.top + Rows) <=> (i >= (Rows - 1) * Cols)
      BY <3>0, ScrollRow
    <3>4. CASE i < (Rows - 1) * Cols
      <4>1. i + Cols \in Cells /\ nv[i] = st.vga[i + Cols]
        BY <2>2, <3>4
      <4>2. st.vga[i + Cols] = st.hist[st.top * Cols + (i + Cols)]
        <5>1. st.top <= MaxScroll
          BY <3>0, Consts
        <5>2. \A j \in Cells : st.vga[j] = st.hist[st.top * Cols + j]
          BY <5>1 DEF Win
        <5>. QED  BY <4>1, <5>2
      <4>3. st.top * Cols + (i + Cols) = (st.top + 1) * Cols + i
        BY <3>0, Consts
      <4>4. ~(((st.top + 1) * Cols + i) \div Cols = st.top + Rows)
        BY <3>0, <3>3, <3>4, Consts
      <4>5. NewPageRow(st)[(st.top + 1) * Cols + i] = st.hist[(st.top + 1) * Cols + i]
        BY <3>2, <4>4
      <4>. QED  BY <4>1, <4>2, <4>3, <4>5
    <3>5. CASE ~(i < (Rows - 1) * Cols)
      BY <3>0, <3>2, <3>3, <3>5, Consts
    <3>. QED  BY <3>4, <3>5
  <2>8. s2.row \in 0..(Rows - 1)
    BY <2>5, Consts
  <2> HIDE DEF s2
  <2>. QED  BY <2>1, <2>5, <2>6, <2>7, <2>8 DEF GoodSt
<1>. QED  BY <1>1, <1>2, Consts

-----------------------------------------------------------------------------
(* cpp_putc, cpp_print, cpp_println.                                       *)

\* Moving the cursor (cursor_col = c; cursor_row = r) moves nothing else.
LEMMA CursorSet ==
  ASSUME NEW st \in StateT, Win(st), NEW r \in Nat, NEW c \in Nat
  PROVE  /\ [st EXCEPT !.col = c, !.row = r] \in StateT
         /\ Win([st EXCEPT !.col = c, !.row = r])
<1>1. [st EXCEPT !.col = c, !.row = r] \in StateT
  BY Zenon DEF StateT
<1>2. Win([st EXCEPT !.col = c, !.row = r])
  BY DEF StateT, Win
<1>. QED  BY <1>1, <1>2

\* The same for the column alone.
LEMMA ColSet ==
  ASSUME NEW st \in StateT, Win(st), NEW c \in Nat
  PROVE  /\ [st EXCEPT !.col = c] \in StateT
         /\ Win([st EXCEPT !.col = c])
<1>1. [st EXCEPT !.col = c] \in StateT
  BY Zenon DEF StateT
<1>2. Win([st EXCEPT !.col = c])
  BY DEF StateT, Win
<1>. QED  BY <1>1, <1>2

\* Every cpp_putc of a character the kernel prints, '\n' or '\b' leaves the
\* cursor on the screen and the screen the window of the page.
LEMMA PutcGood ==
  ASSUME NEW st \in GoodSt, NEW c \in Chars \cup {NL, BS}
  PROVE  CppPutc(st, c) \in GoodSt
<1>0. st \in StateT /\ st.row \in 0..(Rows - 1) /\ st.col \in 0..(Cols - 1) /\ Win(st)
  BY DEF GoodSt
<1>1. CASE c = NL
  <2> DEFINE s1 == [st EXCEPT !.col = 0, !.row = st.row + 1]
  <2>1. CppPutc(st, c) = ScrollIfNeeded(s1)
    BY <1>1 DEF CppPutc
  <2>2. st.row + 1 \in Nat /\ 0 \in Nat
    BY <1>0
  <2>3. s1 \in StateT /\ Win(s1) /\ s1.row \in 0..Rows /\ s1.col \in 0..(Cols - 1)
    <3>1. s1 \in StateT /\ Win(s1)
      BY <1>0, <2>2, CursorSet, Zenon
    <3>2. s1.row = st.row + 1 /\ s1.col = 0
      BY <1>0 DEF StateT
    <3>. QED  BY <1>0, <3>1, <3>2, Consts
  <2>. QED  BY <2>1, <2>3, ScrollGood
<1>2. CASE c = BS /\ st.col > 0
  <2> DEFINE s1 == [st EXCEPT !.col = st.col - 1]
  <2>1. CppPutc(st, c) = WriteCell(s1, Cell(Blank, st.color))
    <3>1. c # NL
      BY <1>2, Consts
    <3>. QED  BY <1>2, <3>1 DEF CppPutc
  <2>2. s1 \in StateT /\ Win(s1) /\ s1.row \in 0..(Rows - 1) /\ s1.col \in 0..(Cols - 1)
    <3>1. st.col - 1 \in Nat
      BY <1>0, <1>2
    <3>2. s1 \in StateT /\ Win(s1)
      BY <1>0, <3>1, ColSet, Zenon
    <3>3. s1.row = st.row /\ s1.col = st.col - 1
      BY <1>0 DEF StateT
    <3> HIDE DEF s1
    <3>. QED  BY <1>0, <1>2, <3>1, <3>2, <3>3, Consts
  <2>3. s1 \in GoodSt
    BY <2>2 DEF GoodSt
  <2>. QED  BY <1>0, <2>1, <2>3, BlankCell, WriteGood
<1>3. CASE c = BS /\ ~(st.col > 0)
  <2>1. c # NL
    BY <1>3, Consts
  <2>2. CppPutc(st, c) = st
    BY <1>3, <2>1 DEF CppPutc
  <2>. QED  BY <2>2
<1>4. CASE c \in Chars
  <2> DEFINE w == WriteCell(st, Cell(c, st.color))
             s1 == [w EXCEPT !.col = st.col + 1]
             s2 == IF s1.col >= Cols THEN [s1 EXCEPT !.col = 0, !.row = s1.row + 1]
                   ELSE s1
  <2>0. c # NL /\ c # BS
    BY <1>4, Consts
  <2>1. CppPutc(st, c) = ScrollIfNeeded(s2)
    BY <2>0 DEF CppPutc
  <2>2. Cell(c, st.color) \in CellT
    BY <1>0, <1>4 DEF Cell, CellT, StateT
  <2>3. w \in GoodSt /\ w.row = st.row /\ w.col = st.col
    BY <2>2, WriteGood
  <2>4. w \in StateT /\ Win(w)
    BY <2>3 DEF GoodSt
  <2>5. s1 \in StateT /\ Win(s1) /\ s1.row = st.row /\ s1.col = st.col + 1
    <3>1. st.col + 1 \in Nat
      BY <1>0
    <3>2. s1 \in StateT /\ Win(s1)
      BY <2>4, <3>1, ColSet, Zenon
    <3>3. s1.row = st.row /\ s1.col = st.col + 1
      BY <2>3, <2>4 DEF StateT
    <3>. QED  BY <3>2, <3>3
  <2>6. s2 \in StateT /\ Win(s2) /\ s2.row \in 0..Rows /\ s2.col \in 0..(Cols - 1)
    <3>1. CASE st.col + 1 >= Cols
      <4> DEFINE s3 == [s1 EXCEPT !.col = 0, !.row = s1.row + 1]
      <4>1. s2 = s3
        BY <2>5, <3>1
      <4>2. st.row + 1 \in Nat /\ 0 \in Nat /\ s1.row + 1 = st.row + 1
        BY <1>0, <2>5
      <4>3. s3 \in StateT /\ Win(s3)
        BY <2>5, <4>2, CursorSet, Zenon
      <4>4. s3.row = st.row + 1 /\ s3.col = 0
        BY <2>5 DEF StateT
      <4> HIDE DEF s1, s2, s3
      <4>. QED  BY <1>0, <4>1, <4>3, <4>4, Consts
    <3>2. CASE ~(st.col + 1 >= Cols)
      BY <1>0, <2>5, <3>2, Consts
    <3>. QED  BY <3>1, <3>2
  <2>. QED  BY <2>1, <2>6, ScrollGood
<1>. QED  BY <1>1, <1>2, <1>3, <1>4

\* LoopUnique as one formula, for use with abbreviations hidden.
LEMMA LoopUniqueAll ==
  \A X, Y : \A b \in Nat :
    (\A m \in 0..b : (m = 0 \/ X[m - 1] = Y[m - 1]) => X[m] = Y[m])
      => \A m \in 0..b : X[m] = Y[m]
BY LoopUnique

\* cpp_print runs cpp_putc on each character in turn: the loop stays in
\* GoodSt from start to end.
LEMMA PrintGood ==
  ASSUME NEW st \in GoodSt, NEW s \in Seq(Chars \cup {NL, BS})
  PROVE  CppPrint(st, s) \in GoodSt
<1> DEFINE n == Len(s)
           Body(H, i) == IF i = 0 THEN st ELSE CppPutc(H[i - 1], s[i])
           f == [p \in GoodSt \X Nat |->
                   IF p[2] \in 1..n THEN CppPutc(p[1], s[p[2]]) ELSE p[1]]
           F == CHOOSE F : F = [i \in 0..n |-> Body(F, i)]
<1>0. n \in Nat /\ \A i \in 1..n : s[i] \in Chars \cup {NL, BS}
  OBVIOUS
<1>1. f \in [GoodSt \X Nat -> GoodSt]
  BY <1>0, PutcGood
<1> HIDE DEF f, n
<1>2. PICK G \in [0..n -> GoodSt] :
             \A i \in 0..n : G[i] = IF i = 0 THEN st ELSE f[<<G[i - 1], i>>]
  <2>1. PICK G : IsRun(G, GoodSt, st, f, n)
    BY <1>0, <1>1, IterExists
  <2>. QED  BY <2>1 DEF IsRun
<1> USE DEF n
<1>3. ASSUME NEW i \in 0..n PROVE G[i] = Body(G, i)
  <2>1. CASE i = 0
    BY <1>2, <2>1
  <2>2. CASE i # 0
    <3>1. i - 1 \in 0..n /\ i \in 1..n /\ i \in Nat
      BY <2>2
    <3>2. <<G[i - 1], i>> \in GoodSt \X Nat
      BY <1>2, <3>1
    <3>3. f[<<G[i - 1], i>>] = CppPutc(G[i - 1], s[i])
      BY <3>1, <3>2 DEF f
    <3>. QED  BY <1>2, <2>2, <3>3
  <2>. QED  BY <2>1, <2>2
<1>4. G = [i \in 0..n |-> Body(G, i)]
  BY <1>2, <1>3
<1>5. F = [i \in 0..n |-> Body(F, i)]
  BY <1>4
<1> HIDE DEF F
<1>6. \A i \in 0..n : F[i] = G[i]
  <2>1. ASSUME NEW i \in 0..n, i = 0 \/ F[i - 1] = G[i - 1]
        PROVE  F[i] = G[i]
    <3>1. F[i] = Body(F, i) /\ G[i] = Body(G, i)
      BY <1>3, <1>5
    <3>2. Body(F, i) = Body(G, i)
      BY <2>1
    <3>. QED  BY <3>1, <3>2
  <2>2. \A i \in 0..n : (i = 0 \/ F[i - 1] = G[i - 1]) => F[i] = G[i]
    BY <2>1
  <2>3. n \in Nat
    BY <1>0
  <2> HIDE DEF n
  <2>. QED  BY <2>2, <2>3, LoopUniqueAll
<1>7. F[n] \in GoodSt
  BY <1>0, <1>2, <1>6
<1>. QED  BY <1>7 DEF CppPrint, F

\* cpp_println is cpp_print, then '\n'.
LEMMA PrintlnGood ==
  ASSUME NEW st \in GoodSt, NEW s \in Seq(Chars \cup {NL, BS})
  PROVE  CppPrintln(st, s) \in GoodSt
BY PrintGood, PutcGood DEF CppPrintln


\* The three texts of the PCI scan are texts cpp_println takes.
LEMMA PciTexts ==
  {Header, DeviceLine, NoneLine} \subseteq Seq(Chars \cup {NL, BS})
<1>1. Seq(Chars) \subseteq Seq(Chars \cup {NL, BS})
  OBVIOUS
<1>. QED  BY <1>1, ConsoleAssumption

\* cpp_pci_scan_brief keeps the cursor on the screen and the screen the
\* window of the page: its loop of cpp_println calls is the run of
\* PrintlnGood's step from the header's state.
LEMMA PciGood ==
  ASSUME NEW st \in GoodSt, NEW n \in Nat
  PROVE  PciScan(st, n) \in GoodSt
<1> DEFINE shown == IF n < MaxShown THEN n ELSE MaxShown
           start == CppPrintln(st, Header)
           Body(H, k) == IF k = 0 THEN start ELSE CppPrintln(H[k - 1], DeviceLine)
           f == [p \in GoodSt \X Nat |-> CppPrintln(p[1], DeviceLine)]
           L == CHOOSE L : L = [k \in 0..shown |-> Body(L, k)]
<1>0. shown \in Nat /\ start \in GoodSt
  BY PciTexts, PrintlnGood, ConsoleAssumption
<1>1. f \in [GoodSt \X Nat -> GoodSt]
  BY PciTexts, PrintlnGood
<1> HIDE DEF f, shown, start
<1>2. PICK G \in [0..shown -> GoodSt] :
             \A k \in 0..shown : G[k] = IF k = 0 THEN start ELSE f[<<G[k - 1], k>>]
  <2>1. PICK G : IsRun(G, GoodSt, start, f, shown)
    BY <1>0, <1>1, IterExists
  <2>. QED  BY <2>1 DEF IsRun
<1>3. ASSUME NEW k \in 0..shown PROVE G[k] = Body(G, k)
  <2>1. CASE k = 0
    BY <1>2, <2>1
  <2>2. CASE k # 0
    <3>1. k - 1 \in 0..shown /\ k \in Nat
      BY <1>0, <2>2
    <3>2. <<G[k - 1], k>> \in GoodSt \X Nat
      BY <1>2, <3>1
    <3>3. f[<<G[k - 1], k>>] = CppPrintln(G[k - 1], DeviceLine)
      BY <3>2 DEF f
    <3>. QED  BY <1>2, <2>2, <3>3
  <2>. QED  BY <2>1, <2>2
<1>4. L = [k \in 0..shown |-> Body(L, k)]
  <2>1. G = [k \in 0..shown |-> Body(G, k)]
    BY <1>2, <1>3
  <2>. QED  BY <2>1
<1> HIDE DEF L
<1>5. \A k \in 0..shown : L[k] = G[k]
  <2>1. ASSUME NEW k \in 0..shown, k = 0 \/ L[k - 1] = G[k - 1]
        PROVE  L[k] = G[k]
    <3>1. L[k] = Body(L, k) /\ G[k] = Body(G, k)
      BY <1>3, <1>4
    <3>2. Body(L, k) = Body(G, k)
      BY <2>1
    <3>. QED  BY <3>1, <3>2
  <2>2. \A k \in 0..shown : (k = 0 \/ L[k - 1] = G[k - 1]) => L[k] = G[k]
    BY <2>1
  <2>3. shown \in Nat
    BY <1>0
  <2>4. \A b \in Nat :
          (\A m \in 0..b : (m = 0 \/ L[m - 1] = G[m - 1]) => L[m] = G[m])
            => \A m \in 0..b : L[m] = G[m]
    BY LoopUniqueAll
  <2>5. (\A m \in 0..shown : (m = 0 \/ L[m - 1] = G[m - 1]) => L[m] = G[m])
          => \A m \in 0..shown : L[m] = G[m]
    BY <2>3, <2>4
  <2>. QED  BY <2>2, <2>5
<1>6. L[shown] \in GoodSt
  BY <1>0, <1>2, <1>5
<1>7. CppPrintln(L[shown], NoneLine) \in GoodSt
  BY <1>6, PciTexts, PrintlnGood
<1>. QED  BY <1>6, <1>7 DEF PciScan, L, shown, start


-----------------------------------------------------------------------------
(* The invariant of the calls.                                             *)

\* Between calls the driver's state is good and the window is in the page.
ConsoleInv == St \in GoodSt /\ top \in 0..MaxScroll

\* The state at power-on is good.
LEMMA BootGood == Boot \in GoodSt
<1>1. BootCell \in CellT
  BY Consts DEF BootCell, Cell, CellT
<1>2. \A i \in Cells : 0 * Cols + i \in HistCells
  BY HistIndex, Consts
<1>3. Boot \in StateT
  BY <1>1 DEF Boot, StateT
<1>4. Win(Boot)
  BY <1>2, Consts DEF Boot, Win
<1>. QED  BY <1>3, <1>4, Consts DEF GoodSt, Boot

\* A call that ends in a good state within the scroll bound keeps the
\* invariant.
LEMMA BecomesInv ==
  ASSUME NEW st \in GoodSt, Becomes(st)
  PROVE  ConsoleInv'
<1>1. St' = st
  BY DEF Becomes, St, GoodSt, StateT
<1>2. top' \in 0..MaxScroll
  BY Consts DEF Becomes, GoodSt, StateT
<1>. QED  BY <1>1, <1>2 DEF ConsoleInv

\* cpp_clear_screen leaves a good state.
LEMMA ClearGood ==
  ASSUME NEW st \in StateT
  PROVE  [st EXCEPT !.vga = [i \in Cells |-> Cell(Blank, st.color)],
                    !.row = 0, !.col = 0,
                    !.hist = [i \in HistCells |-> Cell(Blank, st.color)],
                    !.top = 0] \in GoodSt
<1> DEFINE cs == [st EXCEPT !.vga = [i \in Cells |-> Cell(Blank, st.color)],
                            !.row = 0, !.col = 0,
                            !.hist = [i \in HistCells |-> Cell(Blank, st.color)],
                            !.top = 0]
<1> SUFFICES cs \in GoodSt
  OBVIOUS
<1>1. Cell(Blank, st.color) \in CellT
  BY Consts DEF Cell, CellT, StateT
<1>2. cs \in StateT
  BY <1>1 DEF StateT
<1>3. cs.row = 0 /\ cs.col = 0 /\ cs.top = 0
      /\ cs.vga = [i \in Cells |-> Cell(Blank, st.color)]
      /\ cs.hist = [i \in HistCells |-> Cell(Blank, st.color)]
  BY DEF StateT
<1>4. \A i \in Cells : 0 * Cols + i \in HistCells
  BY HistIndex, Consts
<1>5. Win(cs)
  BY <1>3, <1>4, Consts DEF Win
<1> HIDE DEF cs
<1>. QED  BY <1>2, <1>3, <1>5, Consts DEF GoodSt

\* The invariant holds at power-on.
LEMMA InitInv == Init => ConsoleInv
<1> SUFFICES ASSUME Init PROVE ConsoleInv
  OBVIOUS
<1>1. St = Boot
  BY DEF Init, St, Boot
<1>. QED  BY <1>1, BootGood, Consts DEF Init, ConsoleInv

\* Every call keeps it.
LEMMA NextInv == ConsoleInv /\ [Next]_vars => ConsoleInv'
<1> SUFFICES ASSUME ConsoleInv, [Next]_vars PROVE ConsoleInv'
  OBVIOUS
<1>0. St \in GoodSt /\ top \in 0..MaxScroll
  BY DEF ConsoleInv
<1>1. ASSUME NEW c \in Chars \cup {NL, BS}, CallPutc(c) PROVE ConsoleInv'
  BY <1>0, <1>1, PutcGood, BecomesInv DEF CallPutc
<1>2. ASSUME NEW s \in Texts, CallPrint(s) PROVE ConsoleInv'
  BY <1>0, <1>2, PrintGood, BecomesInv, ConsoleAssumption DEF CallPrint
<1>3. ASSUME NEW s \in Texts, CallPrintln(s) PROVE ConsoleInv'
  BY <1>0, <1>3, PrintlnGood, BecomesInv, ConsoleAssumption DEF CallPrintln
<1>4. CASE CallClearScreen
  <2>1. St \in StateT
    BY <1>0 DEF GoodSt
  <2>2. color = St.color
    BY DEF St
  <2>. QED  BY <1>4, <2>1, <2>2, ClearGood, BecomesInv DEF CallClearScreen
<1>5. ASSUME NEW fg \in Fgs, NEW bg \in Bgs, CallSetColor(fg, bg) PROVE ConsoleInv'
  <2>1. (bg * 16 + (fg % 16)) % 256 \in 0..255
    BY ConsoleAssumption
  <2>2. St' = [St EXCEPT !.color = (bg * 16 + (fg % 16)) % 256]
    BY <1>5 DEF CallSetColor, St
  <2>3. St' \in GoodSt
    BY <1>0, <2>1, <2>2 DEF GoodSt, StateT, Win
  <2>. QED  BY <1>0, <1>5, <2>3 DEF CallSetColor, ConsoleInv
<1>6. ASSUME NEW n \in 0..MaxDevices, CallPciScan(n) PROVE ConsoleInv'
  BY <1>0, <1>6, PciGood, BecomesInv, ConsoleAssumption DEF CallPciScan
<1>7. CASE CallReboot
  <2>1. St' = Boot
    BY <1>7 DEF CallReboot, St, Boot
  <2>. QED  BY <1>7, <2>1, BootGood, Consts DEF CallReboot, ConsoleInv
<1>8. CASE UNCHANGED vars
  BY <1>0, <1>8 DEF vars, St, ConsoleInv
<1>. QED  BY <1>1, <1>2, <1>3, <1>4, <1>5, <1>6, <1>7, <1>8 DEF Next

\* The driver's state stays good: the invariant of every behaviour.
THEOREM ConsoleInvariant == Spec => []ConsoleInv
BY InitInv, NextInv, PTL DEF Spec

\* Between calls the cursor is on the screen, so every cpp_putc writes
\* inside the VGA buffer (driver.cpp:52, 57): CursorInBounds for every
\* screen size.
THEOREM CursorProved == Spec => []CursorInBounds
<1>1. ConsoleInv => CursorInBounds
  BY DEF ConsoleInv, GoodSt, St, CursorInBounds
<1>. QED  BY <1>1, ConsoleInvariant, PTL

\* Every screen cell holds what the unscrolled page holds at the same place
\* of the window, after any mix of writes, wraps, backspaces, scrolls,
\* clears, colour changes, PCI scans and reboots: ScreenIsWindow for every
\* screen size and scroll bound.
THEOREM WindowProved == Spec => []ScreenIsWindow
<1>1. ConsoleInv => ScreenIsWindow
  BY DEF ConsoleInv, GoodSt, Win, St, ScreenIsWindow
<1>. QED  BY <1>1, ConsoleInvariant, PTL

=============================================================================
