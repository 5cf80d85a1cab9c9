---------------------------- MODULE OutputProofs ----------------------------
(***************************************************************************)
(* Proofs about what the kernel prints, for every size of the screen,      *)
(* every set of keys, every tick counter and every exception: the console  *)
(* implements Tape.                                                        *)
(***************************************************************************)
EXTENDS Output, InterruptFrameProofs, FormatProofs

-----------------------------------------------------------------------------
(* The grid of cells                                                       *)

\* A product of a row and the width, next to the next one and the last.
LEMMA Rows ==
    ASSUME NEW row \in 0 .. VGA_HEIGHT - 1
    PROVE  /\ row * VGA_WIDTH \in Nat
           /\ (row + 1) * VGA_WIDTH = row * VGA_WIDTH + VGA_WIDTH
           /\ row * VGA_WIDTH + VGA_WIDTH <= VGA_WIDTH * VGA_HEIGHT
           /\ row + 1 = VGA_HEIGHT =>
                  row * VGA_WIDTH + VGA_WIDTH = VGA_WIDTH * VGA_HEIGHT
           /\ row + 1 < VGA_HEIGHT =>
                  row * VGA_WIDTH + VGA_WIDTH + VGA_WIDTH <= VGA_WIDTH * VGA_HEIGHT
           /\ row > 0 => (row - 1) * VGA_WIDTH + VGA_WIDTH = row * VGA_WIDTH
           /\ VGA_WIDTH * VGA_HEIGHT \in Nat
<1> DEFINE W == VGA_WIDTH
           H == VGA_HEIGHT
<1>1. W \in Nat /\ W > 0 /\ H \in Nat /\ H > 0 /\ row \in Nat /\ row < H
    BY ScreenAssumption
<1> HIDE DEF W, H
<1> DEFINE rest == H - 1 - row
<1>2. rest \in Nat /\ H = row + 1 + rest
    BY <1>1
<1> HIDE DEF rest
<1>3. row * W \in Nat /\ rest * W \in Nat /\ W * H \in Nat
    BY <1>1, <1>2, SMT
<1>4. (row + 1) * W = row * W + W
    BY <1>1, SMT
<1>5. W * H = row * W + W + rest * W
    BY <1>1, <1>2, SMT
<1>6. rest = 0 => rest * W = 0
    BY <1>1, SMT
<1>7. rest > 0 => rest * W >= W
    BY <1>1, <1>2, SMT
<1>8. row > 0 => (row - 1) * W + W = row * W
    BY <1>1, SMT
<1>9. QED
    BY <1>1, <1>2, <1>3, <1>4, <1>5, <1>6, <1>7, <1>8 DEF W, H

\* The column of a position is its remainder.
LEMMA Columns ==
    ASSUME NEW row \in 0 .. VGA_HEIGHT - 1, NEW col0 \in 0 .. VGA_WIDTH - 1
    PROVE  At(row, col0) % VGA_WIDTH = col0
<1> DEFINE W == VGA_WIDTH
           p == row * W
<1>1. W \in Nat /\ W > 0 /\ row \in Nat /\ col0 \in Nat /\ col0 < W
    BY ScreenAssumption
<1> HIDE DEF W
<1>2. (row * W + col0) % W = col0
    BY <1>1, SMT
<1>3. QED
    BY <1>2 DEF At, W

-----------------------------------------------------------------------------
(* The screen as a tape                                                    *)

\* The first n cells, as a sequence; a screen is a function on its cells.
Upto(cells, n) == [k \in 1 .. n |-> cells[k - 1]]

IsScreen(cells) == cells = [n \in Cells |-> cells[n]]

\* What fits into a sequence of cells.
Glyphs(cells) == {cells[n] : n \in Cells} \cup {Blank}

\* It is one, of length n.
LEMMA UptoSeq ==
    ASSUME NEW cells, NEW n \in 0 .. VGA_WIDTH * VGA_HEIGHT
    PROVE  /\ Upto(cells, n) \in Seq(Glyphs(cells))
           /\ Len(Upto(cells, n)) = n
           /\ \A k \in 1 .. n : Upto(cells, n)[k] = cells[k - 1]
<1> DEFINE N == VGA_WIDTH * VGA_HEIGHT
<1>1. N \in Nat
    BY Rows, ScreenAssumption
<1>2. n \in 0 .. N /\ Cells = 0 .. N - 1
    BY DEF Cells
<1> HIDE DEF N
<1>3. ASSUME NEW k \in 1 .. n PROVE cells[k - 1] \in Glyphs(cells)
    <2>1. k - 1 \in Cells
        BY <1>1, <1>2
    <2>2. QED
        BY <2>1 DEF Glyphs
<1>4. Upto(cells, n) \in [1 .. n -> Glyphs(cells)]
    BY <1>3 DEF Upto
<1>5. n \in Nat
    BY <1>1, <1>2
<1>6. QED
    BY <1>4, <1>5 DEF Upto

\* The end of console_putchar keeps the cursor on the screen and what is
\* behind it blank, and shows the cells up to the cursor, without the oldest
\* row when the last one was filled.
LEMMA FinishShows ==
    ASSUME NEW cells, IsScreen(cells),
           NEW row \in 0 .. VGA_HEIGHT, NEW col0 \in 0 .. VGA_WIDTH - 1,
           row = VGA_HEIGHT => col0 = 0,
           Finish(cells, row, col0)
    PROVE  /\ IsScreen(vga') /\ CursorOnScreen'
           /\ (\A n \in Cells : n >= At(row, col0) => cells[n] = Blank)
                  => NothingBehindCursor'
           /\ Shown' = Screen!Fit(Upto(cells, At(row, col0)))
<1> DEFINE W == VGA_WIDTH
           H == VGA_HEIGHT
           N == VGA_WIDTH * VGA_HEIGHT
           p == At(row, col0)
<1>1. W \in Nat /\ W > 0 /\ H \in Nat /\ H > 0
    BY ScreenAssumption
<1>2. N \in Nat /\ Cells = 0 .. N - 1
    BY Rows, ScreenAssumption DEF Cells
<1>3. CASE row < H
    <2>1. /\ vga' = cells /\ cursor_row' = row /\ cursor_col' = col0
          /\ hw' = At(row, col0)
        BY <1>1, <1>3 DEF Finish, PastBottom, update_hw_cursor
    <2>2. row \in 0 .. H - 1
        BY <1>1, <1>3
    <2>3. p \in 0 .. N - 1
        <3>1. row * W \in Nat /\ row * W + W <= N
            BY <2>2, Rows
        <3> DEFINE q == row * W
        <3>2. q \in Nat /\ q + W <= N /\ p = q + col0
            BY <3>1 DEF At
        <3> HIDE DEF q, p, N
        <3>3. QED
            BY <1>1, <1>2, <3>2
    <2>4. Screen!Fit(Upto(cells, p)) = Upto(cells, p)
        <3> HIDE DEF p, N
        <3>1. p \in 0 .. VGA_WIDTH * VGA_HEIGHT /\ p # N
            BY <1>2, <2>3 DEF N
        <3>2. Len(Upto(cells, p)) # VGA_WIDTH * VGA_HEIGHT
            BY <3>1, UptoSeq DEF N
        <3>3. QED
            BY <3>2 DEF Screen!Fit
    <2>5. Shown' = Upto(cells, p)
        BY <2>1 DEF Shown, Upto
    <2>6. DOMAIN cells = Cells
        BY DEF IsScreen
    <2>7. CursorOnScreen'
        BY <1>1, <2>1, <2>2, <2>6 DEF CursorOnScreen
    <2>8. (\A n \in Cells : n >= p => cells[n] = Blank) => NothingBehindCursor'
        BY <2>1 DEF NothingBehindCursor
    <2>9. QED
        BY <2>1, <2>4, <2>5, <2>7, <2>8
<1>4. CASE row = H
    <2>1. /\ vga' = scroll(cells) /\ cursor_row' = H - 1 /\ cursor_col' = 0
          /\ hw' = At(H - 1, 0) /\ col0 = 0
        BY <1>1, <1>4 DEF Finish, PastBottom, update_hw_cursor
    <2> DEFINE q == (H - 1) * W
    <2>2. q \in Nat /\ q + W = N /\ p = N /\ At(H - 1, 0) = q
        <3>1. H - 1 \in 0 .. H - 1 /\ (H - 1) + 1 = H
            BY <1>1
        <3>2. q \in Nat /\ q + W = N
            BY <3>1, Rows
        <3>3. p = H * W
            BY <1>1, <1>4, <2>1, SMT DEF At
        <3>4. H * W = W * H
            BY <1>1, SMT
        <3>5. QED
            BY <3>2, <3>3, <3>4 DEF At
    <2> HIDE DEF q, p, N, W, H
    <2>3. IsScreen(vga') /\ DOMAIN vga' = Cells
        BY <2>1 DEF IsScreen, scroll
    <2>4. CursorOnScreen'
        BY <1>1, <2>1, <2>3 DEF CursorOnScreen, W, H
    <2>5. ASSUME NEW n \in 0 .. q - 1
          PROVE  n \in Cells /\ vga'[n] = cells[n + W]
        BY <1>1, <1>2, <2>1, <2>2 DEF scroll, W
    <2>6. NothingBehindCursor'
        <3>1. ASSUME NEW n \in Cells, n >= q PROVE vga'[n] = Blank
            BY <1>1, <1>2, <2>1, <2>2, <3>1 DEF scroll, W
        <3>2. QED
            BY <2>1, <2>2, <3>1 DEF NothingBehindCursor
    <2>7. Shown' = Upto(vga', q)
        BY <2>1, <2>2 DEF Shown, Upto
    <2> DEFINE T == Upto(cells, N)
               D == SubSeq(T, W + 1, N)
               S == Glyphs(cells)
    <2>8. Screen!Fit(T) = D
        <3>1. N \in 0 .. VGA_WIDTH * VGA_HEIGHT /\ N = VGA_WIDTH * VGA_HEIGHT
            BY <1>2 DEF N
        <3>2. Len(T) = N
            BY <3>1, UptoSeq
        <3>3. QED
            BY <3>1, <3>2 DEF Screen!Fit, W
    <2>9. T \in Seq(S) /\ Len(T) = N /\ \A k \in 1 .. N : T[k] = cells[k - 1]
        <3>1. N \in 0 .. VGA_WIDTH * VGA_HEIGHT
            BY <1>2 DEF N
        <3>2. QED
            BY <3>1, UptoSeq
    <2> HIDE DEF T, S
    <2>10. D \in Seq(S) /\ Len(D) = q /\ \A k \in 1 .. q : D[k] = T[W + k]
        <3>1. W + 1 \in 1 .. N + 1 /\ N \in W .. N
            BY <1>1, <1>2, <2>2
        <3>2. QED
            BY <1>1, <1>2, <2>2, <2>9, <3>1
    <2> HIDE DEF D
    <2>11. Upto(vga', q) = D
        <3>1. ASSUME NEW k \in 1 .. q PROVE vga'[k - 1] = D[k]
            <4>1. /\ k - 1 \in 0 .. q - 1 /\ (k - 1) + W = (W + k) - 1
                  /\ W + k \in 1 .. N
                BY <1>1, <2>2
            <4>2. vga'[k - 1] = cells[(k - 1) + W]
                BY <2>5, <4>1
            <4>3. D[k] = cells[(W + k) - 1]
                BY <2>9, <2>10, <4>1
            <4>4. QED
                BY <4>1, <4>2, <4>3
        <3>2. D = [k \in 1 .. q |-> D[k]]
            BY <2>10, <2>2
        <3>3. QED
            BY <3>1, <3>2 DEF Upto
    <2>12. QED
        BY <2>2, <2>3, <2>4, <2>6, <2>7, <2>8, <2>11 DEF T, p
<1>5. QED
    BY <1>1, <1>3, <1>4

\* The screen, its cursor and what is behind it.
ConsoleInv == IsScreen(vga) /\ CursorOnScreen /\ NothingBehindCursor

\* Where the cursor is.
Cursor == At(cursor_row, cursor_col)

\* The cursor's position in its row and on the screen.
LEMMA CursorFacts ==
    ASSUME CursorOnScreen
    PROVE  /\ VGA_WIDTH \in Nat /\ VGA_WIDTH > 0
           /\ VGA_HEIGHT \in Nat /\ VGA_HEIGHT > 0
           /\ cursor_row \in 0 .. VGA_HEIGHT - 1 /\ cursor_col \in 0 .. VGA_WIDTH - 1
           /\ Cells = 0 .. VGA_WIDTH * VGA_HEIGHT - 1
           /\ VGA_WIDTH * VGA_HEIGHT \in Nat
           /\ Cursor \in Cells
           /\ Cursor % VGA_WIDTH = cursor_col
           /\ At(cursor_row + 1, 0) = Cursor + (VGA_WIDTH - cursor_col)
           /\ At(cursor_row + 1, 0) <= VGA_WIDTH * VGA_HEIGHT
<1> DEFINE W == VGA_WIDTH
           N == VGA_WIDTH * VGA_HEIGHT
           q == cursor_row * VGA_WIDTH
<1>1. W \in Nat /\ W > 0 /\ VGA_HEIGHT \in Nat /\ VGA_HEIGHT > 0
    BY ScreenAssumption
<1>2. cursor_row \in 0 .. VGA_HEIGHT - 1 /\ cursor_col \in 0 .. W - 1
    BY DEF CursorOnScreen
<1>3. /\ q \in Nat /\ (cursor_row + 1) * W = q + W /\ q + W <= N /\ N \in Nat
    BY <1>2, Rows
<1>4. Cursor = q + cursor_col /\ Cells = 0 .. N - 1
    BY DEF Cursor, At, Cells
<1>5. Cursor % W = cursor_col
    BY <1>2, Columns DEF Cursor
<1>6. At(cursor_row + 1, 0) = q + W
    <2>1. At(cursor_row + 1, 0) = (cursor_row + 1) * W + 0
        BY DEF At
    <2> HIDE DEF q, W, N
    <2>2. QED
        BY <1>1, <1>3, <2>1
<1> HIDE DEF q, W, N
<1>7. Cursor \in 0 .. N - 1 /\ q + W = Cursor + (W - cursor_col)
    BY <1>1, <1>2, <1>3, <1>4
<1>8. QED
    BY <1>1, <1>2, <1>3, <1>4, <1>5, <1>6, <1>7 DEF W, N

\* Enter fills up the row with the blanks that were there.
LEMMA NewlineWrites ==
    ASSUME ConsoleInv, PutNewline
    PROVE  ConsoleInv' /\ Shown' = Screen!Fit(Shown \o Screen!Padding)
<1> DEFINE W == VGA_WIDTH
           N == VGA_WIDTH * VGA_HEIGHT
           p == Cursor
           q == At(cursor_row + 1, 0)
           S == Glyphs(vga)
           P == Screen!Padding
           U == Upto(vga, q)
<1>1. /\ W \in Nat /\ W > 0 /\ N \in Nat /\ p \in 0 .. N - 1 /\ Cells = 0 .. N - 1
      /\ cursor_col \in 0 .. W - 1 /\ p % W = cursor_col
      /\ q = p + (W - cursor_col) /\ q <= N
      /\ cursor_row + 1 \in 0 .. VGA_HEIGHT /\ 0 \in 0 .. VGA_WIDTH - 1
    BY CursorFacts, SMTT(30) DEF ConsoleInv
<1>2. \A n \in Cells : n >= p => vga[n] = Blank
    BY DEF ConsoleInv, NothingBehindCursor, Cursor
<1> HIDE DEF W, N, p, q, S
<1>3. /\ IsScreen(vga') /\ CursorOnScreen'
      /\ (\A n \in Cells : n >= q => vga[n] = Blank) => NothingBehindCursor'
      /\ Shown' = Screen!Fit(U)
    BY <1>1, FinishShows DEF ConsoleInv, PutNewline, q
<1>4. \A n \in Cells : n >= q => vga[n] = Blank
    BY <1>1, <1>2
<1>5. /\ U \in Seq(S) /\ Len(U) = q /\ \A k \in 1 .. q : U[k] = vga[k - 1]
    <2>1. q \in 0 .. VGA_WIDTH * VGA_HEIGHT
        BY <1>1 DEF N
    <2>2. QED
        BY <2>1, UptoSeq DEF S
<1>6. /\ Shown \in Seq(S) /\ Len(Shown) = p
      /\ \A k \in 1 .. p : Shown[k] = vga[k - 1]
    <2>1. p \in 0 .. VGA_WIDTH * VGA_HEIGHT
        BY <1>1 DEF N
    <2>2. Shown = Upto(vga, p)
        BY DEF Shown, Upto, p, Cursor
    <2>3. QED
        BY <2>1, <2>2, UptoSeq DEF S
<1>7. /\ P \in Seq(S) /\ Len(P) = W - cursor_col
      /\ \A k \in 1 .. W - cursor_col : P[k] = Blank
    <2>1. P = [k \in 1 .. W - cursor_col |-> Blank]
        BY <1>1, <1>6 DEF Screen!Padding, W
    <2>2. Blank \in S
        BY DEF S, Glyphs
    <2>3. W - cursor_col \in Nat
        BY <1>1
    <2> HIDE DEF P
    <2>4. P \in [1 .. W - cursor_col -> S]
        BY <2>1, <2>2
    <2>5. QED
        BY <2>1, <2>3, <2>4
<1> HIDE DEF P, U
<1>8. U = Shown \o P
    <2> DEFINE C == Shown \o P
    <2>1. /\ C \in Seq(S) /\ Len(C) = Len(Shown) + Len(P)
          /\ \A k \in 1 .. Len(Shown) + Len(P) :
                 C[k] = IF k <= Len(Shown) THEN Shown[k] ELSE P[k - Len(Shown)]
        BY <1>6, <1>7, ConcatProperties
    <2> HIDE DEF C
    <2>2. Len(Shown) + Len(P) = q
        BY <1>1, <1>6, <1>7
    <2>3. ASSUME NEW k \in 1 .. q PROVE U[k] = C[k]
        <3>1. CASE k <= p
            <4>1. k \in 1 .. p /\ k <= Len(Shown)
                BY <1>1, <1>6, <3>1
            <4>2. C[k] = Shown[k]
                BY <2>1, <2>2, <4>1
            <4>3. QED
                BY <1>5, <1>6, <4>1, <4>2
        <3>2. CASE k > p
            <4>1. k - 1 \in Cells /\ k - 1 >= p /\ k - p \in 1 .. W - cursor_col
                BY <1>1, <3>2
            <4>2. C[k] = P[k - p]
                BY <1>1, <1>6, <2>1, <2>2, <3>2
            <4>3. QED
                BY <1>2, <1>5, <1>7, <4>1, <4>2
        <3>3. QED
            BY <1>1, <3>1, <3>2
    <2>4. QED
        BY <1>5, <2>1, <2>2, <2>3, SeqEqual DEF C
<1>9. QED
    BY <1>3, <1>4, <1>8 DEF ConsoleInv, P

\* Backspace takes back the last cell, also at the start of a row.
LEMMA EraseWrites ==
    ASSUME ConsoleInv, PutErase
    PROVE  /\ ConsoleInv'
           /\ Shown' = IF Shown = <<>> THEN Shown ELSE SubSeq(Shown, 1, Len(Shown) - 1)
<1> DEFINE W == VGA_WIDTH
           N == VGA_WIDTH * VGA_HEIGHT
           p == Cursor
           S == Glyphs(vga)
<1>1. /\ W \in Nat /\ W > 0 /\ N \in Nat /\ p \in 0 .. N - 1 /\ Cells = 0 .. N - 1
      /\ cursor_col \in 0 .. W - 1 /\ cursor_row \in 0 .. VGA_HEIGHT - 1
      /\ VGA_HEIGHT \in Nat
    BY CursorFacts DEF ConsoleInv
<1>2. \A n \in Cells : n >= p => vga[n] = Blank
    BY DEF ConsoleInv, NothingBehindCursor, Cursor
<1>3. /\ Shown = Upto(vga, p) /\ Shown \in Seq(S) /\ Len(Shown) = p
      /\ \A k \in 1 .. p : Shown[k] = vga[k - 1]
    <2>1. p \in 0 .. VGA_WIDTH * VGA_HEIGHT
        BY <1>1
    <2>2. Shown = Upto(vga, p)
        BY DEF Shown, Upto, Cursor
    <2>3. QED
        BY <2>1, <2>2, UptoSeq
<1>4. ASSUME NEW row \in 0 .. VGA_HEIGHT - 1, NEW col0 \in 0 .. VGA_WIDTH - 1,
             At(row, col0) = p - 1, p > 0,
             Finish([vga EXCEPT ![At(row, col0)] = Blank], row, col0)
      PROVE  ConsoleInv' /\ Shown # <<>> /\ Shown' = SubSeq(Shown, 1, Len(Shown) - 1)
    <2> DEFINE cells == [vga EXCEPT ![p - 1] = Blank]
               U == Upto(cells, p - 1)
               B == SubSeq(Shown, 1, p - 1)
    <2> HIDE DEF W, N, p, S
    <2>1. p - 1 \in Cells
        BY <1>1, <1>4
    <2>2. /\ IsScreen(cells) /\ cells[p - 1] = Blank
          /\ \A n \in Cells : n # p - 1 => cells[n] = vga[n]
        BY <2>1 DEF ConsoleInv, IsScreen
    <2>3. Finish(cells, row, col0) /\ row \in 0 .. VGA_HEIGHT /\ row # VGA_HEIGHT
        BY <1>1, <1>4
    <2> HIDE DEF cells
    <2>4. /\ IsScreen(vga') /\ CursorOnScreen'
          /\ (\A n \in Cells : n >= p - 1 => cells[n] = Blank) => NothingBehindCursor'
          /\ Shown' = Screen!Fit(U)
        BY <1>4, <2>2, <2>3, FinishShows
    <2>5. \A n \in Cells : n >= p - 1 => cells[n] = Blank
        BY <1>1, <1>2, <2>2
    <2>6. U \in Seq(Glyphs(cells)) /\ Len(U) = p - 1
          /\ \A k \in 1 .. p - 1 : U[k] = cells[k - 1]
        <3>1. p - 1 \in 0 .. VGA_WIDTH * VGA_HEIGHT
            BY <1>1, <2>1 DEF N
        <3>2. QED
            BY <3>1, UptoSeq
    <2> HIDE DEF U
    <2>7. Screen!Fit(U) = U
        <3>1. Len(U) # VGA_WIDTH * VGA_HEIGHT
            BY <1>1, <2>6 DEF N
        <3>2. QED
            BY <3>1 DEF Screen!Fit
    <2>8. U = B
        <3>1. B \in Seq(S) /\ Len(B) = p - 1 /\ \A k \in 1 .. p - 1 : B[k] = Shown[k]
            BY <1>1, <1>3, <1>4
        <3> HIDE DEF B
        <3>2. ASSUME NEW k \in 1 .. p - 1 PROVE U[k] = B[k]
            <4>1. k - 1 \in Cells /\ k - 1 # p - 1 /\ k \in 1 .. p
                BY <1>1
            <4>2. QED
                BY <1>3, <2>2, <2>6, <3>1, <4>1
        <3>3. U = [k \in 1 .. p - 1 |-> U[k]] /\ B = [k \in 1 .. p - 1 |-> B[k]]
            BY <2>6, <3>1, LenProperties
        <3>4. QED
            BY <3>2, <3>3
    <2>9. Shown # <<>>
        BY <1>1, <1>3, <1>4, EmptySeq
    <2>10. QED
        BY <1>3, <2>4, <2>5, <2>7, <2>8, <2>9 DEF ConsoleInv, B
<1>5. CASE cursor_col > 0
    <2>1. Finish([vga EXCEPT ![At(cursor_row, cursor_col - 1)] = Blank],
                 cursor_row, cursor_col - 1)
        BY <1>5 DEF PutErase
    <2>2. /\ cursor_row * W \in Nat /\ p = cursor_row * W + cursor_col
          /\ At(cursor_row, cursor_col - 1) = cursor_row * W + (cursor_col - 1)
        BY <1>1, Rows DEF Cursor, At
    <2> DEFINE q == cursor_row * W
    <2>3. q \in Nat /\ p = q + cursor_col
          /\ At(cursor_row, cursor_col - 1) = q + (cursor_col - 1)
        BY <2>2
    <2> HIDE DEF q, p, W, N
    <2>4. /\ At(cursor_row, cursor_col - 1) = p - 1 /\ p > 0
          /\ cursor_col - 1 \in 0 .. W - 1
        BY <1>1, <1>5, <2>3
    <2>5. QED
        BY <1>1, <1>4, <2>1, <2>4 DEF W
<1>6. CASE cursor_col = 0 /\ cursor_row > 0
    <2>1. Finish([vga EXCEPT ![At(cursor_row - 1, VGA_WIDTH - 1)] = Blank],
                 cursor_row - 1, VGA_WIDTH - 1)
        BY <1>6 DEF PutErase
    <2>2. /\ cursor_row * W \in Nat /\ (cursor_row - 1) * W + W = cursor_row * W
          /\ p = cursor_row * W + cursor_col
          /\ At(cursor_row - 1, W - 1) = (cursor_row - 1) * W + (W - 1)
        BY <1>1, <1>6, Rows DEF Cursor, At
    <2>3. cursor_row - 1 \in 0 .. VGA_HEIGHT - 1 /\ W - 1 \in 0 .. W - 1
        BY <1>1, <1>6
    <2>4. (cursor_row - 1) * W \in Nat
        BY <2>3, Rows
    <2> DEFINE q == cursor_row * W
               r == (cursor_row - 1) * W
    <2>5. /\ q \in Nat /\ r \in Nat /\ r + W = q /\ p = q + cursor_col
          /\ At(cursor_row - 1, W - 1) = r + (W - 1)
        BY <2>2, <2>4
    <2> HIDE DEF q, r, p, W, N
    <2>6. At(cursor_row - 1, W - 1) = p - 1 /\ p > 0
        BY <1>1, <1>6, <2>5
    <2>7. QED
        BY <1>4, <2>1, <2>3, <2>6 DEF W
<1>7. CASE cursor_col = 0 /\ cursor_row = 0
    <2>1. UNCHANGED <<vga, cursor_row, cursor_col, hw>>
        BY <1>7 DEF PutErase, consoleVars
    <2>2. ConsoleInv'
        BY <2>1 DEF ConsoleInv, IsScreen, CursorOnScreen, NothingBehindCursor
    <2>3. p = 0
        BY <1>1, <1>7 DEF Cursor, At
    <2>4. Shown = <<>>
        <3> HIDE DEF p, S
        <3>1. QED
            BY <1>3, <2>3, EmptySeq
    <2>5. Shown' = Shown
        BY <2>1 DEF Shown
    <2>6. QED
        BY <2>2, <2>4, <2>5
<1>8. QED
    BY <1>1, <1>5, <1>6, <1>7

\* A glyph takes the cell at the cursor, which moves on by one.
LEMMA GlyphWrites ==
    ASSUME ConsoleInv, NEW ch, PutGlyph(ch)
    PROVE  ConsoleInv' /\ Shown' = Screen!Fit(Append(Shown, ch))
<1> DEFINE W == VGA_WIDTH
           N == VGA_WIDTH * VGA_HEIGHT
           p == Cursor
           cells == [vga EXCEPT ![p] = ch]
           row == IF Wraps THEN cursor_row + 1 ELSE cursor_row
           col0 == IF Wraps THEN 0 ELSE cursor_col + 1
           S == Glyphs(vga) \cup {ch}
           U == Upto(cells, p + 1)
<1>1. /\ W \in Nat /\ W > 0 /\ N \in Nat /\ p \in 0 .. N - 1 /\ Cells = 0 .. N - 1
      /\ cursor_col \in 0 .. W - 1 /\ cursor_row \in 0 .. VGA_HEIGHT - 1
      /\ VGA_HEIGHT \in Nat /\ At(cursor_row + 1, 0) = p + (W - cursor_col)
    BY CursorFacts DEF ConsoleInv
<1>2. \A n \in Cells : n >= p => vga[n] = Blank
    BY DEF ConsoleInv, NothingBehindCursor, Cursor
<1>3. Finish(cells, row, col0)
    BY DEF PutGlyph, Cursor
<1>4. /\ row \in 0 .. VGA_HEIGHT /\ col0 \in 0 .. VGA_WIDTH - 1
      /\ row = VGA_HEIGHT => col0 = 0
    BY <1>1 DEF Wraps
<1>5. At(row, col0) = p + 1
    <2>1. CASE Wraps
        <3>1. W - cursor_col = 1 /\ row = cursor_row + 1 /\ col0 = 0
            BY <1>1, <2>1 DEF Wraps
        <3> HIDE DEF W, N, p, row, col0
        <3>2. QED
            BY <1>1, <3>1
    <2>2. CASE ~ Wraps
        <3> DEFINE q == cursor_row * W
        <3>1. q \in Nat /\ p = q + cursor_col /\ At(row, col0) = q + (cursor_col + 1)
            BY <1>1, <2>2, Rows DEF Cursor, At
        <3> HIDE DEF q, p, row, col0, N, W
        <3>2. QED
            BY <1>1, <3>1
    <2>3. QED
        BY <2>1, <2>2
<1>6. Shown \in Seq(S) /\ Len(Shown) = p /\ \A k \in 1 .. p : Shown[k] = vga[k - 1]
    <2>1. p \in 0 .. VGA_WIDTH * VGA_HEIGHT
        BY <1>1
    <2>2. Shown = Upto(vga, p)
        BY DEF Shown, Upto, Cursor
    <2> HIDE DEF p
    <2>3. Shown \in Seq(Glyphs(vga)) /\ Len(Shown) = p
          /\ \A k \in 1 .. p : Shown[k] = vga[k - 1]
        BY <2>1, <2>2, UptoSeq
    <2>4. QED
        BY <2>3
<1> HIDE DEF W, N, p, row, col0, S
<1>7. /\ IsScreen(cells) /\ cells[p] = ch
      /\ \A n \in Cells : n # p => cells[n] = vga[n]
    BY <1>1 DEF ConsoleInv, IsScreen
<1> HIDE DEF cells
<1>8. /\ IsScreen(vga') /\ CursorOnScreen'
      /\ (\A n \in Cells : n >= p + 1 => cells[n] = Blank) => NothingBehindCursor'
      /\ Shown' = Screen!Fit(U)
    BY <1>3, <1>4, <1>5, <1>7, FinishShows
<1>9. \A n \in Cells : n >= p + 1 => cells[n] = Blank
    BY <1>1, <1>2, <1>7
<1>10. U \in Seq(Glyphs(cells)) /\ Len(U) = p + 1
       /\ \A k \in 1 .. p + 1 : U[k] = cells[k - 1]
    <2>1. p + 1 \in 0 .. VGA_WIDTH * VGA_HEIGHT
        BY <1>1 DEF N
    <2>2. QED
        BY <2>1, UptoSeq
<1> HIDE DEF U
<1>11. U = Append(Shown, ch)
    <2> DEFINE A == Append(Shown, ch)
    <2>1. ch \in S
        BY DEF S
    <2>2. /\ A \in Seq(S) /\ Len(A) = p + 1
          /\ \A k \in 1 .. p : A[k] = Shown[k]
          /\ A[p + 1] = ch
        BY <1>1, <1>6, <2>1, AppendProperties
    <2> HIDE DEF A
    <2>3. ASSUME NEW k \in 1 .. p + 1 PROVE U[k] = A[k]
        <3>1. CASE k = p + 1
            <4>1. k - 1 = p
                BY <1>1, <3>1
            <4>2. QED
                BY <1>7, <1>10, <2>2, <3>1, <4>1
        <3>2. CASE k # p + 1
            <4>1. k \in 1 .. p /\ k - 1 \in Cells /\ k - 1 # p
                BY <1>1, <3>2
            <4>2. QED
                BY <1>6, <1>7, <1>10, <2>2, <4>1
        <3>3. QED
            BY <3>1, <3>2
    <2>4. U = [k \in 1 .. p + 1 |-> U[k]] /\ A = [k \in 1 .. p + 1 |-> A[k]]
        BY <1>10, <2>2, LenProperties
    <2>5. QED
        BY <2>3, <2>4 DEF A
<1>12. QED
    BY <1>8, <1>9, <1>11 DEF ConsoleInv

\* console_putchar does to the screen what Tape says a character does.
LEMMA PutcharWrites ==
    ASSUME ConsoleInv, NEW ch, console_putchar(ch)
    PROVE  ConsoleInv' /\ Shown' = Screen!Written(ch)
<1>1. NL # BS
    BY DEF NL, BS
<1>2. CASE ch = NL /\ PutNewline
    <2>1. Screen!Written(ch) = Screen!Fit(Shown \o Screen!Padding)
        BY <1>1, <1>2 DEF Screen!Written
    <2>2. QED
        BY <1>2, <2>1, NewlineWrites
<1>3. CASE ch = BS /\ PutErase
    <2>1. Screen!Written(ch) = IF Shown = <<>> THEN Shown
                               ELSE SubSeq(Shown, 1, Len(Shown) - 1)
        BY <1>1, <1>3 DEF Screen!Written
    <2>2. QED
        BY <1>3, <2>1, EraseWrites
<1>4. CASE ch \notin {NL, BS} /\ PutGlyph(ch)
    <2>1. Screen!Written(ch) = Screen!Fit(Append(Shown, ch))
        BY <1>4 DEF Screen!Written
    <2>2. QED
        BY <1>4, <2>1, GlyphWrites
<1>5. QED
    BY <1>2, <1>3, <1>4 DEF console_putchar

-----------------------------------------------------------------------------
(* The terminal                                                            *)

\* The line and the cursor once the terminal has shown byte b.
NextLine(text, c, b) ==
    CASE b \in {BS, CR} -> text
      [] b = NL -> [k \in 1 .. c |-> Blank]
      [] OTHER -> IF c < Len(text) THEN [text EXCEPT ![c + 1] = b]
                                   ELSE Append(text, b)

NextCol(c, b) ==
    CASE b = BS -> IF c > 0 THEN c - 1 ELSE 0
      [] b = CR -> 0
      [] b = NL -> c
      [] OTHER -> c + 1

\* What becomes of line l and cursor c: a glyph is put at the cursor.
Sent(l, c, b, l2, c2) ==
    /\ l2 \in Seq(1 .. 127) /\ c2 \in 0 .. Len(l2)
    /\ b = NL => l2 = [k \in 1 .. c |-> Blank] /\ c2 = c
    /\ b = BS => l2 = l /\ c2 = IF c > 0 THEN c - 1 ELSE 0
    /\ b = CR => l2 = l /\ c2 = 0
    /\ b \notin {BS, CR, NL} =>
           /\ c2 = c + 1 /\ l2[c + 1] = b
           /\ \A k \in 1 .. Len(l2) : k # c + 1 => k \in 1 .. Len(l) /\ l2[k] = l[k]

\* They are a line and a cursor in it again.
LEMMA NextTypes ==
    ASSUME NEW text \in Seq(1 .. 127), NEW c \in 0 .. Len(text), NEW b \in 1 .. 127
    PROVE  Sent(text, c, b, NextLine(text, c, b), NextCol(c, b))
<1> USE DEF Sent
<1> DEFINE L == NextLine(text, c, b)
<1>1. CASE b = NL
    <2>1. L = [k \in 1 .. c |-> Blank] /\ NextCol(c, b) = c
        BY <1>1 DEF NextLine, NextCol, NL, BS, CR
    <2>2. c \in Nat /\ Blank \in 1 .. 127
        BY DEF Blank
    <2>3. L \in Seq(1 .. 127) /\ Len(L) = c
        BY <2>1, <2>2
    <2>4. b \notin {BS, CR} /\ b \in {BS, CR, NL}
        BY <1>1 DEF NL, BS, CR
    <2> HIDE DEF L
    <2>5. QED
        BY <1>1, <2>1, <2>2, <2>3, <2>4 DEF L
<1>2. CASE b = BS
    <2>1. L = text /\ NextCol(c, b) = IF c > 0 THEN c - 1 ELSE 0
        BY <1>2 DEF NextLine, NextCol, NL, BS, CR
    <2>2. QED
        BY <1>2, <2>1 DEF NL, BS, CR
<1>3. CASE b = CR
    <2>1. L = text /\ NextCol(c, b) = 0
        BY <1>3 DEF NextLine, NextCol, NL, BS, CR
    <2>2. QED
        BY <1>3, <2>1 DEF NL, BS, CR
<1>4. CASE b \notin {BS, CR, NL}
    <2>1. /\ L = IF c < Len(text) THEN [text EXCEPT ![c + 1] = b] ELSE Append(text, b)
          /\ NextCol(c, b) = c + 1
        BY <1>4 DEF NextLine, NextCol
    <2>2. CASE c < Len(text)
        <3>1. /\ L = [text EXCEPT ![c + 1] = b] /\ c + 1 \in 1 .. Len(text)
            BY <2>1, <2>2
        <3>2. L \in Seq(1 .. 127) /\ Len(L) = Len(text)
            BY <3>1, ExceptSeq
        <3>3. L[c + 1] = b /\ \A k \in 1 .. Len(text) : k # c + 1 => L[k] = text[k]
            BY <3>1
        <3> HIDE DEF L
        <3>4. QED
            BY <1>4, <2>1, <2>2, <3>2, <3>3 DEF L
    <2>3. CASE ~ (c < Len(text))
        <3>1. L = Append(text, b) /\ c = Len(text)
            BY <2>1, <2>3
        <3>2. /\ L \in Seq(1 .. 127) /\ Len(L) = Len(text) + 1 /\ L[c + 1] = b
              /\ \A k \in 1 .. Len(text) : L[k] = text[k]
            BY <3>1, AppendProperties
        <3> HIDE DEF L
        <3>3. QED
            BY <1>4, <2>1, <3>1, <3>2 DEF L
    <2>4. QED
        BY <2>2, <2>3
<1>5. QED
    BY <1>1, <1>2, <1>3, <1>4

\* The first n characters of a text.
LEMMA FirstChars ==
    ASSUME NEW text \in Seq(1 .. 127), NEW n \in 0 .. Len(text)
    PROVE  /\ SubSeq(text, 1, n) \in Seq(1 .. 127) /\ Len(SubSeq(text, 1, n)) = n
           /\ \A k \in 1 .. n : SubSeq(text, 1, n)[k] = text[k]
<1>1. ASSUME NEW k \in 1 .. n PROVE text[k] \in 1 .. 127
    <2>1. k \in 1 .. Len(text)
        BY LenProperties
    <2>2. QED
        BY <2>1, ElementOfSeq, Zenon
<1>2. 1 \in Int /\ n \in Int /\ n - 1 + 1 = n /\ \A k \in 1 .. n : 1 + k - 1 = k
    OBVIOUS
<1>3. /\ SubSeq(text, 1, n) \in Seq(1 .. 127)
      /\ Len(SubSeq(text, 1, n)) = IF 1 <= n THEN n - 1 + 1 ELSE 0
      /\ \A k \in 1 .. n - 1 + 1 : SubSeq(text, 1, n)[k] = text[1 + k - 1]
    BY <1>1, <1>2, SubSeqProperties
<1>4. QED
    BY <1>2, <1>3

\* What is left in mirror, the text it should lead to, and the line and the
\* cursor it starts from: for every prefix of what serial_puts was given.
Owes(m, text, l, c) ==
    LET n == Len(text)
        same == \A k \in 1 .. n : k <= c => l[k] = text[k]
        blank(from) == \A k \in 1 .. Len(l) : k > from => l[k] = Blank
        empty == \A k \in 1 .. n : text[k] = Blank
    IN  \/ m = <<>> /\ n = c /\ same /\ blank(c)
        \/ /\ n = c + 1 /\ same /\ blank(c)
           /\ text[n] \notin {BS, CR, NL} /\ m = <<text[n]>>
        \/ m = <<Text, NL>> /\ n = c + 1 /\ empty
        \/ m = <<NL>> /\ n = c /\ empty
        \/ m = <<CR, NL>> /\ n = 0
        \/ /\ m = <<BS, Blank, BS>> /\ n = (IF c > 0 THEN c - 1 ELSE 0)
           /\ same /\ blank(c)
        \/ m = <<Blank, BS>> /\ n = c /\ same /\ blank(c + 1)
        \/ m = <<BS>> /\ c = n + 1 /\ same /\ blank(n)

\* Every byte that the terminal shows leaves the rest to be shown.
LEMMA OwesLess ==
    ASSUME NEW m \in Seq(1 .. 127), m # <<>>, NEW text \in Seq(1 .. 127),
           NEW l \in Seq(1 .. 127), NEW c \in 0 .. Len(l), Owes(m, text, l, c)
    PROVE  Owes(Tail(m), text, NextLine(l, c, Head(m)), NextCol(c, Head(m)))
<1> DEFINE n == Len(text)
           b == Head(m)
           l2 == NextLine(l, c, b)
           c2 == NextCol(c, b)
<1>1. n \in Nat /\ c \in Nat /\ Len(l) \in Nat /\ b \in 1 .. 127
    BY HeadTailProperties
<1>2. Sent(l, c, b, l2, c2)
    BY <1>1, NextTypes, Zenon
<1> USE DEF Sent
<1>3. Len(l2) \in Nat
    BY <1>2
<1> SUFFICES Owes(Tail(m), text, l2, c2)
    OBVIOUS
<1> HIDE DEF l2, c2
<1>4. CASE /\ n = c + 1 /\ \A k \in 1 .. n : k <= c => l[k] = text[k]
           /\ \A k \in 1 .. Len(l) : k > c => l[k] = Blank
           /\ text[n] \notin {BS, CR, NL} /\ m = <<text[n]>>
    <2>1. b = text[n] /\ Tail(m) = <<>>
        BY <1>4
    <2>2. c2 = n
        BY <1>1, <1>2, <1>4, <2>1
    <2>3. \A k \in 1 .. n : l2[k] = text[k]
        BY <1>1, <1>2, <1>3, <1>4, <2>1, <2>2
    <2>4. \A k \in 1 .. Len(l2) : k > c2 => l2[k] = Blank
        BY <1>1, <1>2, <1>3, <1>4, <2>1, <2>2
    <2>5. QED
        BY <2>1, <2>2, <2>3, <2>4 DEF Owes
<1>5. CASE /\ m = <<Text, NL>> /\ n = c + 1 /\ \A k \in 1 .. n : text[k] = Blank
    <2>1. b = Text /\ Tail(m) = <<NL>>
        BY <1>5
    <2>2. c2 = n
        BY <1>1, <1>2, <1>5, <2>1 DEF Text, BS, CR, NL
    <2>3. QED
        BY <1>5, <2>1, <2>2 DEF Owes
<1>6. CASE m = <<NL>> /\ n = c /\ \A k \in 1 .. n : text[k] = Blank
    <2>1. b = NL /\ Tail(m) = <<>>
        BY <1>6
    <2>2. c2 = n /\ l2 = [k \in 1 .. n |-> Blank]
        BY <1>2, <1>6, <2>1
    <2>3. Len(l2) = n
        BY <1>1, <2>2
    <2>4. \A k \in 1 .. n : l2[k] = text[k]
        BY <1>6, <2>2
    <2>5. QED
        BY <1>1, <2>1, <2>2, <2>3, <2>4 DEF Owes
<1>7. CASE m = <<CR, NL>> /\ n = 0
    <2>1. b = CR /\ Tail(m) = <<NL>> /\ c2 = 0
        BY <1>2, <1>7
    <2>2. QED
        BY <1>7, <2>1 DEF Owes
<1>8. CASE /\ m = <<BS, Blank, BS>> /\ n = (IF c > 0 THEN c - 1 ELSE 0)
           /\ \A k \in 1 .. n : k <= c => l[k] = text[k]
           /\ \A k \in 1 .. Len(l) : k > c => l[k] = Blank
    <2>1. b = BS /\ Tail(m) = <<Blank, BS>> /\ l2 = l /\ c2 = n
        BY <1>2, <1>8
    <2>2. /\ \A k \in 1 .. n : k <= c2 => l2[k] = text[k]
          /\ \A k \in 1 .. Len(l2) : k > c2 + 1 => l2[k] = Blank
        BY <1>1, <1>8, <2>1
    <2>3. QED
        BY <2>1, <2>2 DEF Owes
<1>9. CASE /\ m = <<Blank, BS>> /\ n = c
           /\ \A k \in 1 .. n : k <= c => l[k] = text[k]
           /\ \A k \in 1 .. Len(l) : k > c + 1 => l[k] = Blank
    <2>1. b = Blank /\ Tail(m) = <<BS>>
        BY <1>9
    <2>2. b \notin {BS, CR, NL}
        BY <2>1 DEF Blank, BS, CR, NL
    <2>3. /\ c2 = n + 1 /\ l2[n + 1] = Blank
          /\ \A k \in 1 .. Len(l2) : k # n + 1 => k \in 1 .. Len(l) /\ l2[k] = l[k]
        BY <1>2, <1>9, <2>1, <2>2
    <2>4. \A k \in 1 .. n : l2[k] = text[k]
        BY <1>1, <1>2, <1>3, <1>9, <2>3
    <2>5. \A k \in 1 .. Len(l2) : k > n => l2[k] = Blank
        BY <1>1, <1>3, <1>9, <2>3
    <2>6. QED
        BY <2>1, <2>3, <2>4, <2>5 DEF Owes
<1>10. CASE /\ m = <<BS>> /\ c = n + 1
            /\ \A k \in 1 .. n : k <= c => l[k] = text[k]
            /\ \A k \in 1 .. Len(l) : k > n => l[k] = Blank
    <2>1. b = BS /\ Tail(m) = <<>> /\ l2 = l
        BY <1>2, <1>10
    <2>2. c2 = n
        BY <1>1, <1>2, <1>10, <2>1
    <2>3. QED
        BY <1>1, <1>10, <2>1, <2>2 DEF Owes
<1>11. QED
    BY <1>4, <1>5, <1>6, <1>7, <1>8, <1>9, <1>10, Zenon DEF Owes

-----------------------------------------------------------------------------
(* The inductive invariant                                                 *)

\* kmain's place and its clocks.
LoopTypes ==
    /\ at \in 0 .. Due
    /\ s_ticks \in Nat /\ last_uptime \in Nat /\ now \in Nat /\ stamp \in Nat
    /\ last_uptime <= s_ticks /\ now <= s_ticks /\ stamp <= s_ticks

\* What goes over the serial line is a character of the terminal's.
PortTypes ==
    /\ mirror \in Seq(1 .. 127)
    /\ thr \in {NoByte} \cup 1 .. 127
    /\ line \in Seq(1 .. 127)
    /\ col \in 0 .. Len(line)

\* The screen is tidy once it was cleared; before that nothing is printed.
ScreenInv ==
    /\ IsScreen(vga) /\ CursorOnScreen
    /\ at > 0 => NothingBehindCursor
    /\ at = 0 => Printed /\ cursor_row = 0 /\ cursor_col = 0

\* The stack that exception_handler reads is the one of its exception.
TrapInv ==
    /\ fault \in Faults \cup {NoFault}
    /\ fault # NoFault => stack = Entered(Mine, fault, ErrorCode)

OutputInv == LoopTypes /\ PortTypes /\ ScreenInv /\ TrapInv

\* The places of kmain.
LEMMA Places ==
    /\ DOMAIN BootLog = 1 .. 12 /\ Loop = 13 /\ Due = 14
    /\ At(0, 0) = 0
<1>1. Len(BootLog) = 12 /\ DOMAIN BootLog = 1 .. 12
    BY DEF BootLog
<1>2. At(0, 0) = 0
    BY ScreenAssumption DEF At
<1>3. QED
    BY <1>1, <1>2 DEF Loop, Due

\* serial_puts queues characters, or nothing.
LEMMA PutsTypes ==
    ASSUME NEW chars \in Seq(1 .. 127), serial_puts(chars)
    PROVE  mirror' \in Seq(1 .. 127)
BY DEF serial_puts

\* One line of the log keeps the invariant and leaves the screen alone.
LEMMA LineKeeps ==
    ASSUME OutputInv, NEW place \in 1 .. Due, NEW next \in 1 .. Due, NEW msg,
           NEW mirrored, klog(place, next, msg, mirrored)
    PROVE  OutputInv'
<1>1. LoopTypes'
    BY Places DEF OutputInv, LoopTypes, klog
<1>2. mirror' \in Seq(1 .. 127)
    <2>1. CASE mirrored
        <3>1. serial_puts(<<Text, NL>>)
            BY <2>1 DEF klog
        <3>2. <<Text, NL>> \in Seq(1 .. 127)
            BY DEF Text, NL
        <3>3. QED
            BY <3>1, <3>2, PutsTypes
    <2>2. CASE ~ mirrored
        BY <2>2 DEF klog, OutputInv, PortTypes
    <2>3. QED
        BY <2>1, <2>2
<1>3. PortTypes'
    BY <1>2 DEF OutputInv, PortTypes, klog, portVars, termVars
<1>4. ScreenInv'
    <2>1. at = place /\ at' = next /\ at > 0 /\ at' > 0
        BY Places DEF klog, Free
    <2>2. UNCHANGED <<vga, cursor_row, cursor_col, hw>>
        BY DEF klog, consoleVars
    <2>3. QED
        BY <2>1, <2>2 DEF OutputInv, ScreenInv, IsScreen, CursorOnScreen,
                          NothingBehindCursor
<1>5. TrapInv'
    BY DEF OutputInv, TrapInv, klog, trapVars
<1>6. QED
    BY <1>1, <1>3, <1>4, <1>5 DEF OutputInv

\* The screen of a step that does not print.
LEMMA ScreenStays ==
    ASSUME ScreenInv, at \in Nat, at' \in Nat, UNCHANGED consoleVars,
           at > 0 /\ at' > 0
    PROVE  ScreenInv'
BY DEF ScreenInv, consoleVars, IsScreen, CursorOnScreen, NothingBehindCursor

\* kmain's place is a number.
LEMMA PlaceNat == ASSUME LoopTypes PROVE at \in Nat
BY Places DEF LoopTypes

\* Initially the invariant holds.
LEMMA OutputInvInit == OutputInit => OutputInv
<1> SUFFICES ASSUME OutputInit PROVE OutputInv
    OBVIOUS
<1>1. LoopTypes
    <2>1. s_ticks \in Nat /\ UptimePeriod \in Nat \ {0}
        BY OutputAssumption DEF OutputInit
    <2>2. s_ticks % UptimePeriod \in 0 .. s_ticks
        BY <2>1, SMT
    <2>3. last_uptime = s_ticks - (s_ticks % UptimePeriod)
          /\ now = last_uptime /\ stamp = last_uptime
        BY DEF OutputInit
    <2> DEFINE r == s_ticks % UptimePeriod
    <2> HIDE DEF r
    <2>4. last_uptime \in 0 .. s_ticks
        BY <2>1, <2>2, <2>3 DEF r
    <2>5. at \in 0 .. Due
        BY Places DEF OutputInit
    <2>6. QED
        BY <2>1, <2>3, <2>4, <2>5 DEF LoopTypes
<1>2. PortTypes
    <2>1. mirror = <<>> /\ line = <<>> /\ col = 0 /\ thr = NoByte
        BY DEF OutputInit
    <2>2. QED
        BY <2>1 DEF PortTypes
<1>3. ScreenInv
    <2>1. IsScreen(vga)
        BY DEF OutputInit, IsScreen
    <2>2. CursorOnScreen
        BY ScreenAssumption DEF OutputInit, CursorOnScreen
    <2>3. at > 0 => NothingBehindCursor
        BY Places DEF OutputInit, NothingBehindCursor
    <2>4. QED
        BY <2>1, <2>2, <2>3 DEF ScreenInv, OutputInit, Printed
<1>4. TrapInv
    BY DEF OutputInit, TrapInv
<1>5. QED
    BY <1>1, <1>2, <1>3, <1>4 DEF OutputInv

\* Every step keeps it.
LEMMA OutputInvStep == OutputInv /\ [OutputNext]_outputVars => OutputInv'
<1> SUFFICES ASSUME OutputInv, [OutputNext]_outputVars PROVE OutputInv'
    OBVIOUS
<1> USE DEF OutputInv
<1>1. CASE ConsoleOut
    <2>1. at > 0 /\ at' = at
        BY <1>1, Places DEF ConsoleOut, ScreenInv, Printed, LoopTypes
    <2>2. ConsoleInv'
        BY <1>1, <2>1, PutcharWrites DEF ScreenInv, ConsoleInv, ConsoleOut
    <2>3. LoopTypes' /\ PortTypes' /\ TrapInv'
        BY <1>1 DEF ConsoleOut, LoopTypes, PortTypes, TrapInv, timeVars, portVars,
                    termVars, trapVars
    <2>4. ScreenInv'
        BY <2>1, <2>2, PlaceNat DEF ConsoleInv, ScreenInv
    <2>5. QED
        BY <2>3, <2>4
<1>2. CASE SerialOut
    <2>1. Head(mirror) \in 1 .. 127 /\ Tail(mirror) \in Seq(1 .. 127)
        BY <1>2, HeadTailProperties DEF SerialOut, PortTypes
    <2>2. PortTypes'
        BY <1>2, <2>1 DEF SerialOut, PortTypes, termVars
    <2>3. LoopTypes' /\ TrapInv'
        BY <1>2 DEF SerialOut, LoopTypes, TrapInv, timeVars, trapVars
    <2>4. at' = at /\ at > 0
        BY <1>2, Places DEF SerialOut, ScreenInv, Printed, LoopTypes
    <2>5. ScreenInv'
        BY <1>2, <2>4, PlaceNat, ScreenStays DEF SerialOut
    <2>6. QED
        BY <2>2, <2>3, <2>5
<1>3. CASE Clear
    <2>1. LoopTypes' /\ PortTypes' /\ TrapInv'
        BY <1>3, Places DEF Clear, LoopTypes, PortTypes, TrapInv, printVars, timeVars,
                            termVars, trapVars
    <2>2. /\ vga' = [n \in Cells |-> Blank] /\ cursor_row' = 0 /\ cursor_col' = 0
          /\ hw' = At(0, 0) /\ at' = 1
        BY <1>3 DEF Clear, console_clear, update_hw_cursor
    <2>3. IsScreen(vga') /\ CursorOnScreen' /\ NothingBehindCursor'
        BY <2>2, ScreenAssumption DEF IsScreen, CursorOnScreen, NothingBehindCursor
    <2>4. QED
        BY <2>1, <2>2, <2>3 DEF ScreenInv
<1>4. CASE LogBoot
    <2>1. at \in 1 .. Due /\ at + 1 \in 1 .. Due
        BY <1>4, Places DEF LogBoot
    <2>2. klog(at, at + 1, BootLog[at].msg, BootLog[at].mirror)
        BY <1>4 DEF LogBoot
    <2>3. QED
        BY <2>1, <2>2, LineKeeps
<1>5. CASE UptimeDue
    <2>1. LoopTypes' /\ PortTypes' /\ TrapInv'
        BY <1>5, Places DEF UptimeDue, LoopTypes, PortTypes, TrapInv, printVars,
                            portVars, termVars, trapVars
    <2>2. at > 0 /\ at' > 0 /\ at \in Nat /\ at' \in Nat
        BY <1>5, Places DEF UptimeDue, Free
    <2>3. QED
        BY <1>5, <2>1, <2>2, ScreenStays DEF UptimeDue
<1>6. CASE LogUptime
    <2>1. Loop \in 1 .. Due /\ Due \in 1 .. Due
        BY Places
    <2>2. QED
        BY <1>6, <2>1, LineKeeps DEF LogUptime
<1>7. CASE Send
    <2>1. thr \in 1 .. 127 /\ thr' = NoByte
        BY <1>7 DEF Send, PortTypes
    <2>2. line' \in Seq(1 .. 127) /\ col' \in 0 .. Len(line')
        <3>1. line' = NextLine(line, col, thr) /\ col' = NextCol(col, thr)
            BY <1>7 DEF Send, NextLine, NextCol
        <3>2. Sent(line, col, thr, line', col')
            BY <2>1, <3>1, NextTypes DEF PortTypes
        <3>3. QED
            BY <3>2 DEF Sent
    <2>3. PortTypes'
        BY <1>7, <2>1, <2>2 DEF Send, PortTypes, printVars
    <2>4. LoopTypes' /\ TrapInv'
        BY <1>7 DEF Send, LoopTypes, TrapInv, timeVars, trapVars
    <2>5. ScreenInv'
        BY <1>7 DEF Send, ScreenInv, consoleVars, printVars, IsScreen, CursorOnScreen,
                    NothingBehindCursor, Printed
    <2>6. QED
        BY <2>3, <2>4, <2>5
<1>8. CASE Tick
    <2>1. LoopTypes' /\ PortTypes' /\ TrapInv'
        BY <1>8 DEF Tick, LoopTypes, PortTypes, TrapInv, printVars, portVars,
                    termVars, trapVars
    <2>2. ScreenInv'
        BY <1>8 DEF Tick, ScreenInv, consoleVars, printVars, IsScreen,
                    CursorOnScreen, NothingBehindCursor, Printed
    <2>3. QED
        BY <2>1, <2>2
<1>9. ASSUME NEW key \in Keys, Echo(key) PROVE OutputInv'
    <2>1. mirror' \in Seq(1 .. 127)
        <3> DEFINE chars == CASE key = BS -> <<BS, Blank, BS>>
                              [] key = NL -> <<CR, NL>>
                              [] OTHER   -> <<key>>
        <3>1. key \in 1 .. 127
            BY OutputAssumption
        <3>2. chars \in Seq(1 .. 127)
            <4>1. <<BS, Blank, BS>> \in Seq(1 .. 127)
                BY DEF BS, Blank
            <4>2. <<CR, NL>> \in Seq(1 .. 127)
                BY DEF CR, NL
            <4>3. <<key>> \in Seq(1 .. 127)
                BY <3>1
            <4>4. QED
                BY <4>1, <4>2, <4>3, NL # BS DEF NL, BS
        <3>3. serial_puts(chars)
            BY <1>9 DEF Echo, serial_echo
        <3>4. QED
            BY <3>2, <3>3, PutsTypes
    <2>2. PortTypes'
        BY <1>9, <2>1 DEF Echo, PortTypes, portVars, termVars
    <2>3. LoopTypes' /\ TrapInv'
        BY <1>9 DEF Echo, LoopTypes, TrapInv, timeVars, trapVars
    <2>4. at > 0 /\ at' > 0 /\ at \in Nat /\ at' \in Nat
        BY <1>9, Places DEF Echo, Free
    <2>5. QED
        BY <1>9, <2>2, <2>3, <2>4, ScreenStays DEF Echo
<1>10. ASSUME NEW v \in Faults, exception_handler(v) PROVE OutputInv'
    <2>1. LoopTypes' /\ PortTypes'
        BY <1>10 DEF exception_handler, LoopTypes, PortTypes, timeVars, portVars,
                     termVars
    <2>2. TrapInv'
        BY <1>10 DEF exception_handler, TrapInv
    <2>3. at > 0 /\ at' > 0 /\ at \in Nat /\ at' \in Nat
        BY <1>10, Places DEF exception_handler, Free
    <2>4. QED
        BY <1>10, <2>1, <2>2, <2>3, ScreenStays DEF exception_handler
<1>11. CASE UNCHANGED outputVars
    BY <1>11 DEF outputVars, LoopTypes, PortTypes, ScreenInv, TrapInv, consoleVars,
                 printVars, timeVars, portVars, termVars, trapVars, IsScreen,
                 CursorOnScreen, NothingBehindCursor, Printed
<1>12. QED
    BY <1>1, <1>2, <1>3, <1>4, <1>5, <1>6, <1>7, <1>8, <1>9, <1>10, <1>11
       DEF OutputNext, Mainline

\* So it always holds.
LEMMA OutputInvAlways == OutputSpec => []OutputInv
BY OutputInvInit, OutputInvStep, PTL DEF OutputSpec

-----------------------------------------------------------------------------
(* What the terminal shows                                                 *)

\* The keys that a terminal shows in one cell, and the two for editing.
PrintableKeys == Keys \subseteq {BS, NL} \cup Blank .. 126

\* The terminal once it has shown the byte in the UART.
SentLine == IF thr = NoByte THEN line ELSE NextLine(line, col, thr)
SentCol  == IF thr = NoByte THEN col ELSE NextCol(col, thr)

\* What it has shown and what it is still owed are the text; nothing was
\* sent before kmain looked for the port.
TermInv ==
    /\ shown \in Seq(1 .. 127)
    /\ serial_present => Owes(mirror, shown, SentLine, SentCol)
    /\ at = 0 => thr = NoByte /\ line = <<>> /\ col = 0 /\ shown = <<>>

\* It is a line with a cursor in it.
LEMMA SentTypes ==
    ASSUME PortTypes
    PROVE  SentLine \in Seq(1 .. 127) /\ SentCol \in 0 .. Len(SentLine)
<1>1. line \in Seq(1 .. 127) /\ col \in 0 .. Len(line) /\ thr \in {NoByte} \cup 1 .. 127
    BY DEF PortTypes
<1>2. CASE thr = NoByte
    BY <1>1, <1>2 DEF SentLine, SentCol
<1>3. CASE thr # NoByte
    <2>1. Sent(line, col, thr, NextLine(line, col, thr), NextCol(col, thr))
        BY <1>1, <1>3, NextTypes
    <2>2. SentLine = NextLine(line, col, thr) /\ SentCol = NextCol(col, thr)
        BY <1>3 DEF SentLine, SentCol
    <2>3. QED
        BY <2>1, <2>2 DEF Sent
<1>4. QED
    BY <1>2, <1>3

\* The terminal of a step that sends nothing.
LEMMA TermStays ==
    ASSUME TermInv, UNCHANGED <<mirror, portVars, termVars, shown>>, at' = 0 => at = 0
    PROVE  TermInv'
<1>1. UNCHANGED <<mirror, serial_present, thr, line, col, shown>>
    BY DEF portVars, termVars
<1>2. SentLine' = SentLine /\ SentCol' = SentCol
    BY <1>1 DEF SentLine, SentCol
<1>3. Owes(mirror, shown, SentLine, SentCol) =>
          Owes(mirror', shown', SentLine', SentCol')
    BY <1>1, <1>2, Zenon
<1>4. QED
    BY <1>1, <1>3 DEF TermInv

\* A terminal that is owed nothing reads the text.
LEMMA OwesNothing ==
    ASSUME NEW text \in Seq(1 .. 127), NEW l \in Seq(1 .. 127), NEW c \in 0 .. Len(l),
           Owes(<<>>, text, l, c)
    PROVE  /\ Len(text) = c
           /\ \A k \in 1 .. c : l[k] = text[k]
           /\ \A k \in 1 .. Len(l) : k > c => l[k] = Blank
<1>1. <<>> # <<text[Len(text)]>>
    OBVIOUS
<1>2. /\ <<>> # <<Text, NL>> /\ <<>> # <<NL>> /\ <<>> # <<CR, NL>>
      /\ <<>> # <<BS, Blank, BS>> /\ <<>> # <<Blank, BS>> /\ <<>> # <<BS>>
    OBVIOUS
<1>3. QED
    BY <1>1, <1>2 DEF Owes

\* A line of the log goes to the terminal as text and a bare '\n'.
LEMMA LineOwed ==
    ASSUME OutputInv, TermInv, NEW place \in 1 .. Due, NEW next \in 1 .. Due, NEW msg,
           NEW mirrored, klog(place, next, msg, mirrored)
    PROVE  TermInv'
<1>1. /\ mirror = <<>> /\ at' > 0 /\ UNCHANGED <<portVars, termVars>>
    BY Places DEF klog, Free, Printed
<1>2. CASE ~ (mirrored /\ serial_present)
    <2>1. shown' = shown
        BY <1>2 DEF klog
    <2>2. mirror' = mirror
        BY <1>1, <1>2 DEF klog, serial_puts
    <2>3. QED
        BY <1>1, <2>1, <2>2, TermStays
<1>3. CASE mirrored /\ serial_present
    <2>1. /\ mirror' = <<Text, NL>>
          /\ shown' = [k \in 1 .. Len(shown) + 1 |-> Blank]
          /\ serial_present' = serial_present
          /\ thr' = thr /\ line' = line /\ col' = col
        BY <1>1, <1>3 DEF klog, serial_puts, portVars, termVars
    <2>2. Len(shown) + 1 \in Nat /\ Blank \in 1 .. 127
        BY DEF TermInv, Blank
    <2>3. shown' \in Seq(1 .. 127) /\ Len(shown') = Len(shown) + 1
        BY <2>1, <2>2
    <2>4. SentLine' = SentLine /\ SentCol' = SentCol
        BY <2>1 DEF SentLine, SentCol
    <2>5. SentLine \in Seq(1 .. 127) /\ SentCol \in 0 .. Len(SentLine)
        BY SentTypes DEF OutputInv
    <2>6. Len(shown) = SentCol
        <3>1. Owes(<<>>, shown, SentLine, SentCol)
            BY <1>1, <1>3 DEF TermInv
        <3>2. QED
            BY <2>5, <3>1, OwesNothing DEF TermInv
    <2>7. \A k \in 1 .. Len(shown') : shown'[k] = Blank
        BY <2>1, <2>3
    <2>8. PICK l : l = SentLine
        OBVIOUS
    <2>9. PICK c : c = SentCol
        OBVIOUS
    <2>10. Owes(mirror', shown', l, c)
        BY <2>1, <2>3, <2>6, <2>7, <2>9 DEF Owes
    <2>11. Owes(mirror', shown', SentLine', SentCol')
        BY <2>4, <2>8, <2>9, <2>10
    <2>12. QED
        BY <1>1, <2>3, <2>11 DEF TermInv
<1>4. QED
    BY <1>2, <1>3

\* An echoed key is owed as one cell, as a new line, or as back, blank, back.
LEMMA EchoOwed ==
    ASSUME PrintableKeys, OutputInv, TermInv, NEW key \in Keys, Echo(key)
    PROVE  TermInv'
<1>1. /\ mirror = <<>> /\ at' > 0 /\ UNCHANGED <<portVars, termVars>>
    BY Places DEF Echo, Free, Printed
<1>2. CASE ~ serial_present
    <2>1. shown' = shown /\ mirror' = mirror
        BY <1>1, <1>2 DEF Echo, serial_echo, serial_puts
    <2>2. QED
        BY <1>1, <2>1, TermStays
<1>3. CASE serial_present
    <2>1. /\ serial_present' = serial_present
          /\ thr' = thr /\ line' = line /\ col' = col
        BY <1>1 DEF portVars, termVars
    <2>2. SentLine' = SentLine /\ SentCol' = SentCol
        BY <2>1 DEF SentLine, SentCol
    <2>3. PICK l \in Seq(1 .. 127) : l = SentLine
        BY SentTypes DEF OutputInv
    <2>4. PICK c \in 0 .. Len(l) : c = SentCol
        BY <2>3, SentTypes DEF OutputInv
    <2>5. /\ Len(shown) = c
          /\ \A k \in 1 .. c : l[k] = shown[k]
          /\ \A k \in 1 .. Len(l) : k > c => l[k] = Blank
        <3>1. Owes(<<>>, shown, l, c) /\ shown \in Seq(1 .. 127)
            BY <1>1, <1>3, <2>3, <2>4 DEF TermInv
        <3>2. QED
            BY <3>1, OwesNothing
    <2>6. shown \in Seq(1 .. 127) /\ NL # BS
        BY DEF TermInv, NL, BS
    <2>7. shown' = Edited(shown, key) /\ serial_echo(key)
        BY <1>3 DEF Echo
    <2>8. shown' \in Seq(1 .. 127) /\ Owes(mirror', shown', l, c)
        <3>1. CASE key = NL
            <4>1. shown' = <<>> /\ mirror' = <<CR, NL>>
                BY <1>3, <2>6, <2>7, <3>1 DEF Edited, serial_echo, serial_puts
            <4>2. QED
                BY <4>1 DEF Owes
        <3>2. CASE key = BS
            <4>1. /\ mirror' = <<BS, Blank, BS>>
                  /\ shown' = IF shown = <<>> THEN shown
                              ELSE SubSeq(shown, 1, Len(shown) - 1)
                BY <1>3, <2>6, <2>7, <3>2 DEF Edited, serial_echo, serial_puts
            <4>2. /\ shown' \in Seq(1 .. 127)
                  /\ Len(shown') = IF c > 0 THEN c - 1 ELSE 0
                  /\ \A k \in 1 .. Len(shown') : shown'[k] = shown[k]
                <5>1. CASE shown = <<>>
                    BY <2>5, <2>6, <4>1, <5>1
                <5>2. CASE shown # <<>>
                    <6>1. Len(shown) > 0 /\ Len(shown) - 1 \in 0 .. Len(shown)
                        BY <2>6, <5>2, EmptySeq
                    <6>2. /\ shown' \in Seq(1 .. 127) /\ Len(shown') = Len(shown) - 1
                          /\ \A k \in 1 .. Len(shown') : shown'[k] = shown[k]
                        BY <2>6, <4>1, <5>2, <6>1, FirstChars
                    <6>3. QED
                        BY <2>5, <6>1, <6>2
                <5>3. QED
                    BY <5>1, <5>2
            <4>3. \A k \in 1 .. Len(shown') : k <= c => l[k] = shown'[k]
                BY <2>5, <4>2
            <4>4. QED
                BY <2>5, <4>1, <4>2, <4>3 DEF Owes
        <3>3. CASE key \notin {BS, NL}
            <4>1. shown' = Append(shown, key) /\ mirror' = <<key>>
                BY <1>3, <2>7, <3>3 DEF Edited, serial_echo, serial_puts
            <4>2. key \in 1 .. 127 /\ key \notin {BS, CR, NL}
                BY <3>3 DEF PrintableKeys, Blank, BS, CR, NL
            <4>3. /\ shown' \in Seq(1 .. 127) /\ Len(shown') = c + 1
                  /\ shown'[c + 1] = key
                  /\ \A k \in 1 .. c : shown'[k] = shown[k]
                BY <2>5, <2>6, <4>1, <4>2, AppendProperties
            <4>4. \A k \in 1 .. Len(shown') : k <= c => l[k] = shown'[k]
                BY <2>5, <4>3
            <4>5. QED
                BY <2>5, <4>1, <4>2, <4>3, <4>4 DEF Owes
        <3>4. QED
            BY <3>1, <3>2, <3>3
    <2>9. Owes(mirror', shown', SentLine', SentCol')
        BY <2>2, <2>3, <2>4, <2>8
    <2>10. QED
        BY <1>1, <2>8, <2>9 DEF TermInv
<1>4. QED
    BY <1>2, <1>3

\* Every step keeps the terminal's part of the invariant.
LEMMA TermInvStep ==
    ASSUME PrintableKeys, OutputInv, TermInv, [OutputNext]_outputVars
    PROVE  TermInv'
<1>1. CASE ConsoleOut \/ UptimeDue \/ Tick \/ UNCHANGED outputVars
           \/ \E v \in Faults : exception_handler(v)
    <2>1. UNCHANGED <<mirror, portVars, termVars, shown>>
        BY <1>1 DEF ConsoleOut, UptimeDue, Tick, exception_handler, outputVars, printVars
    <2>2. at' = 0 => at = 0
        BY <1>1, Places DEF ConsoleOut, UptimeDue, Tick, exception_handler, outputVars
    <2>3. QED
        BY <2>1, <2>2, TermStays
<1>2. CASE SerialOut
    <2>1. /\ mirror # <<>> /\ thr = NoByte /\ thr' = Head(mirror)
          /\ mirror' = Tail(mirror)
          /\ UNCHANGED <<serial_present, line, col, shown, at>>
        BY <1>2 DEF SerialOut, TxEmpty, termVars
    <2>2. /\ mirror \in Seq(1 .. 127) /\ line \in Seq(1 .. 127) /\ col \in 0 .. Len(line)
          /\ shown \in Seq(1 .. 127)
        BY DEF OutputInv, PortTypes, TermInv
    <2>3. PICK b \in 1 .. 127 : b = Head(mirror)
        BY <2>1, <2>2, HeadTailProperties
    <2>4. b # NoByte
        BY DEF NoByte
    <2>5. /\ SentLine = line /\ SentCol = col
          /\ SentLine' = NextLine(line, col, Head(mirror))
          /\ SentCol' = NextCol(col, Head(mirror))
        BY <2>1, <2>3, <2>4 DEF SentLine, SentCol
    <2>6. serial_present' => Owes(mirror', shown', SentLine', SentCol')
        <3>1. serial_present => Owes(mirror, shown, line, col)
            BY <2>5 DEF TermInv
        <3>2. serial_present =>
                  Owes(Tail(mirror), shown, NextLine(line, col, Head(mirror)),
                       NextCol(col, Head(mirror)))
            BY <2>1, <2>2, <3>1, OwesLess
        <3>3. QED
            BY <2>1, <2>5, <3>2
    <2>7. at' # 0
        BY <2>1 DEF OutputInv, ScreenInv, Printed
    <2>8. QED
        BY <2>1, <2>6, <2>7 DEF TermInv
<1>3. CASE Send
    <2>1. /\ thr # NoByte /\ thr' = NoByte
          /\ line' = NextLine(line, col, thr) /\ col' = NextCol(col, thr)
          /\ UNCHANGED <<mirror, serial_present, shown, at>>
        BY <1>3 DEF Send, NextLine, NextCol, printVars
    <2>2. SentLine' = SentLine /\ SentCol' = SentCol
        BY <2>1 DEF SentLine, SentCol
    <2>3. Owes(mirror, shown, SentLine, SentCol) =>
              Owes(mirror', shown', SentLine', SentCol')
        BY <2>1, <2>2, Zenon
    <2>4. at' # 0
        BY <2>1 DEF TermInv
    <2>5. QED
        BY <2>1, <2>3, <2>4 DEF TermInv
<1>4. CASE Clear
    <2>1. at = 0 /\ at' = 1 /\ mirror = <<>> /\ UNCHANGED <<mirror, thr, line, col, shown>>
        BY <1>4 DEF Clear, Free, Printed, printVars, termVars
    <2>2. thr = NoByte /\ line = <<>> /\ col = 0 /\ shown = <<>>
        BY <2>1 DEF TermInv
    <2>3. SentLine' = <<>> /\ SentCol' = 0
        BY <2>1, <2>2 DEF SentLine, SentCol
    <2>4. Owes(<<>>, <<>>, <<>>, 0)
        BY DEF Owes
    <2>5. QED
        BY <2>1, <2>2, <2>3, <2>4 DEF TermInv
<1>5. CASE LogBoot
    <2>1. at \in 1 .. Due /\ at + 1 \in 1 .. Due
        BY <1>5, Places DEF LogBoot
    <2>2. klog(at, at + 1, BootLog[at].msg, BootLog[at].mirror)
        BY <1>5 DEF LogBoot
    <2>3. QED
        BY <2>1, <2>2, LineOwed
<1>6. CASE LogUptime
    <2>1. Loop \in 1 .. Due /\ Due \in 1 .. Due
        BY Places
    <2>2. QED
        BY <1>6, <2>1, LineOwed DEF LogUptime
<1>7. ASSUME NEW key \in Keys, Echo(key) PROVE TermInv'
    BY <1>7, EchoOwed
<1>8. QED
    BY <1>1, <1>2, <1>3, <1>4, <1>5, <1>6, <1>7 DEF OutputNext, Mainline

-----------------------------------------------------------------------------
(* The times in the log                                                    *)

\* The rate that klog_prefix is written for, and a counter that has not
\* wrapped: 2^64 ticks of 10 ms are more than five billion years.
TicksFit == PIT_HZ <= 100 /\ \A u \in Uptimes : u + MaxTicks < Wide

\* The counter has its width, and a line of the log is stamped after the
\* loop has looked at the counter.
TimeInv == s_ticks < Wide /\ (at # Due => now <= stamp)

\* One line of the log keeps it.
LEMMA LineTimes ==
    ASSUME OutputInv, TimeInv, NEW place, NEW next, NEW msg, NEW mirrored,
           klog(place, next, msg, mirrored)
    PROVE  TimeInv'
<1>1. stamp' = s_ticks /\ s_ticks' = s_ticks /\ now' = now
    BY DEF klog
<1>2. QED
    BY <1>1 DEF OutputInv, LoopTypes, TimeInv

\* So does every other step.
LEMMA TimeInvStep ==
    ASSUME TicksFit, OutputInv, TimeInv, [OutputNext]_outputVars
    PROVE  TimeInv'
<1>1. CASE Clear
    BY <1>1, Places DEF Clear, Free, timeVars, TimeInv
<1>2. CASE LogBoot
    BY <1>2, LineTimes DEF LogBoot
<1>3. CASE LogUptime
    BY <1>3, LineTimes DEF LogUptime
<1>4. CASE UptimeDue
    BY <1>4 DEF UptimeDue, TimeInv
<1>5. CASE Tick
    <2>1. PICK u \in Uptimes : s_ticks + 1 \in u .. u + MaxTicks
        BY <1>5 DEF Tick
    <2>2. u + MaxTicks < Wide /\ u \in Nat /\ MaxTicks \in Nat
        BY OutputAssumption DEF TicksFit
    <2>3. s_ticks' < Wide
        <3>1. Wide \in Int
            BY DEF Wide
        <3>2. QED
            BY <1>5, <2>1, <2>2, <3>1 DEF Tick, OutputInv, LoopTypes
    <2>4. UNCHANGED <<at, now, stamp>>
        BY <1>5 DEF Tick
    <2>5. QED
        BY <2>3, <2>4 DEF TimeInv
<1>6. CASE \/ ConsoleOut \/ SerialOut \/ Send \/ UNCHANGED outputVars
           \/ \E key \in Keys : Echo(key)
           \/ \E v \in Faults : exception_handler(v)
    <2>1. UNCHANGED <<at, s_ticks, now, stamp>>
        BY <1>6 DEF ConsoleOut, SerialOut, Send, Echo, exception_handler, outputVars,
                    timeVars
    <2>2. QED
        BY <2>1 DEF TimeInv
<1>7. QED
    BY <1>1, <1>2, <1>3, <1>4, <1>5, <1>6 DEF OutputNext, Mainline

-----------------------------------------------------------------------------
(* Theorems                                                                *)

\* The types of the printing kernel: the cursor stays on the screen of any
\* size, also in the row that scrolls (console.c:66-102), no time that was
\* read is ahead of the counter, and only ASCII goes over the serial line.
THEOREM OutputTypes == OutputSpec => []OutputTypeOK
<1>1. OutputInv => OutputTypeOK
    BY DEF OutputInv, LoopTypes, PortTypes, ScreenInv, TrapInv, OutputTypeOK
<1>2. QED
    BY <1>1, OutputInvAlways, PTL

\* From console_clear on nothing is ever left at or behind the cursor, and
\* the visible cursor is the real one, whatever is printed (console.c:72-75).
THEOREM OutputScreenTidy == OutputSpec => []ScreenTidy
<1>1. OutputInv => ScreenTidy
    BY DEF OutputInv, ScreenInv, ScreenTidy
<1>2. QED
    BY <1>1, OutputInvAlways, PTL

\* exception_handler reports the vector, the error code and the place of
\* every exception, whether or not the CPU pushed a code (isr.asm:9-12).
THEOREM OutputFaultReported == OutputSpec => []FaultReported
<1>1. OutputInv => FaultReported
    <2> SUFFICES ASSUME OutputInv, fault # NoFault
                 PROVE  /\ Field(stack, "vector") = fault
                        /\ Field(stack, "error") = IF HasErrorCode(fault)
                                                   THEN ErrorCode ELSE 0
                        /\ \A r \in {"rip", "cs", "rflags"} :
                               Field(stack, r) = Mine[r]
        BY Zenon DEF FaultReported
    <2>1. stack = Entered(Mine, fault, ErrorCode)
        BY DEF OutputInv, TrapInv
    <2> DEFINE S == {Mine[r] : r \in Registers}
    <2>2. Mine \in [Registers -> S]
        <3>1. Mine = [r \in Registers |-> Mine[r]]
            BY DEF Mine
        <3> HIDE DEF S
        <3>2. \A r \in Registers : Mine[r] \in S
            BY DEF S
        <3>3. QED
            BY <3>1, <3>2
    <2> HIDE DEF S
    <2>3. /\ Field(stack, "vector") = fault
          /\ Field(stack, "error") = CodeShown(fault, ErrorCode)
          /\ \A r \in Registers : Field(stack, r) = Mine[r]
        <3>1. PICK m : m = Mine
            OBVIOUS
        <3>2. PICK f : f = fault
            OBVIOUS
        <3>3. m \in [Registers -> S]
            BY <2>2, <3>1
        <3>4. /\ Field(Entered(m, f, ErrorCode), "vector") = f
              /\ Field(Entered(m, f, ErrorCode), "error") = CodeShown(f, ErrorCode)
              /\ \A r \in Registers : Field(Entered(m, f, ErrorCode), r) = m[r]
            BY <3>3, FrameFields
        <3>5. stack = Entered(m, f, ErrorCode)
            BY <2>1, <3>1, <3>2, Zenon
        <3>6. QED
            BY <3>1, <3>2, <3>4, <3>5, Zenon
    <2>4. {"rip", "cs", "rflags"} \subseteq Registers
        <3>1. TrapRegs[3] = "rflags" /\ TrapRegs[4] = "cs" /\ TrapRegs[5] = "rip"
            BY DEF TrapRegs
        <3>2. QED
            BY <3>1, Orders DEF Registers
    <2>5. QED
        BY <2>3, <2>4, Zenon DEF CodeShown
<1>2. QED
    BY <1>1, OutputInvAlways, PTL

\* The console implements Tape: every character that is logged, reported or
\* echoed does to the screen what it should and nothing else, for a screen
\* of any size (console.c:66-102).
THEOREM OutputImplementsTape == OutputSpec => ImplementsTape
<1>1. OutputInit => Shown = <<>>
    <2> SUFFICES ASSUME OutputInit PROVE Shown = <<>>
        OBVIOUS
    <2>1. cursor_row = 0 /\ cursor_col = 0
        BY DEF OutputInit
    <2>2. Shown = [k \in 1 .. 0 |-> vga[k - 1]]
        BY <2>1, Places DEF Shown
    <2>3. QED
        BY <2>2
<1>2. OutputInv /\ [OutputNext]_outputVars =>
          [Screen!Write \/ Screen!Refill]_<<Shown, out>>
    <2> SUFFICES ASSUME OutputInv, [OutputNext]_outputVars
                 PROVE  \/ Screen!Write
                        \/ Screen!Refill
                        \/ UNCHANGED <<Shown, out>>
        BY Zenon
    <2>1. ASSUME UNCHANGED consoleVars PROVE Shown' = Shown
        BY <2>1 DEF consoleVars, Shown
    <2>2. ASSUME out = <<>>, UNCHANGED consoleVars PROVE Screen!Refill
        BY <2>1, <2>2 DEF Screen!Refill
    <2>3. CASE ConsoleOut
        <3>1. at > 0
            BY <2>3, Places DEF OutputInv, ConsoleOut, ScreenInv, Printed, LoopTypes
        <3>2. Shown' = Screen!Written(Head(out))
            BY <2>3, <3>1, PutcharWrites DEF OutputInv, ScreenInv, ConsoleInv, ConsoleOut
        <3>3. QED
            BY <2>3, <3>2 DEF ConsoleOut, Screen!Write
    <2>4. CASE Clear
        <3>1. out' = out
            BY <2>4 DEF Clear, printVars
        <3>2. /\ cursor_row = 0 /\ cursor_col = 0
              /\ cursor_row' = 0 /\ cursor_col' = 0
            BY <2>4 DEF Clear, Free, console_clear, OutputInv, ScreenInv
        <3>3. Shown = [k \in 1 .. 0 |-> vga[k - 1]]
              /\ Shown' = [k \in 1 .. 0 |-> vga'[k - 1]]
            BY <3>2, Places DEF Shown
        <3>4. Shown = <<>> /\ Shown' = <<>>
            BY <3>3
        <3>5. QED
            BY <3>1, <3>4
    <2>5. CASE LogBoot \/ LogUptime
        <3>1. out = <<>> /\ UNCHANGED consoleVars
            BY <2>5 DEF LogBoot, LogUptime, klog, Free, Printed
        <3>2. QED
            BY <2>2, <3>1
    <2>6. CASE SerialOut \/ UptimeDue \/ Send \/ Tick
        <3>1. out' = out /\ UNCHANGED consoleVars
            BY <2>6 DEF SerialOut, UptimeDue, Send, Tick, printVars
        <3>2. QED
            BY <2>1, <3>1
    <2>7. ASSUME NEW key \in Keys, Echo(key) PROVE Screen!Refill
        BY <2>2, <2>7 DEF Echo, Free, Printed
    <2>8. ASSUME NEW v \in Faults, exception_handler(v) PROVE Screen!Refill
        BY <2>2, <2>8 DEF exception_handler, Free, Printed
    <2>9. CASE UNCHANGED outputVars
        <3>1. out' = out /\ UNCHANGED consoleVars
            BY <2>9 DEF outputVars, printVars
        <3>2. QED
            BY <2>1, <3>1
    <2>10. QED
        BY <2>3, <2>4, <2>5, <2>6, <2>7, <2>8, <2>9 DEF OutputNext, Mainline
<1>3. QED
    BY <1>1, <1>2, OutputInvAlways, PTL
       DEF OutputSpec, ImplementsTape, Screen!TapeSpec

\* A terminal on COM1 shows what was typed and not erased, however the echo,
\* the log lines and its own reception interleave, for keys that it shows in
\* one cell: '\b' takes back exactly one of them (kmain.c:35-52).  Tab, which
\* kmain echoes as it is, is not such a key.
THEOREM OutputTerminalLine == PrintableKeys => (OutputSpec => []TerminalLine)
<1> SUFFICES ASSUME PrintableKeys PROVE OutputSpec => []TerminalLine
    OBVIOUS
<1>1. OutputInit => TermInv
    <2> SUFFICES ASSUME OutputInit PROVE TermInv
        OBVIOUS
    <2>1. mirror = <<>> /\ thr = NoByte /\ line = <<>> /\ col = 0 /\ shown = <<>>
        BY DEF OutputInit
    <2>2. SentLine = <<>> /\ SentCol = 0
        BY <2>1 DEF SentLine, SentCol
    <2>3. Owes(<<>>, <<>>, <<>>, 0)
        BY DEF Owes
    <2>4. QED
        BY <2>1, <2>2, <2>3 DEF TermInv
<1>2. OutputInv /\ TermInv /\ [OutputNext]_outputVars => TermInv'
    BY TermInvStep
<1>3. OutputInv /\ TermInv => TerminalLine
    <2> SUFFICES ASSUME OutputInv, TermInv, serial_present, mirror = <<>>, thr = NoByte
                 PROVE  /\ col = Len(shown)
                        /\ SubSeq(line, 1, col) = shown
                        /\ \A k \in col + 1 .. Len(line) : line[k] = Blank
        BY DEF TerminalLine, Printed
    <2>1. line \in Seq(1 .. 127) /\ col \in 0 .. Len(line) /\ shown \in Seq(1 .. 127)
        BY DEF OutputInv, PortTypes, TermInv
    <2>2. Owes(<<>>, shown, line, col)
        BY DEF TermInv, SentLine, SentCol
    <2>3. /\ Len(shown) = col
          /\ \A k \in 1 .. col : line[k] = shown[k]
          /\ \A k \in 1 .. Len(line) : k > col => line[k] = Blank
        BY <2>1, <2>2, OwesNothing
    <2>4. SubSeq(line, 1, col) = shown
        <3> DEFINE head == SubSeq(line, 1, col)
        <3>1. /\ head \in Seq(1 .. 127) /\ Len(head) = col
              /\ \A k \in 1 .. col : head[k] = line[k]
            BY <2>1, FirstChars
        <3> HIDE DEF head
        <3>2. head = shown
            BY <2>1, <2>3, <3>1, SeqEqual
        <3>3. QED
            BY <3>2 DEF head
    <2>5. \A k \in col + 1 .. Len(line) : line[k] = Blank
        BY <2>1, <2>3
    <2>6. QED
        BY <2>3, <2>4, <2>5
<1>4. QED
    BY <1>1, <1>2, <1>3, OutputInvAlways, PTL DEF OutputSpec

\* What the log says of the time is true for every counter that a uint64_t
\* can hold: the field of klog_prefix reads back as the ticks it was made
\* from and is right-aligned up to 99999 s (klog.c:8-11 and 25-69), the uptime
\* line reads back as the counter that the loop saw, and the line is not
\* stamped before that (kmain.c:184-198).
THEOREM OutputTimesExact == TicksFit => (OutputSpec => []TimesExact)
<1> SUFFICES ASSUME TicksFit PROVE OutputSpec => []TimesExact
    OBVIOUS
<1>1. OutputInit => TimeInv
    <2> SUFFICES ASSUME OutputInit PROVE TimeInv
        OBVIOUS
    <2>1. s_ticks \in Uptimes /\ now = last_uptime /\ stamp = last_uptime
        BY DEF OutputInit
    <2>2. s_ticks \in Nat /\ MaxTicks \in Nat /\ s_ticks + MaxTicks < Wide
        BY <2>1, OutputAssumption DEF TicksFit
    <2>3. last_uptime \in Nat
        BY OutputInvInit DEF OutputInv, LoopTypes
    <2>4. Wide \in Int
        BY DEF Wide
    <2>5. QED
        BY <2>1, <2>2, <2>3, <2>4 DEF TimeInv
<1>2. OutputInv /\ TimeInv /\ [OutputNext]_outputVars => TimeInv'
    BY TimeInvStep
<1>3. OutputInv /\ TimeInv => TimesExact
    <2> SUFFICES ASSUME OutputInv, TimeInv PROVE TimesExact
        OBVIOUS
    <2>1. stamp \in Nat /\ now \in Nat /\ s_ticks \in Nat /\ now <= s_ticks
        BY DEF OutputInv, LoopTypes
    <2>2. FieldReads(stamp)
        BY <2>1, TimeReadsBack DEF TicksFit
    <2>3. now = Number(Tail(Hex64(now)), 16)
        <3>1. now < Wide
            <4>1. Wide \in Int
                BY DEF Wide
            <4>2. QED
                BY <2>1, <4>1 DEF TimeInv
        <3>2. QED
            BY <2>1, <3>1, HexReadsBack
    <2>4. /\ now \div 10 = 10 * Number(Decimal(UptimeSecs), 10)
                              + Number(Decimal(UptimeTenths), 10)
          /\ Len(Decimal(UptimeTenths)) = 1
        <3>1. /\ UptimeSecs \in Nat /\ UptimeTenths \in 0 .. 9
              /\ now \div 10 = 10 * UptimeSecs + UptimeTenths
            BY <2>1, SMT DEF UptimeSecs, UptimeTenths
        <3>2. UptimeTenths \in Nat /\ UptimeTenths < 10
            BY <3>1
        <3>3. /\ Number(Decimal(UptimeSecs), 10) = UptimeSecs
              /\ Number(Decimal(UptimeTenths), 10) = UptimeTenths
            BY <3>1, <3>2, DecimalReadsBack
        <3>4. Decimal(UptimeTenths) = <<Zero + UptimeTenths>>
            BY <3>2, DecimalDigits
        <3>5. QED
            BY <3>1, <3>3, <3>4
    <2>5. at # Due => now <= stamp
        BY DEF TimeInv
    <2>6. QED
        BY <2>2, <2>3, <2>4, <2>5, SMT DEF FieldReads, TimesExact
<1>4. QED
    BY <1>1, <1>2, <1>3, OutputInvAlways, PTL DEF OutputSpec

=============================================================================
