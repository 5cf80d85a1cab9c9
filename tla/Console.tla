------------------------------ MODULE Console -------------------------------
(***************************************************************************)
(* The VGA text console, kernel/arch/x86_64/console.c: the text buffer as  *)
(* the code indexes it, the cursor, and the position last sent to the CRT  *)
(* controller.  Only mainline code prints, so console_putchar is one step. *)
(* A cell is its character; every cell has the same attribute.             *)
(***************************************************************************)
EXTENDS Integers, Sequences

CONSTANTS VGA_WIDTH, VGA_HEIGHT

\* The cursor is kept in two uint8_t, one past the last row included.
ASSUME ScreenAssumption ==
    /\ VGA_WIDTH \in 1 .. 255
    /\ VGA_HEIGHT \in 1 .. 254

BS    == 8
NL    == 10
Blank == 32

VARIABLES
    vga,
    cursor_row, cursor_col,
    hw          \* the position of the visible cursor

consoleVars == <<vga, cursor_row, cursor_col, hw>>

At(row, col) == row * VGA_WIDTH + col

Cells == 0 .. VGA_WIDTH * VGA_HEIGHT - 1

update_hw_cursor(row, col) == hw' = At(row, col)

\* Mutant: the row that scrolls in is a copy of the last one.
scrollDirty(cells) ==
    [n \in Cells |->
        IF n + VGA_WIDTH \in Cells THEN cells[n + VGA_WIDTH] ELSE cells[n]]

scroll(cells) ==
    [n \in Cells |->
        IF n + VGA_WIDTH \in Cells THEN cells[n + VGA_WIDTH] ELSE Blank]

console_clear ==
    /\ vga' = [n \in Cells |-> Blank]
    /\ cursor_row' = 0
    /\ cursor_col' = 0
    /\ update_hw_cursor(0, 0)

\* Mutant: the cursor may rest below the last row.
PastBottomLate(row) == row > VGA_HEIGHT

PastBottom(row) == row >= VGA_HEIGHT

\* The end of console_putchar: scroll if need be and show the cursor.
Finish(cells, row, col) ==
    /\ vga' = IF PastBottom(row) THEN scroll(cells) ELSE cells
    /\ cursor_row' = IF PastBottom(row) THEN VGA_HEIGHT - 1 ELSE row
    /\ cursor_col' = col
    /\ update_hw_cursor(cursor_row', col)

\* Mutant: the column is kept.
PutNewlineBare == Finish(vga, cursor_row + 1, cursor_col)

PutNewline == Finish(vga, cursor_row + 1, 0)

\* The cell before the cursor, in its row or at the end of the row above,
\* becomes blank and the cursor moves there; the first cell has none.
PutErase ==
    \/ /\ cursor_col > 0
       /\ Finish([vga EXCEPT ![At(cursor_row, cursor_col - 1)] = Blank],
                 cursor_row, cursor_col - 1)
    \/ /\ cursor_col = 0
       /\ cursor_row > 0
       /\ Finish([vga EXCEPT ![At(cursor_row - 1, VGA_WIDTH - 1)] = Blank],
                 cursor_row - 1, VGA_WIDTH - 1)
    \/ /\ cursor_col = 0
       /\ cursor_row = 0
       /\ UNCHANGED consoleVars

Wraps == cursor_col + 1 >= VGA_WIDTH

PutGlyph(ch) ==
    Finish([vga EXCEPT ![At(cursor_row, cursor_col)] = ch],
           IF Wraps THEN cursor_row + 1 ELSE cursor_row,
           IF Wraps THEN 0 ELSE cursor_col + 1)

console_putchar(ch) ==
    \/ ch = NL /\ PutNewline
    \/ ch = BS /\ PutErase
    \/ ch \notin {NL, BS} /\ PutGlyph(ch)

-----------------------------------------------------------------------------
(* Properties                                                              *)

\* The cursor stays on the screen, and so does every write at it.
CursorOnScreen ==
    /\ DOMAIN vga = Cells
    /\ cursor_row \in 0 .. VGA_HEIGHT - 1
    /\ cursor_col \in 0 .. VGA_WIDTH - 1

\* Nothing is left at or behind the cursor, whatever was typed, erased,
\* wrapped and scrolled before (console.c:72-75), and the visible cursor is
\* there.
NothingBehindCursor ==
    /\ \A n \in Cells : n >= At(cursor_row, cursor_col) => vga[n] = Blank
    /\ hw = At(cursor_row, cursor_col)

\* The text on the screen, up to the cursor.
Shown == [k \in 1 .. At(cursor_row, cursor_col) |-> vga[k - 1]]

=============================================================================
