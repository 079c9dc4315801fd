-------------------------------- MODULE Console --------------------------------
(***************************************************************************)
(* The text screen of src/kernel/kprint.c: the cells of the video memory in  *)
(* one array, row after row, and the cursor.  Colours and the hardware       *)
(* cursor are left out.                                                      *)
(***************************************************************************)
EXTENDS Integers

CONSTANTS Width, Height,   \* 80 and 25 in the code
          Glyph            \* the characters that have a shape, with the blank

Blank == " "
ASSUME ScreenAssumption == /\ Width \in Nat \ {0} /\ Height \in Nat \ {0}
                           /\ Blank \in Glyph

Control == {"nl", "cr", "bs", "tab"}
Cells == 0..(Width * Height - 1)
Screen == [cell : [Cells -> Glyph], cx : 0..(Width - 1), cy : 0..(Height - 1)]

\* kclear
Cleared == [cell |-> [k \in Cells |-> Blank], cx |-> 0, cy |-> 0]

\* A slip: one row too few is moved.
MovedShort(cell) == [k \in Cells |-> IF k < (Height - 2) * Width THEN cell[k + Width]
                                     ELSE IF k < (Height - 1) * Width THEN cell[k] ELSE Blank]
\* The rows move up by one and the last is blanked.
Moved(cell) == [k \in Cells |-> IF k < (Height - 1) * Width THEN cell[k + Width] ELSE Blank]

Scroll(s) == IF s.cy < Height THEN s
             ELSE [cell |-> Moved(s.cell), cx |-> s.cx, cy |-> Height - 1]

Newline(s) == Scroll([cell |-> s.cell, cx |-> 0, cy |-> s.cy + 1])

\* Print c where the cursor is.
Draw(s, c) == [s.cell EXCEPT ![s.cy * Width + s.cx] = c]

\* A slip: the line breaks one column late.
ShowLate(s, c) == IF s.cx + 1 > Width THEN Newline([s EXCEPT !.cell = Draw(s, c)])
                  ELSE [cell |-> Draw(s, c), cx |-> s.cx + 1, cy |-> s.cy]
Show(s, c) == IF s.cx + 1 >= Width THEN Newline([s EXCEPT !.cell = Draw(s, c)])
              ELSE [cell |-> Draw(s, c), cx |-> s.cx + 1, cy |-> s.cy]

Back(s) == IF s.cx = 0 THEN s
           ELSE LET t == [s EXCEPT !.cx = s.cx - 1] IN [t EXCEPT !.cell = Draw(t, Blank)]

\* To the next column that four divides, or over the end of the row.
Tab(s) == LET one == Show(s, Blank)  two == Show(one, Blank)
              three == Show(two, Blank)
          IN  CASE s.cx % 4 = 3 -> one
                [] s.cx % 4 = 2 -> two
                [] s.cx % 4 = 1 -> three
                [] s.cx % 4 = 0 -> Show(three, Blank)

\* vga_putc
Putc(s, c) == CASE c = "nl"  -> Newline(s)
                [] c = "cr"  -> [s EXCEPT !.cx = 0]
                [] c = "bs"  -> Back(s)
                [] c = "tab" -> Tab(s)
                [] OTHER     -> Show(s, c)

\* After s, t has what s has before the character left of the cursor, moved up
\* by so many rows.
Keeps(s, t, up) == \A k \in Cells : k < s.cy * Width + s.cx - 1 /\ k >= up * Width
                                     => t.cell[k - up * Width] = s.cell[k]
=============================================================================
