---------------------------- MODULE ConsoleProofs ----------------------------
(***************************************************************************)
(* Proofs about Console and about Shell, which prints on it, for every size  *)
(* of the screen and of the line: a character is always stored inside the    *)
(* video memory, and leaves what stands before the cursor; the line on the   *)
(* screen is the line that will run; it is parsed as it was meant; its words *)
(* fit the buffer of a builtin.                                              *)
(***************************************************************************)
EXTENDS Shell, SequenceTheorems, WellFoundedInduction, TLAPS

\* Products of naturals, as row numbers become offsets.
LEMMA Products ==
  /\ \A a, b \in Nat : a * b \in Nat
  /\ \A a, b \in Int : (a - 1) * b + b = a * b
  /\ \A a, b \in Int : a * b = b * a
  /\ \A a, b, c \in Nat : a <= b => a * c <= b * c
<1>1. \A a, b \in Nat : a * b \in Nat
  BY SMTT(30)
<1>2. \A a, b \in Int : (a - 1) * b + b = a * b
  BY SMTT(30)
<1>3. \A a, b \in Int : a * b = b * a
  BY SMTT(30)
<1>4. \A a, b, c \in Nat : a <= b => a * c <= b * c
  BY SMTT(30)
<1>5. QED
  BY <1>1, <1>2, <1>3, <1>4, Zenon

\* The screen's size and the first cell of its last row.
last == (Height - 1) * Width
size == Width * Height
LEMMA Sizes ==
  /\ Width \in Nat \ {0} /\ Height \in Nat \ {0} /\ Blank \in Glyph
  /\ size \in Nat /\ last \in Nat /\ last + Width = size
<1>1. Width \in Nat \ {0} /\ Height \in Nat \ {0} /\ Height - 1 \in Nat
  BY ScreenAssumption
<1>2. size \in Nat /\ last \in Nat
  BY <1>1, Products DEF size, last
<1>3. last + Width = Height * Width /\ Height * Width = Width * Height
  BY <1>1, Products DEF last
<1>4. QED
  BY <1>1, <1>2, <1>3, ScreenAssumption DEF size

\* The cell at the cursor is one of the screen's.
LEMMA CellInside ==
  ASSUME NEW x \in 0..(Width - 1), NEW y \in 0..(Height - 1)
  PROVE  y * Width \in Nat /\ y * Width + x < size
<1>1. Width \in Nat /\ Height - 1 \in Nat /\ y \in Nat /\ y <= Height - 1
  BY ScreenAssumption
<1>2. y * Width \in Nat /\ y * Width <= last
  BY <1>1, Products DEF last
<1>3. QED
  BY <1>2, Sizes

LEMMA MovedTyped ==
  ASSUME NEW cell \in [Cells -> Glyph]
  PROVE  Moved(cell) \in [Cells -> Glyph]
<1> SUFFICES ASSUME NEW k \in Cells
             PROVE  Moved(cell)[k] \in Glyph
  BY DEF Moved
<1>1. CASE k < last
  <2>1. k + Width \in Cells
    BY <1>1, Sizes DEF Cells, size
  <2>2. QED
    BY <1>1, <2>1 DEF Moved, last
<1>2. CASE ~(k < last)
  BY <1>2, Sizes DEF Moved, last
<1>3. QED
  BY <1>1, <1>2

LEMMA DrawTyped ==
  ASSUME NEW s \in Screen, NEW c \in Glyph
  PROVE  Draw(s, c) \in [Cells -> Glyph]
BY DEF Draw, Screen

\* A new row is on the screen again after the rows have moved.
LEMMA NewlineTyped ==
  ASSUME NEW s, s.cell \in [Cells -> Glyph], s.cy \in 0..(Height - 1)
  PROVE  Newline(s) \in Screen
<1>1. CASE s.cy + 1 < Height
  BY <1>1, Sizes DEF Newline, Scroll, Screen
<1>2. CASE ~(s.cy + 1 < Height)
  BY <1>2, Sizes, MovedTyped DEF Newline, Scroll, Screen
<1>3. QED
  BY <1>1, <1>2

LEMMA ShowTyped ==
  ASSUME NEW s \in Screen, NEW c \in Glyph
  PROVE  Show(s, c) \in Screen
<1> DEFINE t == [s EXCEPT !.cell = Draw(s, c)]
<1>1. t \in Screen
  BY DrawTyped DEF Screen
<1>2. CASE s.cx + 1 >= Width
  <2>1. Newline(t) \in Screen
    BY <1>1, NewlineTyped DEF Screen
  <2>2. QED
    BY <1>2, <2>1 DEF Show
<1>3. CASE ~(s.cx + 1 >= Width)
  BY <1>3, Sizes, DrawTyped DEF Show, Screen
<1>4. QED
  BY <1>2, <1>3

\* No character takes the cursor off the screen or stores outside it: not the
\* last column of the last row, not a tab across the end of a row, nor a
\* screen narrower than a tab.
THEOREM PutcStaysOnScreen ==
  ASSUME NEW s \in Screen, NEW c \in Glyph \cup Control
  PROVE  Putc(s, c) \in Screen
<1>1. Newline(s) \in Screen
  BY NewlineTyped DEF Screen
<1>2. [s EXCEPT !.cx = 0] \in Screen
  BY Sizes DEF Screen
<1>3. Back(s) \in Screen
  <2>1. CASE s.cx = 0
    BY <2>1 DEF Back
  <2>2. CASE s.cx # 0
    <3> DEFINE t == [s EXCEPT !.cx = s.cx - 1]
    <3>1. t \in Screen
      BY <2>2, Sizes DEF Screen
    <3>2. Draw(t, Blank) \in [Cells -> Glyph]
      BY <3>1, Sizes, DrawTyped
    <3>3. [t EXCEPT !.cell = Draw(t, Blank)] \in Screen
      BY <3>1, <3>2 DEF Screen
    <3>4. QED
      BY <2>2, <3>3 DEF Back
  <2>3. QED
    BY <2>1, <2>2
<1>4. Tab(s) \in Screen
  <2> DEFINE one == Show(s, Blank)
             two == Show(one, Blank)
             three == Show(two, Blank)
             four == Show(three, Blank)
  <2>1. one \in Screen /\ two \in Screen /\ three \in Screen /\ four \in Screen
    BY Sizes, ShowTyped
  <2>2. s.cx % 4 \in 0..3
    BY DEF Screen
  <2>3. Tab(s) \in {one, two, three, four}
    <3> HIDE DEF one, two, three, four
    <3>1. Tab(s) = CASE s.cx % 4 = 3 -> one
                     [] s.cx % 4 = 2 -> two
                     [] s.cx % 4 = 1 -> three
                     [] s.cx % 4 = 0 -> four
      BY Zenon DEF Tab, one, two, three, four
    <3>2. QED
      BY <2>2, <3>1
  <2>4. QED
    BY <2>1, <2>3
<1>5. c \notin Control => Show(s, c) \in Screen
  BY ShowTyped
<1>6. QED
  BY <1>1, <1>2, <1>3, <1>4, <1>5 DEF Putc, Control

-----------------------------------------------------------------------------
\* The cell drawn is the cursor's, and no other changes.
LEMMA DrawElsewhere ==
  ASSUME NEW s \in Screen, NEW c, NEW k \in Cells, k # s.cy * Width + s.cx
  PROVE  Draw(s, c)[k] = s.cell[k]
BY DEF Draw, Screen

\* If the cells before the cursor are those of s, the next row keeps them.
LEMMA NewlineKeeps ==
  ASSUME NEW s \in Screen, NEW d, d.cy = s.cy,
         \A k \in Cells : k < s.cy * Width + s.cx - 1 => d.cell[k] = s.cell[k]
  PROVE  \/ Keeps(s, Newline(d), 0)
         \/ s.cy = Height - 1 /\ Keeps(s, Newline(d), 1)
<1>1. s.cy \in 0..(Height - 1) /\ s.cx \in 0..(Width - 1) /\ 0 * Width = 0 /\ 1 * Width = Width
  BY Sizes DEF Screen
<1>2. s.cy * Width \in Nat
  BY <1>1, CellInside
<1>3. CASE s.cy + 1 < Height
  <2>1. Newline(d).cell = d.cell
    BY <1>3 DEF Newline, Scroll
  <2>2. \A k \in Cells : k \in Nat /\ k - 0 = k
    BY DEF Cells
  <2>3. Keeps(s, Newline(d), 0)
    BY <1>1, <2>1, <2>2 DEF Keeps
  <2>4. QED
    BY <2>3
<1>4. CASE ~(s.cy + 1 < Height)
  <2>1. Newline(d).cell = Moved(d.cell)
    BY <1>4 DEF Newline, Scroll
  <2>2. ASSUME NEW k \in Cells, k < s.cy * Width + s.cx - 1, k >= Width
        PROVE  Newline(d).cell[k - Width] = s.cell[k]
    <3>1. k - Width \in Cells /\ k - Width < last /\ k - Width + Width = k
      BY <2>2, Sizes DEF Cells, size
    <3>2. Moved(d.cell)[k - Width] = d.cell[k]
      BY <3>1 DEF Moved, last
    <3>3. QED
      BY <2>1, <2>2, <3>2
  <2>3. s.cy = Height - 1
    BY <1>1, <1>4, Sizes
  <2>4. Keeps(s, Newline(d), 1)
    BY <1>1, <2>2 DEF Keeps
  <2>5. QED
    BY <2>3, <2>4
<1>5. QED
  BY <1>3, <1>4

\* Printing a character other than a tab keeps what stands before the cursor,
\* up to the character left of it that a backspace blanks: where it was, or,
\* when the cursor was in the last row, one row up.  (On a screen narrower
\* than a tab one tab moves the rows several times.)
THEOREM PutcKeepsText ==
  ASSUME NEW s \in Screen, NEW c \in (Glyph \cup Control) \ {"tab"}
  PROVE  \/ Keeps(s, Putc(s, c), 0)
         \/ s.cy = Height - 1 /\ Keeps(s, Putc(s, c), 1)
<1> DEFINE left == s.cy * Width + s.cx - 1
<1>1. s.cy \in 0..(Height - 1) /\ s.cx \in 0..(Width - 1)
  BY DEF Screen
<1>2. s.cy * Width \in Nat /\ 0 * Width = 0 /\ \A k \in Cells : k \in Nat /\ k - 0 = k
  BY <1>1, CellInside, Sizes DEF Cells
<1>3. ASSUME NEW t, \A k \in Cells : k < left => t.cell[k] = s.cell[k]
      PROVE  Keeps(s, t, 0)
  <2>1. \A k \in Cells : k - 0 * Width = k
    BY <1>2
  <2>2. QED
    BY <1>3, <2>1, Zenon DEF Keeps
<1>4. \A k \in Cells : k < left => Draw(s, c)[k] = s.cell[k]
  <2>1. ASSUME NEW k \in Cells, k < left PROVE k # s.cy * Width + s.cx
    BY <1>1, <1>2, <2>1
  <2>2. QED
    BY <2>1, DrawElsewhere
<1>5. CASE c = "nl"
  BY <1>5, NewlineKeeps DEF Putc
<1>6. CASE c = "cr"
  <2>1. [s EXCEPT !.cx = 0].cell = s.cell
    BY DEF Screen
  <2>2. QED
    BY <1>3, <1>6, <2>1 DEF Putc
<1>7. CASE c = "bs" /\ s.cx # 0
  <2> DEFINE t == [s EXCEPT !.cx = s.cx - 1]
  <2>1. t \in Screen /\ t.cell = s.cell /\ t.cy = s.cy /\ t.cx = s.cx - 1
    BY <1>1, <1>7, Sizes DEF Screen
  <2>2. \A k \in Cells : k < left => Draw(t, Blank)[k] = s.cell[k]
    <3> HIDE DEF t
    <3>1. QED
      BY <1>1, <1>2, <2>1, DrawElsewhere
  <2>3. Putc(s, c) = [t EXCEPT !.cell = Draw(t, Blank)]
    BY <1>7 DEF Putc, Back
  <2>4. Putc(s, c).cell = Draw(t, Blank)
    BY <2>1, <2>3 DEF Screen
  <2>5. QED
    BY <1>3, <2>2, <2>4
<1>8. CASE c = "bs" /\ s.cx = 0
  BY <1>3, <1>8 DEF Putc, Back
<1>9. CASE c \notin {"nl", "cr", "bs"}
  <2>1. Putc(s, c) = Show(s, c)
    BY <1>9 DEF Putc
  <2>2. CASE s.cx + 1 >= Width
    <3> DEFINE d == [s EXCEPT !.cell = Draw(s, c)]
    <3>1. d.cell = Draw(s, c) /\ d.cy = s.cy
      BY DEF Screen
    <3>2. Show(s, c) = Newline(d)
      BY <2>2 DEF Show
    <3> HIDE DEF d
    <3>3. \A k \in Cells : k < s.cy * Width + s.cx - 1 => d.cell[k] = s.cell[k]
      BY <1>4, <3>1
    <3>4. \/ Keeps(s, Newline(d), 0)
          \/ s.cy = Height - 1 /\ Keeps(s, Newline(d), 1)
      BY <3>1, <3>3, NewlineKeeps, Zenon
    <3>5. QED
      BY <2>1, <3>2, <3>4
  <2>3. CASE ~(s.cx + 1 >= Width)
    <3>1. Show(s, c).cell = Draw(s, c)
      BY <2>3 DEF Show
    <3>2. QED
      BY <1>3, <1>4, <2>1, <3>1
  <2>4. QED
    BY <2>2, <2>3
<1>10. QED
  BY <1>5, <1>6, <1>7, <1>8, <1>9

-----------------------------------------------------------------------------
\* The loops of the shell, by induction over their rounds.

LEMMA Least ==
  ASSUME NEW T \in SUBSET Nat, T # {}
  PROVE  \E n \in T : \A m \in T : n <= m
<1> DEFINE less == OpToRel(<, Nat)
<1>1. \E n \in T : \A m \in T : ~(<<m, n>> \in less)
  <2>1. IsWellFoundedOn(less, Nat)
    BY NatLessThanWellFounded
  <2> HIDE DEF less
  <2>2. QED
    BY <2>1, WFMin
<1>2. \A m, n \in Nat : <<m, n>> \in less <=> m < n
  BY DEF OpToRel
<1> HIDE DEF less
<1>3. PICK n \in T : \A m \in T : ~(<<m, n>> \in less)
  BY <1>1
<1>4. \A m \in T : m \in Nat /\ n \in Nat /\ ~(m < n)
  BY <1>2, <1>3
<1>5. \A m \in T : n <= m
  BY <1>4
<1>6. QED
  BY <1>5

\* What holds at first and after every round holds after all.
LEMMA Rounds ==
  ASSUME NEW n \in Nat, NEW T, 0 \in T, \A i \in 1..n : i - 1 \in T => i \in T
  PROVE  \A i \in 0..n : i \in T
<1> DEFINE U == (0..n) \ T
<1>1. ASSUME U # {} PROVE FALSE
  <2>1. PICK k \in U : \A m \in U : k <= m
    <3>1. U \in SUBSET Nat
      OBVIOUS
    <3> HIDE DEF U
    <3>2. QED
      BY <1>1, <3>1, Least
  <2>2. k \in 1..n /\ k \notin T
    OBVIOUS
  <2>3. k - 1 \in 0..n /\ ~(k <= k - 1)
    BY <2>2
  <2>4. k - 1 \in T
    BY <2>1, <2>3
  <2>5. QED
    BY <2>2, <2>4
<1>2. QED
  BY <1>1

\* What kputs has printed after each character.
Shown(f, s, text, m) == f = [n \in 0..m |-> IF n = 0 THEN s ELSE Putc(f[n - 1], text[n])]

LEMMA ShownExists ==
  ASSUME NEW s, NEW text, NEW m \in Nat
  PROVE  \E f : Shown(f, s, text, m)
<1> DEFINE T == {k \in Nat : \E g : Shown(g, s, text, k)}
<1>1. 0 \in T
  <2> DEFINE g == [n \in 0..0 |-> s]
  <2>1. Shown(g, s, text, 0)
    BY DEF Shown
  <2>2. QED
    BY <2>1
<1>2. ASSUME NEW k \in 1..m, k - 1 \in T PROVE k \in T
  <2>1. PICK g : Shown(g, s, text, k - 1)
    BY <1>2
  <2> DEFINE f == [n \in 0..k |-> IF n = k THEN Putc(g[k - 1], text[k]) ELSE g[n]]
  <2>2. ASSUME NEW n \in 0..k
        PROVE  f[n] = IF n = 0 THEN s ELSE Putc(f[n - 1], text[n])
    <3>1. CASE n = k
      <4>1. f[n] = Putc(g[k - 1], text[k])
        BY <3>1
      <4>2. f[k - 1] = g[k - 1]
        OBVIOUS
      <4> HIDE DEF f
      <4>3. QED
        BY <3>1, <4>1, <4>2
    <3>2. CASE n # k
      <4>1. f[n] = g[n] /\ n \in 0..(k - 1)
        BY <3>2
      <4>2. g[n] = IF n = 0 THEN s ELSE Putc(g[n - 1], text[n])
        BY <2>1, <4>1 DEF Shown
      <4>3. n # 0 => f[n - 1] = g[n - 1]
        BY <4>1
      <4> HIDE DEF f
      <4>4. QED
        BY <4>1, <4>2, <4>3
    <3>3. QED
      BY <3>1, <3>2
  <2>3. f = [n \in 0..k |-> f[n]]
    OBVIOUS
  <2> HIDE DEF f
  <2>4. [n \in 0..k |-> f[n]] = [n \in 0..k |-> IF n = 0 THEN s ELSE Putc(f[n - 1], text[n])]
    BY <2>2
  <2>5. Shown(f, s, text, k)
    BY <2>3, <2>4 DEF Shown
  <2>6. QED
    BY <2>5
<1> HIDE DEF T
<1>3. m \in T
  BY <1>1, <1>2, Rounds
<1>4. QED
  BY <1>3 DEF T

\* kputs prints one character after another.
LEMMA PutAllIs ==
  ASSUME NEW s, NEW text, Len(text) \in Nat
  PROVE  \E f : /\ f[0] = s /\ PutAll(s, text) = f[Len(text)]
                /\ \A n \in 1..Len(text) : f[n] = Putc(f[n - 1], text[n])
<1> DEFINE f == CHOOSE g : Shown(g, s, text, Len(text))
<1>1. Shown(f, s, text, Len(text))
  <2>1. \E g : Shown(g, s, text, Len(text))
    BY ShownExists
  <2>2. QED
    BY <2>1
<1>2. PutAll(s, text) = f[Len(text)]
  BY DEF PutAll, Shown
<1> HIDE DEF f
<1>3. /\ f[0] = s
      /\ \A n \in 1..Len(text) : f[n] = Putc(f[n - 1], text[n])
  BY <1>1 DEF Shown
<1>4. QED
  BY <1>2, <1>3

LEMMA PutAllStaysOnScreen ==
  ASSUME NEW s \in Screen, NEW text \in Seq(Glyph \cup Control)
  PROVE  PutAll(s, text) \in Screen
<1>1. Len(text) \in Nat /\ \A n \in 1..Len(text) : text[n] \in Glyph \cup Control
  OBVIOUS
<1>2. PICK f : /\ f[0] = s /\ PutAll(s, text) = f[Len(text)]
               /\ \A n \in 1..Len(text) : f[n] = Putc(f[n - 1], text[n])
  BY <1>1, PutAllIs
<1> DEFINE T == {n \in 0..Len(text) : f[n] \in Screen}
<1>3. 0 \in T
  BY <1>1, <1>2
<1>4. ASSUME NEW n \in 1..Len(text), n - 1 \in T PROVE n \in T
  BY <1>1, <1>2, <1>4, PutcStaysOnScreen
<1> HIDE DEF T
<1>5. \A n \in 0..Len(text) : n \in T
  BY <1>1, <1>3, <1>4, Rounds
<1>6. Len(text) \in T
  BY <1>1, <1>5
<1>7. QED
  BY <1>2, <1>6 DEF T

-----------------------------------------------------------------------------
\* The parser keeps to the line.

\* A search finds the first place, or the end.
LEMMA FirstIs ==
  ASSUME NEW l, Len(l) \in Nat, NEW from \in Nat \ {0}, NEW set
  PROVE  /\ First(l, from, set) \in 1..(Len(l) + 1)
         /\ First(l, from, set) <= Len(l) => First(l, from, set) >= from /\ l[First(l, from, set)] \in set
         /\ \A i \in from..(First(l, from, set) - 1) : l[i] \notin set
<1> DEFINE at == {i \in from..Len(l) : l[i] \in set}
<1>1. First(l, from, set) = IF at = {} THEN Len(l) + 1 ELSE CHOOSE i \in at : \A j \in at : i <= j
  BY DEF First
<1>2. CASE at = {}
  <2>1. First(l, from, set) = Len(l) + 1
    BY <1>1, <1>2
  <2>2. \A i \in from..Len(l) : l[i] \notin set
    BY <1>2
  <2>3. QED
    BY <2>1, <2>2
<1>3. CASE at # {}
  <2>1. at \in SUBSET Nat
    OBVIOUS
  <2>2. \E i \in at : \A j \in at : i <= j
    <3> HIDE DEF at
    <3>1. QED
      BY <1>3, <2>1, Least
  <2>3. First(l, from, set) \in at /\ \A j \in at : First(l, from, set) <= j
    <3> HIDE DEF at
    <3>1. QED
      BY <1>1, <1>3, <2>2
  <2> DEFINE k == First(l, from, set)
  <2> HIDE DEF k
  <2>4. k \in from..Len(l) /\ l[k] \in set /\ \A j \in at : k <= j
    BY <2>3 DEF k
  <2>5. \A i \in from..(k - 1) : i \notin at
    BY <2>4
  <2>6. \A i \in from..(k - 1) : l[i] \notin set
    BY <2>4, <2>5
  <2>7. QED
    BY <2>4, <2>6 DEF k
<1>4. QED
  BY <1>2, <1>3

\* Cuts of a line are lines.
LEMMA Cut ==
  ASSUME NEW S, NEW l \in Seq(S), NEW a \in Nat \ {0}, NEW b \in Int, b <= Len(l)
  PROVE  SubSeq(l, a, b) \in Seq(S) /\ Len(SubSeq(l, a, b)) = IF a <= b THEN b - a + 1 ELSE 0
  OBVIOUS

LEMMA Greatest ==
  ASSUME NEW n \in Nat, NEW T \in SUBSET (0..n), T # {}
  PROVE  \E i \in T : \A j \in T : i >= j
<1> DEFINE U == {k \in 0..n : \A m \in T : m <= k}
<1>1. n \in U /\ U \in SUBSET Nat
  OBVIOUS
<1>2. PICK k \in U : \A m \in U : k <= m
  <2> HIDE DEF U
  <2>1. QED
    BY <1>1, Least
<1>3. k \in 0..n /\ \A m \in T : m <= k
  OBVIOUS
<1>4. k \in T
  <2> SUFFICES ASSUME k \notin T PROVE FALSE
    OBVIOUS
  <2>1. PICK m \in T : TRUE
    OBVIOUS
  <2>2. m <= k /\ m # k /\ m \in 0..n
    BY <1>3
  <2>3. k - 1 \in 0..n
    BY <1>3, <2>2
  <2>4. \A i \in T : i <= k - 1
    BY <1>3
  <2>5. k - 1 \in U
    BY <2>3, <2>4
  <2>6. QED
    BY <1>2, <1>3, <2>5
<1>5. \A m \in T : k >= m
  BY <1>3
<1>6. QED
  BY <1>4, <1>5

LEMMA LastBlankIs ==
  ASSUME NEW l, Len(l) \in Nat
  PROVE  LastBlank(l) \in 0..(SignAt(l) - 1) /\ SignAt(l) \in 1..(Len(l) + 1)
<1>1. SignAt(l) \in 1..(Len(l) + 1)
  BY FirstIs DEF SignAt
<1> DEFINE n == SignAt(l)
           at == {i \in 1..(n - 1) : l[i] = " "}
<1>2. LastBlank(l) = IF at = {} THEN 0 ELSE CHOOSE i \in at : \A j \in at : i >= j
  BY DEF LastBlank
<1>3. at \in SUBSET (0..(n - 1)) /\ n - 1 \in Nat /\ 0 \in 0..(n - 1)
  <2>1. PICK k \in Nat : n = k
    BY <1>1
  <2> HIDE DEF n
  <2>2. k >= 1
    BY <1>1, <2>1 DEF n
  <2>3. n - 1 \in Nat /\ 0 \in 0..(n - 1)
    BY <2>1, <2>2
  <2>4. \A i \in at : i \in 1..(n - 1)
    BY Zenon
  <2> HIDE DEF at
  <2>5. QED
    BY <2>3, <2>4
<1>4. at # {} => \E i \in at : \A j \in at : i >= j
  <2> HIDE DEF at, n
  <2>1. QED
    BY <1>3, Greatest
<1>5. at # {} => LastBlank(l) \in at
  <2> HIDE DEF at
  <2>1. QED
    BY <1>2, <1>4
<1>6. CASE at = {}
  <2>1. LastBlank(l) = 0
    <3> HIDE DEF at
    <3>1. QED
      BY <1>2, <1>6
  <2>2. QED
    BY <1>1, <1>3, <2>1
<1>7. CASE at # {}
  <2>1. LastBlank(l) \in 0..(n - 1)
    <3> HIDE DEF at
    <3>1. QED
      BY <1>3, <1>5, <1>7
  <2>2. QED
    BY <1>1, <2>1
<1>8. QED
  BY <1>6, <1>7

LEMMA CommandCut ==
  ASSUME NEW l \in Seq(Typed)
  PROVE  CommandPart(l) \in Seq(Typed) /\ Len(CommandPart(l)) <= Len(l)
<1>0. Len(l) \in Nat
  OBVIOUS
<1>1. Len(l) \in Nat /\ LastBlank(l) \in 0..(SignAt(l) - 1) /\ SignAt(l) \in 1..(Len(l) + 1)
  BY <1>0, LastBlankIs
<1> DEFINE e == IF LastBlank(l) # 0 THEN LastBlank(l) - 1 ELSE IF Doubled(l) THEN SignAt(l) ELSE SignAt(l) - 1
<1>2. CASE SignAt(l) > Len(l)
  BY <1>1, <1>2 DEF CommandPart
<1>3. CASE ~(SignAt(l) > Len(l))
  <2>1. e \in Nat /\ e <= Len(l)
    BY <1>1, <1>3
  <2>2. CommandPart(l) = SubSeq(l, 1, e)
    BY <1>3 DEF CommandPart
  <2> HIDE DEF e
  <2>3. QED
    BY <1>1, <2>1, <2>2, Cut
<1>4. QED
  BY <1>2, <1>3

\* The word that begins at p or after, and where the search goes on.
NoWord(l, p) == NonBlank(l, p) > Len(l)
WordAt(l, p) == SubSeq(l, From(l, NonBlank(l, p)), To(l, NonBlank(l, p)) - 1)
After(l, p) == To(l, NonBlank(l, p)) + 1

LEMMA WordIs ==
  ASSUME NEW l \in Seq(Typed), NEW p \in 1..(Len(l) + 2), ~NoWord(l, p)
  PROVE  /\ WordAt(l, p) \in Seq(Typed)
         /\ After(l, p) \in (p + 2)..(Len(l) + 2) /\ p + Len(WordAt(l, p)) + 1 <= After(l, p)
<1>1. PICK n \in Nat : n = Len(l)
  OBVIOUS
<1>0. p \in Nat /\ p >= 1 /\ p <= n + 2
  BY <1>1
<1> DEFINE black == {l[i] : i \in p..Len(l)} \ {" "}
<1>2. PICK b \in Nat : b = NonBlank(l, p)
  <2>1. NonBlank(l, p) = First(l, p, black)
    BY DEF NonBlank
  <2> HIDE DEF black
  <2>2. p \in Nat \ {0}
    BY <1>0
  <2>3. NonBlank(l, p) \in 1..(n + 1)
    BY <1>1, <2>1, <2>2, FirstIs
  <2>4. NonBlank(l, p) \in Nat
    BY <2>3
  <2>5. QED
    BY <2>4
<1>3. b >= p /\ b <= n /\ l[b] \notin {" "}
  <2>1. NonBlank(l, p) = First(l, p, black)
    BY DEF NonBlank
  <2> HIDE DEF black
  <2>2. p \in Nat \ {0}
    BY <1>0
  <2>3. (b <= n => b >= p) /\ (b <= n => l[b] \in black)
    BY <1>1, <1>2, <2>1, <2>2, FirstIs
  <2>4. b <= n
    BY <1>1, <1>2 DEF NoWord
  <2>5. l[b] \notin {" "}
    BY <2>3, <2>4 DEF black
  <2>6. QED
    BY <2>3, <2>4, <2>5
<1>b. b \in Nat /\ b >= p /\ b <= n
  BY <1>3
<1> DEFINE stop == IF l[b] \in Quotes THEN {l[b]} ELSE {" "}
<1>4. PICK from \in Nat : from = From(l, b)
  BY <1>b DEF From
<1>5. from = b + 1 \/ (from = b /\ l[b] \notin stop)
  <2>1. CASE l[b] \in Quotes
    BY <1>4, <2>1 DEF From
  <2>2. CASE l[b] \notin Quotes
    BY <1>3, <1>4, <2>2 DEF From
  <2>3. QED
    BY <2>1, <2>2
<1> HIDE DEF stop
<1>f. from \in Nat /\ from >= b /\ from <= b + 1
  <2>1. from = b + 1 \/ from = b
    BY <1>5
  <2>2. QED
    BY <2>1
<1>6. PICK to \in Nat : to = To(l, b)
  <2>1. To(l, b) = First(l, from, stop)
    BY <1>4 DEF To, stop
  <2> HIDE DEF stop
  <2>2. from \in Nat \ {0}
    BY <1>0, <1>b, <1>f
  <2>3. To(l, b) \in 1..(n + 1)
    BY <1>1, <2>1, <2>2, FirstIs
  <2>4. To(l, b) \in Nat
    BY <2>3
  <2>5. QED
    BY <2>4
<1>7. to = First(l, from, stop)
  BY <1>4, <1>6 DEF To, stop
<1>8. to \in 1..(n + 1) /\ (to <= n => to >= from /\ l[to] \in stop)
  <2> HIDE DEF stop
  <2>1. from \in Nat \ {0}
    BY <1>0, <1>b, <1>f
  <2>2. QED
    BY <1>1, <1>7, <2>1, FirstIs
<1> HIDE DEF stop
<1>9. to >= b + 1 /\ to >= from /\ from >= b /\ from \in Nat /\ to \in Nat
  <2>1. CASE to <= n
    <3>1. to >= from /\ (from # to \/ from = b + 1)
      BY <1>5, <1>8, <2>1
    <3>2. QED
      BY <1>b, <1>f, <1>5, <1>8, <2>1, <3>1
  <2>2. CASE ~(to <= n)
    BY <1>b, <1>f, <1>8, <2>2
  <2>3. QED
    BY <2>1, <2>2
<1>10. WordAt(l, p) = SubSeq(l, from, to - 1) /\ After(l, p) = to + 1
  BY <1>2, <1>4, <1>6 DEF WordAt, After
<1>11. SubSeq(l, from, to - 1) \in Seq(Typed) /\ Len(SubSeq(l, from, to - 1)) = to - from
  <2>1. from \in Nat \ {0} /\ to - 1 \in Int /\ to - 1 <= Len(l)
    BY <1>0, <1>1, <1>b, <1>8, <1>9
  <2>2. /\ SubSeq(l, from, to - 1) \in Seq(Typed)
        /\ Len(SubSeq(l, from, to - 1)) = IF from <= to - 1 THEN (to - 1) - from + 1 ELSE 0
    BY <2>1, Cut
  <2>3. QED
    BY <1>9, <2>2
<1>12. QED
  BY <1>0, <1>1, <1>b, <1>8, <1>9, <1>10, <1>11

\* The words from lo on.
IsWords(f, l, lo) ==
  f = [p \in lo..(Len(l) + 2) |-> IF NoWord(l, p) THEN <<>> ELSE <<WordAt(l, p)>> \o f[After(l, p)]]

LEMMA WordsExist ==
  ASSUME NEW l \in Seq(Typed)
  PROVE  \E f : IsWords(f, l, 1)
<1>1. PICK n \in Nat : n = Len(l)
  OBVIOUS
<1> DEFINE T == {k \in Nat : \E f : IsWords(f, l, n + 2 - k)}
           none == <<>>
<1>2. 0 \in T
  <2>1. NoWord(l, n + 2)
    <3>1. n + 2 \in Nat \ {0}
      OBVIOUS
    <3>2. /\ NonBlank(l, n + 2) \in 1..(n + 1)
          /\ NonBlank(l, n + 2) <= n => NonBlank(l, n + 2) >= n + 2
      <4> DEFINE black == {l[i] : i \in (n + 2)..Len(l)} \ {" "}
      <4>1. NonBlank(l, n + 2) = First(l, n + 2, black)
        BY DEF NonBlank
      <4> HIDE DEF black
      <4>2. QED
        BY <1>1, <3>1, <4>1, FirstIs
    <3>3. QED
      BY <1>1, <3>2 DEF NoWord
  <2> DEFINE f == [p \in (n + 2)..(n + 2) |-> none]
  <2>2. ASSUME NEW p \in (n + 2)..(n + 2)
        PROVE  f[p] = IF NoWord(l, p) THEN none ELSE <<WordAt(l, p)>> \o f[After(l, p)]
    <3>1. p = n + 2
      OBVIOUS
    <3>2. QED
      BY <2>1, <3>1
  <2>3. f = [p \in (n + 2)..(n + 2) |-> f[p]]
    OBVIOUS
  <2> HIDE DEF f
  <2>4. f = [p \in (n + 2)..(n + 2) |-> IF NoWord(l, p) THEN none ELSE <<WordAt(l, p)>> \o f[After(l, p)]]
    BY <2>2, <2>3
  <2>5. IsWords(f, l, n + 2 - 0)
    <3>1. n + 2 - 0 = n + 2
      OBVIOUS
    <3>2. QED
      BY <1>1, <2>4, <3>1 DEF IsWords
  <2>6. QED
    BY <2>5
<1>3. ASSUME NEW k \in 1..(n + 1), k - 1 \in T PROVE k \in T
  <2>0. PICK lo \in 1..(n + 1) : lo = n + 2 - k
    <3>1. k \in Nat /\ k >= 1 /\ k <= n + 1
      BY <1>1
    <3>2. n + 2 - k \in 1..(n + 1)
      BY <1>1, <3>1
    <3>3. QED
      BY <3>2
  <2>1. n + 2 - (k - 1) = lo + 1
    BY <1>1, <2>0
  <2>2. PICK g : IsWords(g, l, lo + 1)
    BY <1>3, <2>1
  <2> DEFINE f == [p \in lo..(n + 2) |->
                     IF p = lo THEN (IF NoWord(l, lo) THEN none ELSE <<WordAt(l, lo)>> \o g[After(l, lo)])
                     ELSE g[p]]
  <2>3. \A p \in (lo + 1)..(n + 2) : f[p] = g[p]
    BY <2>0
  <2>4. ASSUME NEW p \in lo..(n + 2)
        PROVE  f[p] = IF NoWord(l, p) THEN none ELSE <<WordAt(l, p)>> \o f[After(l, p)]
    <3>1. p \in 1..(n + 2) /\ p \in Nat
      BY <2>0
    <3>2. ~NoWord(l, p) => After(l, p) \in (lo + 1)..(n + 2)
      <4>1. ~NoWord(l, p) => After(l, p) \in (p + 2)..(n + 2)
        BY <1>1, <3>1, WordIs
      <4>2. QED
        BY <2>0, <3>1, <4>1
    <3>3. ~NoWord(l, p) => f[After(l, p)] = g[After(l, p)]
      BY <2>3, <3>2
    <3>4. CASE p = lo
      <4>1. f[p] = IF NoWord(l, p) THEN none ELSE <<WordAt(l, p)>> \o g[After(l, p)]
        BY <3>4
      <4> HIDE DEF f, none
      <4>2. QED
        BY <3>3, <4>1
    <3>5. CASE p # lo
      <4>1. f[p] = g[p] /\ p \in (lo + 1)..(n + 2)
        BY <2>0, <3>1, <3>5
      <4>2. g[p] = IF NoWord(l, p) THEN none ELSE <<WordAt(l, p)>> \o g[After(l, p)]
        BY <1>1, <2>2, <4>1 DEF IsWords
      <4> HIDE DEF f, none
      <4>3. QED
        BY <3>3, <4>1, <4>2
    <3>6. QED
      BY <3>4, <3>5
  <2>5. f = [p \in lo..(n + 2) |-> f[p]]
    OBVIOUS
  <2> HIDE DEF f
  <2>6. f = [p \in lo..(n + 2) |-> IF NoWord(l, p) THEN none ELSE <<WordAt(l, p)>> \o f[After(l, p)]]
    BY <2>4, <2>5
  <2>7. IsWords(f, l, lo)
    BY <1>1, <2>6 DEF IsWords
  <2>8. QED
    BY <2>0, <2>7
<1> HIDE DEF T
<1>4. n + 1 \in Nat /\ n + 1 \in 0..(n + 1)
  BY <1>1
<1>5. n + 1 \in T
  BY <1>2, <1>3, <1>4, Rounds
<1>6. n + 2 - (n + 1) = 1
  BY <1>1
<1>7. QED
  BY <1>5, <1>6 DEF T

\* A word before others.
LEMMA Prepended ==
  ASSUME NEW S, NEW w \in S, NEW W \in Seq(S)
  PROVE  /\ <<w>> \o W \in Seq(S) /\ Len(<<w>> \o W) = Len(W) + 1
         /\ (<<w>> \o W)[1] = w /\ \A i \in 1..Len(W) : (<<w>> \o W)[i + 1] = W[i]
<1> DEFINE one == <<w>>
<1>1. one \in Seq(S) /\ Len(one) = 1 /\ one[1] = w
  OBVIOUS
<1> HIDE DEF one
<1>2. PICK n \in Nat : n = Len(W)
  OBVIOUS
<1>3. /\ one \o W \in Seq(S) /\ Len(one \o W) = Len(one) + Len(W)
      /\ \A i \in 1..(Len(one) + Len(W)) :
           (one \o W)[i] = IF i <= Len(one) THEN one[i] ELSE W[i - Len(one)]
  BY <1>1, ConcatProperties
<1>4. (one \o W)[1] = w
  BY <1>1, <1>2, <1>3
<1>5. ASSUME NEW i \in 1..n PROVE (one \o W)[i + 1] = W[i]
  <2>1. i + 1 \in 1..(1 + n) /\ ~(i + 1 <= 1) /\ i + 1 - 1 = i
    OBVIOUS
  <2>2. QED
    BY <1>1, <1>2, <1>3, <2>1
<1>6. QED
  BY <1>1, <1>2, <1>3, <1>4, <1>5 DEF one

\* The words W lie one after another in the line from p on, each with a blank or
\* a quote after it, and none takes less than two places.
Spaced(l, W, p) ==
  /\ W \in Seq(Seq(Typed))
  /\ \E q \in [1..(Len(W) + 1) -> Nat] :
       /\ q[1] = p /\ \A i \in 1..(Len(W) + 1) : q[i] <= Len(l) + 2
       /\ \A i \in 1..Len(W) : q[i] + 2 <= q[i + 1] /\ q[i] + Len(W[i]) + 1 <= q[i + 1]

LEMMA SpacedNone ==
  ASSUME NEW l \in Seq(Typed), NEW p \in 1..(Len(l) + 2)
  PROVE  Spaced(l, <<>>, p)
<1> DEFINE none == <<>>
           q == [i \in 1..1 |-> p]
<1>1. none \in Seq(Seq(Typed)) /\ Len(none) = 0
  OBVIOUS
<1>2. Len(l) \in Nat /\ p \in Nat /\ p <= Len(l) + 2
  OBVIOUS
<1>3. q \in [1..1 -> Nat] /\ q[1] = p
  BY <1>2
<1> HIDE DEF none, q
<1>4. \A i \in 1..0 : q[i] + 2 <= q[i + 1] /\ q[i] + Len(none[i]) + 1 <= q[i + 1]
  OBVIOUS
<1>5. Len(none) + 1 = 1
  BY <1>1
<1>6. \A i \in 1..1 : q[i] <= Len(l) + 2
  BY <1>2, <1>3
<1>7. Spaced(l, none, p)
  BY <1>1, <1>2, <1>3, <1>4, <1>5, <1>6 DEF Spaced
<1>8. QED
  BY <1>7 DEF none

LEMMA SpacedMore ==
  ASSUME NEW l \in Seq(Typed), NEW p \in Nat, NEW w \in Seq(Typed), NEW W, NEW a \in Nat,
         Spaced(l, W, a), p + 2 <= a, p + Len(w) + 1 <= a
  PROVE  Spaced(l, <<w>> \o W, p)
<1> DEFINE V == <<w>> \o W
<1>1. W \in Seq(Seq(Typed))
  BY DEF Spaced
<1>2. PICK n \in Nat : n = Len(W)
  BY <1>1
<1>3. PICK q \in [1..(n + 1) -> Nat] :
        /\ q[1] = a /\ \A i \in 1..(n + 1) : q[i] <= Len(l) + 2
        /\ \A i \in 1..n : q[i] + 2 <= q[i + 1] /\ q[i] + Len(W[i]) + 1 <= q[i + 1]
  BY <1>2 DEF Spaced
<1>4. /\ V \in Seq(Seq(Typed)) /\ Len(V) = n + 1
      /\ V[1] = w /\ \A i \in 1..n : V[i + 1] = W[i]
  <2> DEFINE S == Seq(Typed)
  <2>1. w \in S /\ W \in Seq(S)
    BY <1>1
  <2> HIDE DEF S
  <2>2. /\ <<w>> \o W \in Seq(S) /\ Len(<<w>> \o W) = Len(W) + 1
        /\ (<<w>> \o W)[1] = w /\ \A i \in 1..Len(W) : (<<w>> \o W)[i + 1] = W[i]
    BY <2>1, Prepended
  <2>3. QED
    BY <1>2, <2>2 DEF S
<1> HIDE DEF V
<1> DEFINE r == [i \in 1..(n + 2) |-> IF i = 1 THEN p ELSE q[i - 1]]
<1>5. r \in [1..(n + 2) -> Nat] /\ r[1] = p /\ \A i \in 1..(n + 1) : r[i + 1] = q[i]
  <2>1. \A i \in 1..(n + 2) : i # 1 => i - 1 \in 1..(n + 1)
    OBVIOUS
  <2>2. r \in [1..(n + 2) -> Nat]
    BY <2>1
  <2>3. ASSUME NEW i \in 1..(n + 1) PROVE r[i + 1] = q[i]
    <3>1. i + 1 \in 1..(n + 2) /\ i + 1 # 1 /\ i + 1 - 1 = i
      OBVIOUS
    <3>2. QED
      BY <3>1
  <2>4. 1 \in 1..(n + 2)
    OBVIOUS
  <2>5. QED
    BY <2>2, <2>3, <2>4
<1> HIDE DEF r
<1>6. ASSUME NEW i \in 1..(n + 2) PROVE r[i] <= Len(l) + 2
  <2>1. PICK k \in Nat : k = Len(l)
    OBVIOUS
  <2>2. a <= k + 2
    <3>1. 1 \in 1..(n + 1)
      OBVIOUS
    <3>2. QED
      BY <1>3, <2>1, <3>1
  <2>3. CASE i = 1
    BY <1>5, <2>1, <2>2, <2>3
  <2>4. CASE i # 1
    <3>1. PICK j \in 1..(n + 1) : i = j + 1
      <4>1. i - 1 \in 1..(n + 1) /\ i = (i - 1) + 1
        BY <2>4
      <4>2. QED
        BY <4>1
    <3>2. QED
      BY <1>3, <1>5, <3>1
  <2>5. QED
    BY <2>3, <2>4
<1>7. ASSUME NEW i \in 1..(n + 1)
      PROVE  r[i] + 2 <= r[i + 1] /\ r[i] + Len(V[i]) + 1 <= r[i + 1]
  <2>1. CASE i = 1
    <3>1. r[i] = p /\ r[i + 1] = a /\ V[i] = w
      BY <1>3, <1>4, <1>5, <2>1
    <3>2. QED
      BY <3>1
  <2>2. CASE i # 1
    <3>1. PICK j \in 1..n : i = j + 1
      <4>1. i - 1 \in 1..n /\ i = (i - 1) + 1
        BY <2>2
      <4>2. QED
        BY <4>1
    <3>a. j \in 1..(n + 1) /\ j + 1 \in 1..(n + 1)
      BY <3>1
    <3>2. r[i] = q[j] /\ r[i + 1] = q[j + 1] /\ V[i] = W[j]
      BY <1>4, <1>5, <3>1, <3>a
    <3>3. q[j] + 2 <= q[j + 1] /\ q[j] + Len(W[j]) + 1 <= q[j + 1]
      BY <1>3
    <3>4. QED
      BY <3>2, <3>3
  <2>3. QED
    BY <2>1, <2>2
<1>8. (n + 1) + 1 = n + 2
  OBVIOUS
<1>9. Spaced(l, V, p)
  BY <1>4, <1>5, <1>6, <1>7, <1>8 DEF Spaced
<1>10. QED
  BY <1>9 DEF V

\* The words from any place on lie one after another in the line.
LEMMA WordsSpaced ==
  ASSUME NEW l \in Seq(Typed), NEW f, IsWords(f, l, 1)
  PROVE  \A p \in 1..(Len(l) + 2) : Spaced(l, f[p], p)
<1>1. PICK n \in Nat : n = Len(l)
  OBVIOUS
<1> DEFINE none == <<>>
<1>2. f = [p \in 1..(n + 2) |-> IF NoWord(l, p) THEN none ELSE <<WordAt(l, p)>> \o f[After(l, p)]]
  BY <1>1 DEF IsWords
<1> DEFINE T == {k \in Nat : \A p \in 1..(n + 2) : p >= n + 2 - k => Spaced(l, f[p], p)}
<1>3. ASSUME NEW p \in 1..(n + 2), \A a \in 1..(n + 2) : a >= p + 1 => Spaced(l, f[a], a)
      PROVE  Spaced(l, f[p], p)
  <2>1. CASE NoWord(l, p)
    <3>1. f[p] = none
      BY <1>2, <2>1
    <3>2. Spaced(l, none, p)
      BY <1>1, SpacedNone
    <3>3. QED
      BY <3>1, <3>2
  <2>2. CASE ~NoWord(l, p)
    <3>1. /\ WordAt(l, p) \in Seq(Typed)
          /\ After(l, p) \in (p + 2)..(n + 2) /\ p + Len(WordAt(l, p)) + 1 <= After(l, p)
      BY <1>1, <2>2, WordIs
    <3>2. f[p] = <<WordAt(l, p)>> \o f[After(l, p)]
      BY <1>2, <2>2
    <3>3. PICK a \in Nat : a = After(l, p)
      BY <3>1
    <3>4. a \in 1..(n + 2) /\ a >= p + 1 /\ p + 2 <= a
      BY <3>1, <3>3
    <3>5. Spaced(l, f[a], a)
      BY <1>3, <3>4
    <3>6. QED
      BY <3>1, <3>2, <3>3, <3>4, <3>5, SpacedMore
  <2>3. QED
    BY <2>1, <2>2
<1>4. 0 \in T
  <2>1. ASSUME NEW p \in 1..(n + 2), p >= n + 2 - 0 PROVE Spaced(l, f[p], p)
    <3>1. \A a \in 1..(n + 2) : ~(a >= p + 1)
      BY <2>1
    <3>2. QED
      BY <1>3, <3>1
  <2>2. QED
    BY <2>1
<1>5. ASSUME NEW k \in 1..(n + 1), k - 1 \in T PROVE k \in T
  <2>1. ASSUME NEW p \in 1..(n + 2), p >= n + 2 - k PROVE Spaced(l, f[p], p)
    <3>1. \A a \in 1..(n + 2) : a >= p + 1 => a >= n + 2 - (k - 1)
      BY <2>1
    <3>2. QED
      BY <1>3, <1>5, <3>1
  <2>2. QED
    BY <2>1
<1> HIDE DEF T
<1>6. n + 1 \in Nat /\ n + 1 \in 0..(n + 1)
  BY <1>1
<1>7. n + 1 \in T
  BY <1>4, <1>5, <1>6, Rounds
<1>8. \A p \in 1..(n + 2) : p >= n + 2 - (n + 1)
  BY <1>1
<1>9. \A p \in 1..(n + 2) : Spaced(l, f[p], p)
  BY <1>7, <1>8 DEF T
<1>10. QED
  BY <1>1, <1>9

LEMMA TokensAre ==
  ASSUME NEW l \in Seq(Typed)
  PROVE  \E f : IsWords(f, l, 1) /\ Tokens(l) = f[1]
<1> DEFINE f == CHOOSE g : IsWords(g, l, 1)
<1>1. IsWords(f, l, 1)
  BY WordsExist
<1>2. Tokens(l) = f[1]
  BY DEF Tokens, IsWords, NoWord, WordAt, After
<1> HIDE DEF f
<1>3. QED
  BY <1>1, <1>2

\* The words of a line lie one after another in it.
LEMMA TokensIs ==
  ASSUME NEW l \in Seq(Typed)
  PROVE  Spaced(l, Tokens(l), 1)
<1>1. PICK f : IsWords(f, l, 1) /\ Tokens(l) = f[1]
  BY TokensAre
<1>2. 1 \in 1..(Len(l) + 2)
  OBVIOUS
<1>3. QED
  BY <1>1, <1>2, WordsSpaced

\* parse_command_line stops at the size of argv.
LEMMA SpacedPrefix ==
  ASSUME NEW l \in Seq(Typed), NEW W, NEW p \in Nat, Spaced(l, W, p), NEW m \in 0..Len(W)
  PROVE  Spaced(l, SubSeq(W, 1, m), p) /\ Len(SubSeq(W, 1, m)) = m
<1> DEFINE S == Seq(Typed)
<1>1. W \in Seq(S)
  BY DEF Spaced
<1>2. PICK n \in Nat : n = Len(W)
  BY <1>1
<1>3. PICK q \in [1..(n + 1) -> Nat] :
        /\ q[1] = p /\ \A i \in 1..(n + 1) : q[i] <= Len(l) + 2
        /\ \A i \in 1..n : q[i] + 2 <= q[i + 1] /\ q[i] + Len(W[i]) + 1 <= q[i + 1]
  BY <1>2 DEF Spaced
<1>4. m \in Nat /\ m <= n
  BY <1>2
<1> DEFINE V == SubSeq(W, 1, m)
<1>5. V \in Seq(S) /\ Len(V) = m /\ \A i \in 1..m : V[i] = W[i]
  <2> HIDE DEF S
  <2>1. QED
    BY <1>1, <1>2, <1>4
<1> DEFINE r == [i \in 1..(m + 1) |-> q[i]]
<1>6. \A i \in 1..(m + 1) : i \in 1..(n + 1)
  BY <1>4
<1>7. r \in [1..(m + 1) -> Nat] /\ \A i \in 1..(m + 1) : r[i] = q[i]
  BY <1>6
<1> HIDE DEF V, r
<1>8. r[1] = p /\ \A i \in 1..(m + 1) : r[i] <= Len(l) + 2
  <2>1. 1 \in 1..(m + 1)
    BY <1>4
  <2>2. QED
    BY <1>3, <1>6, <1>7, <2>1
<1>9. ASSUME NEW i \in 1..m PROVE r[i] + 2 <= r[i + 1] /\ r[i] + Len(V[i]) + 1 <= r[i + 1]
  <2>1. i \in 1..(m + 1) /\ i + 1 \in 1..(m + 1) /\ i \in 1..n
    BY <1>4
  <2>2. r[i] = q[i] /\ r[i + 1] = q[i + 1] /\ V[i] = W[i]
    BY <1>5, <1>7, <2>1
  <2>3. QED
    BY <1>3, <2>1, <2>2
<1>10. Spaced(l, V, p)
  BY <1>4, <1>5, <1>7, <1>8, <1>9 DEF Spaced
<1>11. QED
  BY <1>5, <1>10 DEF V

LEMMA ParseIs ==
  ASSUME NEW l \in Seq(Typed)
  PROVE  Spaced(CommandPart(l), Parse(l).argv, 1) /\ Len(Parse(l).argv) <= MaxArgs
<1> DEFINE words == Tokens(CommandPart(l))
           m == IF Len(words) < MaxArgs THEN Len(words) ELSE MaxArgs
<1>1. CommandPart(l) \in Seq(Typed)
  BY CommandCut
<1>2. Spaced(CommandPart(l), words, 1)
  BY <1>1, TokensIs
<1>3. Parse(l).argv = SubSeq(words, 1, m)
  BY DEF Parse
<1> HIDE DEF words
<1>4. Len(words) \in Nat /\ MaxArgs \in Nat
  BY <1>2, LineAssumption DEF Spaced
<1>5. m \in 0..Len(words) /\ m <= MaxArgs
  BY <1>4
<1> HIDE DEF m
<1>6. Spaced(CommandPart(l), SubSeq(words, 1, m), 1) /\ Len(SubSeq(words, 1, m)) = m
  BY <1>1, <1>2, <1>5, SpacedPrefix
<1>7. QED
  BY <1>3, <1>5, <1>6

-----------------------------------------------------------------------------
\* The arguments of a builtin.

Char == Typed \cup {" "}

One == <<" ">>

\* The words after the first up to word a, as Joined puts them together.
NextText(argv, a, x) == IF a = 1 THEN <<>> ELSE IF a = 2 THEN argv[2] ELSE x \o One \o argv[a]
IsText(f, argv, m) == f = [a \in 1..m |-> NextText(argv, a, f[a - 1])]

LEMMA NextTextIs ==
  ASSUME NEW argv, NEW x, NEW a \in Nat
  PROVE  /\ a = 1 => NextText(argv, a, x) = <<>>
         /\ a = 2 => NextText(argv, a, x) = argv[2]
         /\ a > 2 => NextText(argv, a, x) = (x \o One) \o argv[a]
<1> HIDE DEF One
<1>1. CASE a = 1
  <2>1. NextText(argv, 1, x) = <<>>
    BY Zenon DEF NextText
  <2>2. QED
    BY <1>1, <2>1
<1>2. CASE a = 2
  <2>1. 2 # 1
    OBVIOUS
  <2>2. NextText(argv, 2, x) = argv[2]
    BY <2>1, Zenon DEF NextText
  <2>3. QED
    BY <1>2, <2>2
<1>3. CASE a > 2
  <2>1. a # 1 /\ a # 2
    BY <1>3
  <2>2. NextText(argv, a, x) = (x \o One) \o argv[a]
    BY <2>1, Zenon DEF NextText
  <2>3. QED
    BY <2>1, <2>2
<1>4. QED
  BY <1>1, <1>2, <1>3

LEMMA TextExists ==
  ASSUME NEW argv, NEW m \in Nat
  PROVE  \E f : IsText(f, argv, m)
<1> DEFINE T == {k \in Nat : \E f : IsText(f, argv, k)}
           none == <<>>
<1>1. 0 \in T
  <2> DEFINE f == [a \in 1..0 |-> none]
  <2>1. f = [a \in 1..0 |-> NextText(argv, a, f[a - 1])]
    OBVIOUS
  <2>2. QED
    BY <2>1 DEF IsText
<1>2. ASSUME NEW k \in 1..m, k - 1 \in T PROVE k \in T
  <2>1. PICK g : IsText(g, argv, k - 1)
    BY <1>2
  <2> DEFINE f == [a \in 1..k |-> IF a = k THEN NextText(argv, k, g[k - 1]) ELSE g[a]]
  <2>2. ASSUME NEW a \in 1..k
        PROVE  f[a] = NextText(argv, a, f[a - 1])
    <3>1. NextText(argv, 1, f[1 - 1]) = NextText(argv, 1, g[1 - 1])
      <4> HIDE DEF f
      <4>1. QED
        BY NextTextIs
    <3>2. CASE a = k
      <4>1. f[a] = NextText(argv, k, g[k - 1])
        BY <3>2
      <4>2. k # 1 => f[k - 1] = g[k - 1]
        <5>1. k # 1 => k - 1 \in 1..k /\ k - 1 # k
          OBVIOUS
        <5>2. QED
          BY <5>1
      <4> HIDE DEF f
      <4>3. QED
        BY <3>1, <3>2, <4>1, <4>2
    <3>3. CASE a # k
      <4>1. f[a] = g[a] /\ a \in 1..(k - 1)
        BY <3>3
      <4>2. g[a] = NextText(argv, a, g[a - 1])
        BY <2>1, <4>1 DEF IsText
      <4>3. a # 1 => f[a - 1] = g[a - 1]
        <5>1. a # 1 => a - 1 \in 1..k /\ a - 1 # k
          BY <4>1
        <5>2. QED
          BY <5>1
      <4> HIDE DEF f
      <4>4. QED
        BY <3>1, <4>1, <4>2, <4>3
    <3>4. QED
      BY <3>2, <3>3
  <2>3. f = [a \in 1..k |-> f[a]]
    OBVIOUS
  <2> HIDE DEF f
  <2>4. IsText(f, argv, k)
    BY <2>2, <2>3 DEF IsText
  <2>5. QED
    BY <2>4
<1> HIDE DEF T
<1>3. m \in T
  <2>1. \A k \in 0..m : k \in T
    BY <1>1, <1>2, Rounds
  <2>2. QED
    BY <2>1
<1>4. QED
  BY <1>3 DEF T

\* Joining a word on: what the sequences are.
LEMMA Joining ==
  ASSUME NEW x \in Seq(Char), NEW w \in Seq(Char)
  PROVE  /\ <<>> \o w = w /\ x \o One \in Seq(Char) /\ Append(x, " ") = x \o One
         /\ Len(x \o One) = Len(x) + 1
         /\ x \o w \in Seq(Char) /\ Len(x \o w) = Len(x) + Len(w) /\ Len(x) \in Nat /\ Len(w) \in Nat
<1> DEFINE blank == " "
           one == <<blank>>
<1>1. blank \in Char
  BY DEF Char
<1> HIDE DEF blank
<1>2. one \in Seq(Char) /\ Len(one) = 1
  BY <1>1
<1>3. <<>> \o w = w
  BY ConcatEmptySeq
<1>4. x \o w \in Seq(Char) /\ Len(x \o w) = Len(x) + Len(w) /\ Len(x) \in Nat /\ Len(w) \in Nat
  BY ConcatProperties, LenProperties
<1>5. Append(x, blank) = x \o one
  BY <1>1, AppendIsConcat
<1> HIDE DEF one
<1>6. x \o one \in Seq(Char) /\ Len(x \o one) = Len(x) + 1
  <2>1. x \o one \in Seq(Char) /\ Len(x \o one) = Len(x) + Len(one)
    BY <1>2, ConcatProperties
  <2>2. QED
    BY <1>2, <2>1
<1>7. one = One
  BY DEF one, One, blank
<1>8. QED
  BY <1>3, <1>4, <1>5, <1>6, <1>7 DEF blank

\* Up to any word, what is joined ends two places before the end of the line.
LEMMA TextFits ==
  ASSUME NEW l \in Seq(Typed), NEW argv, Spaced(l, argv, 1), NEW f, IsText(f, argv, Len(argv)),
         NEW a \in 2..Len(argv)
  PROVE  f[a] \in Seq(Char) /\ Len(f[a]) <= Len(l) - 2 /\ argv[a] \in Seq(Char)
<1>1. argv \in Seq(Seq(Typed))
  BY DEF Spaced
<1>2. PICK n \in Nat : n = Len(argv)
  BY <1>1
<1>3. \A i \in 1..n : argv[i] \in Seq(Char)
  <2>1. \A i \in 1..n : argv[i] \in Seq(Typed)
    BY <1>1, <1>2
  <2>2. Seq(Typed) \subseteq Seq(Char)
    <3>1. Typed \subseteq Char
      BY DEF Char
    <3>2. QED
      BY <3>1
  <2>3. QED
    BY <2>1, <2>2
<1>4. PICK k \in Nat : k = Len(l)
  OBVIOUS
<1>5. PICK q \in [1..(n + 1) -> Nat] :
        /\ q[1] = 1 /\ \A i \in 1..(n + 1) : q[i] <= k + 2
        /\ \A i \in 1..n : q[i] + 2 <= q[i + 1] /\ q[i] + Len(argv[i]) + 1 <= q[i + 1]
  BY <1>2, <1>4 DEF Spaced
<1>6. ASSUME NEW i \in 1..n
      PROVE  (i = 2 => f[i] = argv[2]) /\ (i > 2 => f[i] = (f[i - 1] \o One) \o argv[i])
  <2>1. f = [j \in 1..n |-> NextText(argv, j, f[j - 1])]
    BY <1>2 DEF IsText
  <2>2. f[i] = NextText(argv, i, f[i - 1])
    BY <2>1, Zenon
  <2>3. i \in Nat
    OBVIOUS
  <2>4. QED
    BY <2>2, <2>3, NextTextIs
<1> DEFINE T == {i \in 0..n : i >= 2 => f[i] \in Seq(Char) /\ Len(f[i]) + q[2] + 1 <= q[i + 1]}
<1>7. 0 \in T
  BY <1>2
<1>8. ASSUME NEW i \in 1..n, i - 1 \in T PROVE i \in T
  <2>1. CASE i = 1
    BY <2>1
  <2>2. CASE i = 2
    <3>1. f[2] = argv[2] /\ argv[2] \in Seq(Char)
      BY <1>3, <1>6, <2>2
    <3>2. q[2] + Len(argv[2]) + 1 <= q[2 + 1] /\ 2 \in 1..(n + 1) /\ 2 + 1 \in 1..(n + 1)
      BY <1>5, <2>2
    <3>3. Len(argv[2]) \in Nat
      BY <3>1
    <3>4. Len(f[i]) + q[2] + 1 <= q[i + 1]
      BY <2>2, <3>1, <3>2, <3>3
    <3>5. QED
      BY <2>2, <3>1, <3>4
  <2>3. CASE i > 2
    <3>1. i - 1 >= 2 /\ f[i - 1] \in Seq(Char) /\ Len(f[i - 1]) + q[2] + 1 <= q[(i - 1) + 1]
      BY <1>8, <2>3
    <3>2. f[i] = (f[i - 1] \o One) \o argv[i]
      BY <1>6, <2>3
    <3> DEFINE x == f[i - 1]
               y == x \o One
               w == argv[i]
    <3>3. y \in Seq(Char) /\ Len(y) = Len(x) + 1 /\ Len(x) \in Nat
      BY <1>3, <3>1, Joining
    <3> HIDE DEF y
    <3>4. y \o w \in Seq(Char) /\ Len(y \o w) = Len(y) + Len(w) /\ Len(w) \in Nat
      BY <1>3, <3>3, Joining
    <3>5. f[i] = y \o w
      BY <3>2 DEF y
    <3>6. (i - 1) + 1 = i /\ q[i] + Len(w) + 1 <= q[i + 1]
      BY <1>5
    <3>7. q[i] \in Nat /\ q[i + 1] \in Nat /\ q[2] \in Nat
      <4>1. i \in 1..(n + 1) /\ i + 1 \in 1..(n + 1) /\ 2 \in 1..(n + 1)
        BY <2>3
      <4>2. QED
        BY <1>5, <4>1
    <3>8. Len(f[i]) + q[2] + 1 <= q[i + 1]
      <4>1. Len(x) + q[2] + 1 <= q[i]
        BY <3>1, <3>6
      <4>2. Len(f[i]) = Len(x) + 1 + Len(w)
        BY <3>3, <3>4, <3>5
      <4>3. PICK c, d, s, t, u \in Nat : c = Len(x) /\ d = Len(w) /\ s = q[2] /\ t = q[i] /\ u = q[i + 1]
        BY <3>3, <3>4, <3>7
      <4>4. c + s + 1 <= t /\ t + d + 1 <= u
        BY <3>6, <4>1, <4>3
      <4>5. (c + 1 + d) + s + 1 <= u
        BY <4>4
      <4>6. QED
        BY <4>2, <4>3, <4>5
    <3>9. f[i] \in Seq(Char)
      BY <3>4, <3>5
    <3> HIDE DEF x, w
    <3>10. QED
      BY <3>8, <3>9
  <2>4. QED
    BY <2>1, <2>2, <2>3
<1> HIDE DEF T
<1>9. \A i \in 0..n : i \in T
  BY <1>7, <1>8, Rounds
<1>10. a \in 0..n /\ a >= 2 /\ a \in Nat /\ a + 1 \in 1..(n + 1) /\ 2 \in 1..(n + 1) /\ 1 \in 1..n
  BY <1>2
<1>11. a \in T
  BY <1>9, <1>10
<1>12. f[a] \in Seq(Char) /\ Len(f[a]) + q[2] + 1 <= q[a + 1]
  BY <1>10, <1>11 DEF T
<1>13. q[a + 1] <= k + 2 /\ q[1] + 2 <= q[1 + 1] /\ q[2] \in Nat /\ q[a + 1] \in Nat
  BY <1>5, <1>10
<1>14. Len(f[a]) \in Nat
  BY <1>12
<1>15. Len(f[a]) <= k - 2
  <2>1. PICK c, s, u \in Nat : c = Len(f[a]) /\ s = q[2] /\ u = q[a + 1]
    BY <1>13, <1>14
  <2>2. 3 <= s /\ c + s + 1 <= u /\ u <= k + 2
    <3>1. 1 + 1 = 2 /\ 1 + 2 = 3
      OBVIOUS
    <3>2. QED
      BY <1>5, <1>12, <1>13, <2>1, <3>1
  <2>3. c <= k - 2
    BY <2>2
  <2>4. QED
    BY <2>1, <2>3
<1>16. argv[a] \in Seq(Char)
  BY <1>3, <1>10
<1>17. QED
  BY <1>4, <1>12, <1>15, <1>16

\* What run_builtin puts into its buffer for word a after the words before it.
NextBuf(argv, a, x) ==
  IF a = 1 THEN <<>>
  ELSE LET t == AddWord(x, argv[a], LineSize)
       IN  IF a < Len(argv) /\ ArgBlank(LineSize, Len(t)) THEN Append(t, " ") ELSE t
IsBuf(f, argv) == f = [a \in 1..Len(argv) |-> NextBuf(argv, a, f[a - 1])]

\* A word for which there is room is added whole.
LEMMA NextBufIs ==
  ASSUME NEW argv, NEW x \in Seq(Char), NEW a \in Nat \ {0, 1}, NEW w \in Seq(Char), w = argv[a],
         Len(argv) \in Nat, Len(x \o w) <= LineSize - 3
  PROVE  NextBuf(argv, a, x) = IF a < Len(argv) THEN (x \o w) \o One ELSE x \o w
<1> DEFINE t == AddWord(x, w, LineSize)
<1>1. LineSize \in Nat
  BY LineAssumption
<1>2. x \o w \in Seq(Char) /\ Len(x \o w) = Len(x) + Len(w) /\ Len(x) \in Nat /\ Len(w) \in Nat
  BY Joining
<1>3. t = x \o w
  <2>1. Len(w) <= ArgRoom(LineSize, Len(x))
    BY <1>1, <1>2 DEF ArgRoom
  <2>2. QED
    BY <2>1 DEF AddWord
<1> HIDE DEF t
<1>4. Append(t, " ") = t \o One
  BY <1>2, <1>3, Joining
<1>5. ArgBlank(LineSize, Len(t))
  BY <1>1, <1>2, <1>3 DEF ArgBlank
<1>6. NextBuf(argv, a, x) = IF a < Len(argv) /\ ArgBlank(LineSize, Len(t)) THEN Append(t, " ") ELSE t
  <2>1. a # 1
    OBVIOUS
  <2>2. QED
    BY <2>1 DEF NextBuf, t
<1> HIDE DEF One
<1>7. QED
  BY <1>3, <1>4, <1>5, <1>6

\* The words of a line in the shell's buffer fit a buffer of its size.
LEMMA ArgsAreJoined ==
  ASSUME NEW l \in Seq(Typed), Len(l) < LineSize, NEW argv, Spaced(l, argv, 1), argv # <<>>
  PROVE  Args(argv) = Joined(argv) /\ Len(Args(argv)) < LineSize
<1>1. argv \in Seq(Seq(Typed))
  BY DEF Spaced
<1>2. PICK n \in Nat : n = Len(argv)
  BY <1>1
<1>3. n >= 1 /\ n \in 1..n
  <2> DEFINE S == Seq(Typed)
  <2>1. argv \in Seq(S)
    BY <1>1
  <2> HIDE DEF S
  <2>2. Len(argv) # 0
    BY <2>1, EmptySeq
  <2>3. QED
    BY <1>2, <2>2
<1> DEFINE text == CHOOSE f : IsText(f, argv, Len(argv))
           buf == CHOOSE f : IsBuf(f, argv)
           none == <<>>
<1>4. IsText(text, argv, Len(argv))
  BY <1>2, TextExists
<1>5. Joined(argv) = text[n]
  BY <1>2 DEF Joined, IsText, NextText, One
<1>6. Args(argv) = buf[n]
  BY <1>2 DEF Args, IsBuf, NextBuf
<1> HIDE DEF text
<1>7. \A a \in 2..n : text[a] \in Seq(Char) /\ Len(text[a]) <= LineSize - 3 /\ argv[a] \in Seq(Char)
  <2>1. PICK k \in Nat : k = Len(l) /\ k < LineSize
    OBVIOUS
  <2>2. LineSize \in Nat
    BY LineAssumption
  <2>3. \A a \in 2..n : /\ text[a] \in Seq(Char) /\ Len(text[a]) <= k - 2 /\ argv[a] \in Seq(Char)
                        /\ Len(text[a]) \in Nat
    BY <1>2, <1>4, <2>1, TextFits, LenProperties
  <2>4. QED
    BY <2>1, <2>2, <2>3
<1>8. \A a \in 1..n : /\ a = 1 => text[a] = none
                      /\ a = 2 => text[a] = argv[2]
                      /\ a > 2 => text[a] = (text[a - 1] \o One) \o argv[a]
  <2>1. text = [a \in 1..n |-> NextText(argv, a, text[a - 1])]
    BY <1>2, <1>4 DEF IsText
  <2>2. TAKE a \in 1..n
  <2>3. text[a] = NextText(argv, a, text[a - 1])
    BY <2>1, Zenon
  <2>4. a \in Nat
    OBVIOUS
  <2> HIDE DEF One
  <2>5. QED
    BY <2>3, <2>4, NextTextIs
<1> DEFINE g == [a \in 1..n |-> IF a = 1 THEN none ELSE IF a < n THEN text[a] \o One ELSE text[a]]
<1>9. /\ g[1] = none
      /\ \A a \in 2..n : g[a] = IF a < n THEN text[a] \o One ELSE text[a]
  <2>1. \A a \in 2..n : a \in 1..n /\ a # 1
    OBVIOUS
  <2>2. 1 \in 1..n
    BY <1>3
  <2> HIDE DEF none, One
  <2>3. QED
    BY <2>1, <2>2
<1>10. DOMAIN g = 1..n
  OBVIOUS
<1> HIDE DEF g, buf
<1>11. \A a \in 1..n : g[a] = NextBuf(argv, a, g[a - 1])
  <2>1. ASSUME NEW a \in 1..n PROVE g[a] = NextBuf(argv, a, g[a - 1])
    <3>1. CASE a = 1
      <4>1. NextBuf(argv, 1, g[a - 1]) = none
        BY DEF NextBuf
      <4>2. QED
        BY <1>9, <3>1, <4>1
    <3>2. CASE a # 1
      <4>1. a \in 2..n /\ a \in Nat \ {0, 1} /\ a - 1 \in 1..n
        BY <3>2
      <4>2. g[a - 1] \in Seq(Char) /\ text[a] = g[a - 1] \o argv[a]
        <5>1. CASE a = 2
          <6>1. g[a - 1] = <<>>
            BY <1>9, <5>1
          <6>2. <<>> \in Seq(Char)
            BY EmptySeq
          <6>3. <<>> \o argv[a] = argv[a]
            BY <1>7, <4>1, Joining, <6>2
          <6>4. text[a] = argv[a]
            BY <1>8, <5>1
          <6>5. QED
            BY <6>1, <6>2, <6>3, <6>4
        <5>2. CASE a > 2
          <6>1. a - 1 \in 2..n /\ a - 1 < n
            BY <5>2
          <6>2. g[a - 1] = text[a - 1] \o One
            BY <1>9, <6>1
          <6>3. text[a - 1] \o One \in Seq(Char)
            BY <1>7, <4>1, <6>1, Joining
          <6>4. text[a] = (text[a - 1] \o One) \o argv[a]
            BY <1>8, <5>2
          <6> HIDE DEF One
          <6>5. QED
            BY <6>2, <6>3, <6>4
        <5>3. a = 2 \/ a > 2
          BY <4>1
        <5>4. QED
          BY <5>1, <5>2, <5>3
      <4>3. PICK x \in Seq(Char) : x = g[a - 1]
        BY <4>2
      <4>4. PICK w \in Seq(Char) : w = argv[a]
        BY <1>7, <4>1
      <4>5. x \o w = text[a] /\ Len(x \o w) <= LineSize - 3
        BY <1>7, <4>1, <4>2, <4>3, <4>4
      <4>6. NextBuf(argv, a, x) = IF a < Len(argv) THEN (x \o w) \o One ELSE x \o w
        BY <1>2, <4>1, <4>4, <4>5, NextBufIs
      <4>7. g[a] = IF a < n THEN text[a] \o One ELSE text[a]
        BY <1>9, <4>1
      <4> HIDE DEF One
      <4>8. QED
        BY <1>2, <4>3, <4>5, <4>6, <4>7
    <3>3. QED
      BY <3>1, <3>2
  <2>2. QED
    BY <2>1
<1>12. IsBuf(g, argv)
  <2>1. g = [a \in 1..n |-> g[a]]
    BY <1>10 DEF g
  <2>2. [a \in 1..n |-> g[a]] = [a \in 1..n |-> NextBuf(argv, a, g[a - 1])]
    BY <1>11
  <2>3. QED
    BY <1>2, <2>1, <2>2 DEF IsBuf
<1>13. IsBuf(buf, argv)
  BY <1>12 DEF buf
<1>14. \A a \in 1..n : buf[a] = NextBuf(argv, a, buf[a - 1])
  <2>1. buf = [a \in 1..n |-> NextBuf(argv, a, buf[a - 1])]
    BY <1>2, <1>13 DEF IsBuf
  <2>2. QED
    BY <2>1, Zenon
<1> DEFINE T == {i \in 0..n : i >= 1 => buf[i] = g[i]}
<1>15. 0 \in T
  BY <1>2
<1>16. ASSUME NEW i \in 1..n, i - 1 \in T PROVE i \in T
  <2>1. CASE i = 1
    <3>1. NextBuf(argv, 1, buf[i - 1]) = NextBuf(argv, 1, g[i - 1])
      BY DEF NextBuf
    <3>2. buf[i] = g[i]
      BY <1>11, <1>14, <2>1, <3>1
    <3>3. QED
      BY <3>2
  <2>2. CASE i # 1
    <3>1. buf[i - 1] = g[i - 1]
      BY <1>16, <2>2
    <3>2. buf[i] = g[i]
      BY <1>11, <1>14, <3>1
    <3>3. QED
      BY <3>2
  <2>3. QED
    BY <2>1, <2>2
<1> HIDE DEF T
<1>17. \A i \in 0..n : i \in T
  BY <1>15, <1>16, Rounds
<1>18. buf[n] = g[n]
  <2>1. n \in T
    BY <1>17
  <2>2. QED
    BY <1>3, <2>1 DEF T
<1>19. g[n] = text[n]
  <2>1. CASE n = 1
    BY <1>3, <1>8, <1>9, <2>1
  <2>2. CASE n # 1
    BY <1>3, <1>9, <2>2
  <2>3. QED
    BY <2>1, <2>2
<1>20. Len(text[n]) < LineSize
  <2>1. LineSize \in Nat /\ LineSize >= 2
    BY LineAssumption
  <2>2. CASE n = 1
    <3>1. text[n] = <<>>
      BY <1>3, <1>8, <2>2
    <3>2. Len(text[n]) = 0
      BY <3>1
    <3>3. QED
      BY <2>1, <3>2
  <2>3. CASE n # 1
    <3>1. n \in 2..n
      BY <1>3, <2>3
    <3>2. PICK k \in Nat : k = Len(text[n])
      BY <1>7, <3>1, LenProperties
    <3>3. QED
      BY <1>7, <2>1, <3>1, <3>2
  <2>4. QED
    BY <2>2, <2>3
<1>21. QED
  BY <1>5, <1>6, <1>18, <1>19, <1>20

-----------------------------------------------------------------------------
\* The loop of the shell.

ShellInv ==
  /\ screen \in Screen /\ phase \in {"prompt", "read", "run"}
  /\ line \in Seq(Typed) /\ Len(line) < LineSize
  /\ ink \in 0..InkCap /\ start \in Cells \cup {NoCell}
  /\ Len(cmd.argv) \in 0..MaxArgs
  /\ phase = "prompt" => line = <<>>
  /\ phase = "run" => cmd = Parse(line) /\ cmd.argv # <<>>

LEMMA ArgvFits ==
  ASSUME NEW l \in Seq(Typed)
  PROVE  Len(Parse(l).argv) \in 0..MaxArgs
<1>1. Len(Parse(l).argv) <= MaxArgs /\ Parse(l).argv \in Seq(Seq(Typed))
  BY ParseIs DEF Spaced
<1> DEFINE S == Seq(Typed)
<1>2. Parse(l).argv \in Seq(S)
  BY <1>1
<1> HIDE DEF S
<1>3. Len(Parse(l).argv) \in Nat
  BY <1>2, LenProperties
<1>4. QED
  BY <1>1, <1>3, LineAssumption

LEMMA CursorCell ==
  ASSUME NEW s \in Screen
  PROVE  s.cy * Width + s.cx \in Cells /\ s.cy * Width \in Nat /\ s.cx \in Nat
<1>1. s.cx \in 0..(Width - 1) /\ s.cy \in 0..(Height - 1)
  BY DEF Screen
<1>2. s.cy * Width \in Nat /\ s.cy * Width + s.cx < size
  BY <1>1, CellInside
<1>3. QED
  BY <1>1, <1>2, Sizes DEF Cells, size

LEMMA Printable ==
  /\ Typed \subseteq Glyph \cup Control
  /\ Prompt \in Seq(Glyph \cup Control) /\ EraseEcho \in Seq(Glyph \cup Control)
<1> DEFINE G == Glyph \cup Control
<1>1. Typed \subseteq G
  BY LineAssumption DEF Control
<1>2. " " \in G /\ "$" \in G /\ "bs" \in G
  BY LineAssumption, ScreenAssumption DEF Control, Blank
<1>3. Path \in Seq(G)
  <2>1. Path \in Seq(Glyph) /\ Glyph \subseteq G
    BY LineAssumption
  <2> HIDE DEF G
  <2>2. QED
    BY <2>1
<1> HIDE DEF G
<1>4. ASSUME NEW a \in G, NEW b \in G, NEW c \in G
      PROVE  <<a, b, c>> \in Seq(G)
  OBVIOUS
<1>5. Prompt \in Seq(G)
  BY <1>2, <1>3, <1>4, ConcatProperties DEF Prompt
<1>6. EraseEcho \in Seq(G)
  BY <1>2, <1>4 DEF EraseEcho
<1>7. QED
  BY <1>1, <1>5, <1>6 DEF G

LEMMA LineGrows ==
  ASSUME NEW l \in Seq(Typed), NEW c \in Typed
  PROVE  /\ Append(l, c) \in Seq(Typed) /\ Len(Append(l, c)) = Len(l) + 1 /\ Len(l) \in Nat
         /\ Append(l, c)[Len(l) + 1] = c /\ \A i \in 1..Len(l) : Append(l, c)[i] = l[i]
  BY AppendProperties

LEMMA LineShrinks ==
  ASSUME NEW l \in Seq(Typed), l # <<>>
  PROVE  /\ Front(l) \in Seq(Typed) /\ Len(l) \in Nat \ {0} /\ Len(Front(l)) = Len(l) - 1
         /\ \A i \in 1..(Len(l) - 1) : Front(l)[i] = l[i]
<1>1. Len(l) \in Nat \ {0}
  BY EmptySeq
<1>2. PICK n \in Nat : n = Len(l) - 1
  BY <1>1
<1>3. Front(l) = SubSeq(l, 1, n)
  BY <1>2 DEF Front
<1>4. n <= Len(l)
  BY <1>1, <1>2
<1>5. Len(SubSeq(l, 1, n)) = n /\ \A i \in 1..n : SubSeq(l, 1, n)[i] = l[i]
  BY <1>1, <1>4
<1>6. SubSeq(l, 1, n) \in Seq(Typed)
  BY <1>4, Cut
<1>7. QED
  BY <1>1, <1>2, <1>3, <1>5, <1>6

LEMMA ShellStarts == InitShell => ShellInv
<1> SUFFICES ASSUME InitShell PROVE ShellInv
  OBVIOUS
<1>1. Cleared \in Screen
  BY Sizes DEF Cleared, Screen
<1>2. <<>> \in Seq(Typed) /\ Len(<<>>) = 0
  BY EmptySeq
<1>3. 0 < LineSize /\ 0 \in 0..MaxArgs /\ 0 \in 0..InkCap
  BY LineAssumption
<1>4. Len(cmd.argv) = 0
  BY DEF InitShell, Idle
<1>5. QED
  BY <1>1, <1>2, <1>3, <1>4 DEF InitShell, ShellInv

LEMMA ShellInductive ==
  ASSUME ShellInv, [NextShell]_shellVars
  PROVE  ShellInv'
<1> USE DEF ShellInv
<1>0. LineSize \in Nat /\ LineSize >= 2 /\ InkCap \in Nat /\ Len(line) \in Nat
  BY LineAssumption
<1>1. CASE ShowPrompt
  <2>1. screen' \in Screen
    BY <1>1, Printable, PutAllStaysOnScreen DEF ShowPrompt
  <2>2. start' \in Cells
    BY <1>1, <2>1, CursorCell DEF ShowPrompt
  <2>3. QED
    BY <1>1, <2>1, <2>2 DEF ShowPrompt
<1>2. ASSUME NEW c \in Typed, TypeChar(c) PROVE ShellInv'
  <2>1. screen' \in Screen
    BY <1>2, Printable, PutcStaysOnScreen DEF TypeChar
  <2>2. line' \in Seq(Typed) /\ Len(line') < LineSize
    BY <1>0, <1>2, LineGrows DEF TypeChar
  <2>3. ink' \in 0..InkCap
    BY <1>0, <1>2 DEF TypeChar, Inked
  <2>4. start' \in Cells \cup {NoCell} /\ phase' = "read" /\ UNCHANGED cmd
    BY <1>2 DEF TypeChar
  <2>5. QED
    BY <2>1, <2>2, <2>3, <2>4
<1>3. CASE Erase
  <2>1. screen' \in Screen
    BY <1>3, Printable, PutAllStaysOnScreen DEF Erase
  <2>2. line' \in Seq(Typed) /\ Len(line') < LineSize
    BY <1>0, <1>3, LineShrinks DEF Erase
  <2>3. phase' = "read" /\ UNCHANGED <<cmd, start, ink>>
    BY <1>3 DEF Erase
  <2>4. QED
    BY <2>1, <2>2, <2>3
<1>4. CASE Enter
  <2>1. screen' \in Screen
    <3>1. "nl" \in Control
      BY DEF Control
    <3>2. QED
      BY <1>4, <3>1, PutcStaysOnScreen DEF Enter
  <2>2. start' = NoCell /\ ink' = ink
    BY <1>4 DEF Enter
  <2>3. CASE phase' = "prompt" /\ line' = <<>> /\ UNCHANGED cmd
    <3>1. <<>> \in Seq(Typed) /\ Len(<<>>) = 0
      BY EmptySeq
    <3>2. QED
      BY <1>0, <2>1, <2>2, <2>3, <3>1
  <2>4. CASE Parse(line).argv # <<>> /\ phase' = "run" /\ cmd' = Parse(line) /\ UNCHANGED line
    <3>1. Len(cmd'.argv) \in 0..MaxArgs
      BY <2>4, ArgvFits
    <3>2. QED
      BY <2>1, <2>2, <2>4, <3>1
  <2>5. QED
    BY <1>4, <2>3, <2>4 DEF Enter
<1>5. CASE Output
  <2>1. screen' \in Screen
    <3>1. Printed \subseteq Glyph \cup Control
      BY LineAssumption
    <3>2. QED
      BY <1>5, <3>1, PutcStaysOnScreen DEF Output
  <2>2. ink' \in 0..InkCap
    BY <1>0, <1>5 DEF Output, Inked
  <2>3. QED
    BY <1>5, <2>1, <2>2 DEF Output
<1>6. CASE Clear
  <2>1. Cleared \in Screen
    BY Sizes DEF Cleared, Screen
  <2>2. QED
    BY <1>0, <1>6, <2>1 DEF Clear
<1>7. CASE Done
  <2>1. <<>> \in Seq(Typed) /\ Len(<<>>) = 0
    BY EmptySeq
  <2>2. Len(cmd'.argv) = 0 /\ 0 \in 0..MaxArgs
    BY <1>7, LineAssumption DEF Done, Idle
  <2>3. QED
    BY <1>0, <1>7, <2>1, <2>2 DEF Done
<1>8. CASE UNCHANGED shellVars
  BY <1>8 DEF shellVars
<1>9. QED
  BY <1>1, <1>2, <1>3, <1>4, <1>5, <1>6, <1>7, <1>8 DEF NextShell

LEMMA ShellAlways == SpecShell => []ShellInv
<1>1. InitShell => ShellInv
  BY ShellStarts
<1>2. ShellInv /\ [NextShell]_shellVars => ShellInv'
  BY ShellInductive
<1>3. QED
  BY <1>1, <1>2, PTL DEF SpecShell

\* Whatever is typed and printed, on a screen of any size and with a line of
\* any length: the cursor stays on the screen, the line leaves room for its
\* terminator, and no line has more words than argv has room for.
THEOREM TypeCorrect == SpecShell => []ShellTypeOK
<1>1. ShellInv => ShellTypeOK
  BY LineAssumption DEF ShellInv, ShellTypeOK
<1>2. QED
  BY <1>1, ShellAlways, PTL

\* The arguments of a builtin are its words, whole, for a line and a buffer of
\* any common size: the words, their blanks and the terminator never need more
\* room than the line they come from.
THEOREM ArgsKept == SpecShell => []ArgsWhole
<1>1. ShellInv => ArgsWhole
  <2> SUFFICES ASSUME ShellInv, phase = "run"
               PROVE  Args(cmd.argv) = Joined(cmd.argv) /\ Len(Args(cmd.argv)) < LineSize
    BY DEF ArgsWhole
  <2> DEFINE l == CommandPart(line)
             argv == Parse(line).argv
  <2>1. line \in Seq(Typed) /\ cmd.argv = argv /\ argv # <<>> /\ Len(line) < LineSize
    BY DEF ShellInv
  <2>2. l \in Seq(Typed) /\ Len(l) <= Len(line)
    BY <2>1, CommandCut
  <2>3. Spaced(l, argv, 1)
    BY <2>1, ParseIs
  <2>4. Len(l) < LineSize
    <3>1. LineSize \in Nat /\ Len(l) \in Nat /\ Len(line) \in Nat
      BY <2>1, <2>2, LineAssumption, LenProperties
    <3>2. QED
      BY <2>1, <2>2, <3>1
  <2> HIDE DEF l, argv
  <2>5. Args(argv) = Joined(argv) /\ Len(Args(argv)) < LineSize
    BY <2>1, <2>2, <2>3, <2>4, ArgsAreJoined
  <2>6. QED
    BY <2>1, <2>5
<1>2. QED
  BY <1>1, ShellAlways, PTL

-----------------------------------------------------------------------------
\* What the parser finds.

Blanks == {" "}

\* The search stops at the one place with what it looks for and none before it.
LEMMA FirstAt ==
  ASSUME NEW l, Len(l) \in Nat, NEW from \in Nat \ {0}, NEW set, NEW b \in 1..(Len(l) + 1),
         b <= Len(l) => b >= from /\ l[b] \in set, \A i \in from..(b - 1) : l[i] \notin set
  PROVE  First(l, from, set) = b
<1>1. PICK n, k \in Nat : n = Len(l) /\ k = First(l, from, set) /\ k \in 1..(n + 1)
  <2>1. First(l, from, set) \in 1..(Len(l) + 1)
    BY FirstIs
  <2>2. QED
    BY <2>1
<1>2. k <= n => k >= from /\ l[k] \in set
  BY <1>1, FirstIs
<1>3. \A i \in from..(k - 1) : l[i] \notin set
  BY <1>1, FirstIs
<1>4. ASSUME k < b PROVE FALSE
  <2>1. k <= n /\ k >= from
    BY <1>1, <1>2, <1>4
  <2>2. k \in from..(b - 1)
    BY <1>1, <1>4, <2>1
  <2>3. QED
    BY <1>2, <2>1, <2>2
<1>5. ASSUME b < k PROVE FALSE
  <2>1. b <= n /\ b >= from
    BY <1>1, <1>5
  <2>2. b \in from..(k - 1)
    BY <1>1, <1>5, <2>1
  <2>3. QED
    BY <1>1, <1>3, <2>1, <2>2
<1>6. QED
  BY <1>1, <1>4, <1>5

\* The blanks are skipped, to the next character or the end.
LEMMA NonBlankIs ==
  ASSUME NEW l \in Seq(Typed), NEW p \in 1..(Len(l) + 2)
  PROVE  /\ NonBlank(l, p) \in 1..(Len(l) + 1)
         /\ NonBlank(l, p) <= Len(l) => NonBlank(l, p) >= p /\ l[NonBlank(l, p)] \notin Blanks
         /\ \A i \in p..(NonBlank(l, p) - 1) : i <= Len(l) => l[i] \in Blanks
<1> DEFINE black == {l[i] : i \in p..Len(l)} \ Blanks
<1>1. NonBlank(l, p) = First(l, p, black)
  BY DEF NonBlank, Blanks
<1>2. PICK n \in Nat : n = Len(l)
  OBVIOUS
<1>3. p \in Nat \ {0}
  BY <1>2
<1>4. \A i \in p..n : l[i] \notin black => l[i] \in Blanks
  BY <1>2
<1>5. \A c : c \in black => c \notin Blanks
  OBVIOUS
<1> HIDE DEF black
<1>6. PICK b \in Nat : b = NonBlank(l, p) /\ b \in 1..(n + 1)
  <2>1. First(l, p, black) \in 1..(n + 1)
    BY <1>2, <1>3, FirstIs
  <2>2. QED
    BY <1>1, <2>1
<1>7. b <= n => b >= p /\ l[b] \in black
  BY <1>1, <1>2, <1>3, <1>6, FirstIs
<1>8. \A i \in p..(b - 1) : l[i] \notin black
  BY <1>1, <1>2, <1>3, <1>6, FirstIs
<1>9. \A i \in p..(b - 1) : i <= n => l[i] \in Blanks
  <2>1. ASSUME NEW i \in p..(b - 1), i <= n PROVE l[i] \in Blanks
    <3>1. i \in p..n
      BY <1>3, <2>1
    <3>2. QED
      BY <1>4, <1>8, <3>1
  <2>2. QED
    BY <2>1
<1>10. QED
  BY <1>2, <1>5, <1>6, <1>7, <1>9

LEMMA NonBlankAt ==
  ASSUME NEW l \in Seq(Typed), NEW p \in 1..(Len(l) + 2), NEW b \in 1..(Len(l) + 1),
         b <= Len(l) => b >= p /\ l[b] \notin Blanks,
         \A i \in p..(b - 1) : i <= Len(l) => l[i] \in Blanks
  PROVE  NonBlank(l, p) = b
<1> DEFINE black == {l[i] : i \in p..Len(l)} \ Blanks
<1>1. NonBlank(l, p) = First(l, p, black)
  BY DEF NonBlank, Blanks
<1>2. PICK n \in Nat : n = Len(l)
  OBVIOUS
<1>3. p \in Nat \ {0} /\ b \in Nat /\ b <= n + 1
  BY <1>2
<1>4. b <= n => l[b] \in black
  <2>1. b <= n => b \in p..n
    BY <1>2, <1>3
  <2>2. QED
    BY <1>2, <2>1
<1>5. \A i \in p..(b - 1) : l[i] \notin black
  <2>1. ASSUME NEW i \in p..(b - 1) PROVE l[i] \in Blanks
    <3>1. i <= n
      BY <1>2, <1>3
    <3>2. QED
      BY <1>2, <3>1
  <2>2. QED
    BY <2>1
<1> HIDE DEF black
<1>6. QED
  BY <1>1, <1>2, <1>3, <1>4, <1>5, FirstAt

\* The words from p on are those from p + 1 on, if there is a blank at p.
LEMMA BlankSkipped ==
  ASSUME NEW l \in Seq(Typed), NEW W, IsWords(W, l, 1), NEW p \in 1..Len(l), l[p] \in Blanks
  PROVE  W[p] = W[p + 1]
<1>1. PICK n \in Nat : n = Len(l)
  OBVIOUS
<1>2. p \in 1..(n + 2) /\ p + 1 \in 1..(n + 2) /\ p \in 1..n
  BY <1>1
<1>3. PICK b \in Nat : b = NonBlank(l, p + 1) /\ b \in 1..(n + 1)
  <2>1. NonBlank(l, p + 1) \in 1..(n + 1)
    BY <1>1, <1>2, NonBlankIs
  <2>2. QED
    BY <2>1
<1>4. /\ b <= n => b >= p + 1 /\ l[b] \notin Blanks
      /\ \A i \in (p + 1)..(b - 1) : i <= n => l[i] \in Blanks
  BY <1>1, <1>2, <1>3, NonBlankIs
<1>5. \A i \in p..(b - 1) : i <= n => l[i] \in Blanks
  <2>1. ASSUME NEW i \in p..(b - 1), i <= n PROVE l[i] \in Blanks
    <3>1. i = p \/ i \in (p + 1)..(b - 1)
      BY <1>2, <1>3, <2>1
    <3>2. QED
      BY <1>4, <2>1, <3>1
  <2>2. QED
    BY <2>1
<1>6. b <= n => b >= p /\ l[b] \notin Blanks
  BY <1>2, <1>4
<1>7. NonBlank(l, p) = b
  BY <1>1, <1>2, <1>3, <1>5, <1>6, NonBlankAt
<1>8. NoWord(l, p) = NoWord(l, p + 1) /\ WordAt(l, p) = WordAt(l, p + 1) /\ After(l, p) = After(l, p + 1)
  BY <1>3, <1>7 DEF NoWord, WordAt, After
<1> DEFINE none == <<>>
<1> HIDE DEF none
<1>9. W = [a \in 1..(n + 2) |-> IF NoWord(l, a) THEN none ELSE <<WordAt(l, a)>> \o W[After(l, a)]]
  BY <1>1 DEF IsWords, none
<1>10. W[p] = IF NoWord(l, p) THEN none ELSE <<WordAt(l, p)>> \o W[After(l, p)]
  BY <1>2, <1>9
<1>11. W[p + 1] = IF NoWord(l, p + 1) THEN none ELSE <<WordAt(l, p + 1)>> \o W[After(l, p + 1)]
  BY <1>2, <1>9
<1>12. QED
  BY <1>8, <1>10, <1>11

\* There is no word after the end.
LEMMA NoneAfter ==
  ASSUME NEW l \in Seq(Typed), NEW W, IsWords(W, l, 1), NEW p \in (Len(l) + 1)..(Len(l) + 2)
  PROVE  W[p] = <<>>
<1>1. PICK n \in Nat : n = Len(l)
  OBVIOUS
<1>2. p \in 1..(n + 2) /\ n + 1 \in 1..(n + 1) /\ ~(n + 1 <= n) /\ \A i \in p..n : FALSE
  BY <1>1
<1>3. \A i \in p..((n + 1) - 1) : i <= n => l[i] \in Blanks
  BY <1>1, <1>2
<1>4. NonBlank(l, p) = n + 1
  BY <1>1, <1>2, <1>3, NonBlankAt
<1>5. NoWord(l, p)
  BY <1>1, <1>4 DEF NoWord
<1>6. QED
  BY <1>1, <1>2, <1>5 DEF IsWords

\* A word from b to k, without quotes or in quotes; what follows it is skipped.
LEMMA FoundAt ==
  ASSUME NEW l \in Seq(Typed), NEW W, IsWords(W, l, 1),
         NEW b \in 1..Len(l), l[b] \notin Blanks
  PROVE  W[b] = <<SubSeq(l, From(l, b), To(l, b) - 1)>> \o W[To(l, b) + 1]
<1>1. PICK n \in Nat : n = Len(l)
  OBVIOUS
<1>2. b \in 1..(n + 2) /\ b \in 1..n /\ b \in 1..(n + 1) /\ b >= b
  BY <1>1
<1>3. \A i \in b..(b - 1) : i <= n => l[i] \in Blanks
  BY <1>1, <1>2
<1>4. NonBlank(l, b) = b
  BY <1>1, <1>2, <1>3, NonBlankAt
<1>5. ~NoWord(l, b)
  BY <1>1, <1>2, <1>4 DEF NoWord
<1>6. WordAt(l, b) = SubSeq(l, From(l, b), To(l, b) - 1) /\ After(l, b) = To(l, b) + 1
  BY <1>4 DEF WordAt, After
<1> DEFINE none == <<>>
<1> HIDE DEF none
<1>7. W = [a \in 1..(n + 2) |-> IF NoWord(l, a) THEN none ELSE <<WordAt(l, a)>> \o W[After(l, a)]]
  BY <1>1 DEF IsWords, none
<1>8. W[b] = <<WordAt(l, b)>> \o W[After(l, b)]
  BY <1>2, <1>5, <1>7
<1>9. QED
  BY <1>6, <1>8

LEMMA PlainWord ==
  ASSUME NEW l \in Seq(Typed), NEW W, IsWords(W, l, 1), NEW b \in 1..Len(l), NEW k \in b..Len(l),
         l[b] \notin Quotes, \A j \in b..k : l[j] \notin Blanks, k < Len(l) => l[k + 1] \in Blanks
  PROVE  W[b] = <<SubSeq(l, b, k)>> \o W[k + 2]
<1>1. PICK n \in Nat : n = Len(l)
  OBVIOUS
<1>2. b \in Nat \ {0} /\ b <= n /\ k \in Nat /\ b <= k /\ k <= n
  BY <1>1
<1>3. From(l, b) = b
  BY DEF From
<1>4. To(l, b) = First(l, b, Blanks)
  BY <1>3 DEF To, Blanks
<1>5. First(l, b, Blanks) = k + 1
  <2>1. k + 1 \in 1..(n + 1)
    BY <1>2
  <2>2. k + 1 <= n => k + 1 >= b /\ l[k + 1] \in Blanks
    BY <1>1, <1>2
  <2>3. \A i \in b..((k + 1) - 1) : l[i] \notin Blanks
    BY <1>2
  <2>4. QED
    BY <1>1, <1>2, <2>1, <2>2, <2>3, FirstAt
<1>6. l[b] \notin Blanks
  BY <1>2
<1>7. k + 1 \in 1..(n + 1) /\ (k + 1) - 1 = k /\ (k + 1) + 1 = k + 2
  BY <1>2
<1>8. W[b] = <<SubSeq(l, From(l, b), To(l, b) - 1)>> \o W[To(l, b) + 1]
  BY <1>6, FoundAt
<1>9. W[b] = <<SubSeq(l, b, (k + 1) - 1)>> \o W[(k + 1) + 1]
  BY <1>3, <1>4, <1>5, <1>8
<1>10. QED
  BY <1>7, <1>9

LEMMA QuotedWord ==
  ASSUME NEW l \in Seq(Typed), NEW W, IsWords(W, l, 1), NEW b \in 1..Len(l), NEW k \in b..Len(l),
         l[b] \in Quotes, \A j \in (b + 1)..k : l[j] # l[b], k < Len(l) => l[k + 1] = l[b]
  PROVE  W[b] = <<SubSeq(l, b + 1, k)>> \o W[k + 2]
<1>1. PICK n \in Nat : n = Len(l)
  OBVIOUS
<1>2. b \in Nat \ {0} /\ b <= n /\ k \in Nat /\ b <= k /\ k <= n /\ b + 1 \in Nat \ {0}
  BY <1>1
<1>3. From(l, b) = b + 1
  BY DEF From
<1> DEFINE q == {l[b]}
<1>4. To(l, b) = First(l, b + 1, q)
  BY <1>3 DEF To
<1>5. First(l, b + 1, q) = k + 1
  <2>1. k + 1 \in 1..(n + 1)
    BY <1>2
  <2>2. k + 1 <= n => k + 1 >= b + 1 /\ l[k + 1] \in q
    BY <1>1, <1>2
  <2>3. \A i \in (b + 1)..((k + 1) - 1) : l[i] \notin q
    BY <1>2
  <2> HIDE DEF q
  <2>4. QED
    BY <1>1, <1>2, <2>1, <2>2, <2>3, FirstAt
<1>6. l[b] \notin Blanks
  BY DEF Quotes, Blanks
<1>7. k + 1 \in 1..(n + 1) /\ (k + 1) - 1 = k /\ (k + 1) + 1 = k + 2
  BY <1>2
<1> HIDE DEF q
<1>8. W[b] = <<SubSeq(l, From(l, b), To(l, b) - 1)>> \o W[To(l, b) + 1]
  BY <1>6, FoundAt
<1>9. W[b] = <<SubSeq(l, b + 1, (k + 1) - 1)>> \o W[(k + 1) + 1]
  BY <1>3, <1>4, <1>5, <1>8
<1>10. QED
  BY <1>7, <1>9

-----------------------------------------------------------------------------
\* What a line means, character by character.

InText == {"gap", "word", "closed"} \cup Quotes
InFile == {"sign", "to", "file"}
Meaning == [words : Seq(Seq(Typed)), open : Seq(Typed), in : InText \cup InFile,
            redir : {"none", ">>"} \cup Signs, plain : BOOLEAN]

IsReading(f, l) == f = [k \in 0..Len(l) |-> IF k = 0 THEN Blank0 ELSE Read(f[k - 1], l[k])]

MeantBy(m) ==
  [plain |-> m.plain,
   cmd |-> [argv |-> SubSeq(AllWords(m), 1, IF Len(AllWords(m)) < MaxArgs THEN Len(AllWords(m)) ELSE MaxArgs),
            redir |-> m.redir, file |-> IF m.redir = "none" THEN <<>> ELSE m.open]]

\* There is a reading of every line, and it gives the meaning.
LEMMA ReadingExists ==
  ASSUME NEW l, Len(l) \in Nat
  PROVE  \E f : IsReading(f, l)
<1>1. PICK n \in Nat : n = Len(l)
  OBVIOUS
<1> DEFINE Upto(g, k) == g = [i \in 0..k |-> IF i = 0 THEN Blank0 ELSE Read(g[i - 1], l[i])]
           T == {k \in Nat : \E g : Upto(g, k)}
<1>2. 0 \in T
  <2> DEFINE g == [i \in 0..0 |-> Blank0]
  <2>1. Upto(g, 0)
    OBVIOUS
  <2>2. QED
    BY <2>1
<1>3. ASSUME NEW k \in 1..n, k - 1 \in T PROVE k \in T
  <2>1. PICK g : Upto(g, k - 1)
    BY <1>3
  <2> DEFINE f == [i \in 0..k |-> IF i = k THEN Read(g[k - 1], l[k]) ELSE g[i]]
  <2>2. ASSUME NEW i \in 0..k
        PROVE  f[i] = IF i = 0 THEN Blank0 ELSE Read(f[i - 1], l[i])
    <3>1. CASE i = k
      <4>1. f[i] = Read(g[k - 1], l[k])
        BY <3>1
      <4>2. f[k - 1] = g[k - 1]
        OBVIOUS
      <4> HIDE DEF f
      <4>3. QED
        BY <3>1, <4>1, <4>2
    <3>2. CASE i # k
      <4>1. f[i] = g[i] /\ i \in 0..(k - 1)
        BY <3>2
      <4>2. g[i] = IF i = 0 THEN Blank0 ELSE Read(g[i - 1], l[i])
        BY <2>1, <4>1
      <4>3. i # 0 => f[i - 1] = g[i - 1]
        BY <4>1
      <4> HIDE DEF f
      <4>4. QED
        BY <4>1, <4>2, <4>3
    <3>3. QED
      BY <3>1, <3>2
  <2>3. f = [i \in 0..k |-> f[i]]
    OBVIOUS
  <2> HIDE DEF f
  <2>4. [i \in 0..k |-> f[i]] = [i \in 0..k |-> IF i = 0 THEN Blank0 ELSE Read(f[i - 1], l[i])]
    BY <2>2
  <2>5. Upto(f, k)
    BY <2>3, <2>4
  <2>6. QED
    BY <2>5
<1> HIDE DEF T
<1>4. n \in T
  BY <1>2, <1>3, Rounds
<1>5. QED
  BY <1>1, <1>4 DEF T, IsReading

LEMMA MeantIs ==
  ASSUME NEW l, Len(l) \in Nat
  PROVE  \E f : IsReading(f, l) /\ Meant(l) = MeantBy(f[Len(l)])
<1> DEFINE f == CHOOSE g : IsReading(g, l)
<1>1. IsReading(f, l)
  BY ReadingExists
<1>2. Meant(l) = MeantBy(f[Len(l)])
  BY DEF Meant, MeantBy, IsReading
<1> HIDE DEF f
<1>3. QED
  BY <1>1, <1>2

\* The steps that leave the meaning of the line plain.
TextStep(m, c, r) ==
  \/ m.in = "gap" /\ c \in Blanks /\ r.in = "gap" /\ r.words = m.words /\ r.open = m.open
  \/ m.in = "gap" /\ c \in Quotes /\ r.in = c /\ r.words = m.words /\ r.open = m.open
  \/ /\ m.in = "gap" /\ c \notin Blanks \cup Quotes \cup Signs
     /\ r.in = "word" /\ r.words = m.words /\ r.open = Append(m.open, c)
  \/ /\ m.in = "word" /\ c \in Blanks
     /\ r.in = "gap" /\ r.words = Append(m.words, m.open) /\ r.open = <<>>
  \/ /\ m.in = "word" /\ c \notin Blanks \cup Quotes \cup Signs
     /\ r.in = "word" /\ r.words = m.words /\ r.open = Append(m.open, c)
  \/ /\ m.in \in Quotes /\ c = m.in
     /\ r.in = "closed" /\ r.words = Append(m.words, m.open) /\ r.open = <<>>
  \/ /\ m.in \in Quotes /\ c # m.in /\ c \notin Signs
     /\ r.in = m.in /\ r.words = m.words /\ r.open = Append(m.open, c)
  \/ m.in = "closed" /\ c \in Blanks /\ r.in = "gap" /\ r.words = m.words /\ r.open = m.open

FileStep(m, c, r) ==
  \/ m.in = "sign" /\ c = ">" /\ m.redir = ">" /\ r.redir = ">>" /\ r.in = "to" /\ r.open = m.open
  \/ m.in \in {"sign", "to"} /\ c \in Blanks /\ r.redir = m.redir /\ r.in = "to" /\ r.open = m.open
  \/ /\ m.in \in InFile /\ c \notin Blanks \cup Quotes \cup Signs
     /\ r.redir = m.redir /\ r.in = "file" /\ r.open = Append(m.open, c)

\* What a step makes of a meaning.
LEMMA ReadTyped ==
  ASSUME NEW m \in Meaning, NEW c \in Typed
  PROVE  Read(m, c) \in Meaning
<1> DEFINE one == [m EXCEPT !.open = Append(@, c)]
           done == [m EXCEPT !.words = Append(@, m.open), !.open = <<>>, !.in = "gap"]
<1>1. Append(m.open, c) \in Seq(Typed) /\ <<>> \in Seq(Typed)
  BY EmptySeq, AppendProperties DEF Meaning
<1>2. Append(m.words, m.open) \in Seq(Seq(Typed))
  <2> DEFINE S == Seq(Typed)
  <2>1. m.words \in Seq(S) /\ m.open \in S
    BY DEF Meaning
  <2> HIDE DEF S
  <2>2. Append(m.words, m.open) \in Seq(S)
    BY <2>1, AppendProperties
  <2>3. QED
    BY <2>2 DEF S
<1>3. Grow(m, c) \in Meaning
  BY <1>1 DEF Grow, Meaning
<1>4. EndWord(m) \in Meaning
  BY <1>1, <1>2 DEF EndWord, Meaning, InText
<1>5. Odd(m) \in Meaning
  BY DEF Odd, Meaning
<1>6. InGap(m, c) \in Meaning
  <2>1. [m EXCEPT !.in = "word"] \in Meaning /\ [m EXCEPT !.in = "word"].open = m.open
    BY DEF Meaning, InText
  <2>2. Grow([m EXCEPT !.in = "word"], c) \in Meaning
    BY <1>1, <2>1 DEF Grow, Meaning
  <2>3. c \in Quotes => [m EXCEPT !.in = c] \in Meaning
    BY DEF Meaning, InText
  <2>4. c \in Signs => [m EXCEPT !.redir = c, !.in = "sign"] \in Meaning
    BY DEF Meaning, InFile
  <2>5. QED
    BY <1>5, <2>2, <2>3, <2>4 DEF InGap
<1>7. InWord(m, c) \in Meaning
  BY <1>3, <1>4, <1>5 DEF InWord
<1>8. InQuotes(m, c) \in Meaning
  <2>1. [EndWord(m) EXCEPT !.in = "closed"] \in Meaning
    BY <1>4 DEF Meaning, InText
  <2>2. QED
    BY <1>3, <1>5, <2>1 DEF InQuotes
<1>9. Closed(m, c) \in Meaning
  <2>1. [m EXCEPT !.in = "gap"] \in Meaning
    BY DEF Meaning, InText
  <2>2. QED
    BY <1>5, <2>1 DEF Closed
<1>10. ToFile(m, c) \in Meaning
  <2>1. [m EXCEPT !.redir = ">>", !.in = "to"] \in Meaning /\ [m EXCEPT !.in = "to"] \in Meaning
    BY DEF Meaning, InFile
  <2>2. [m EXCEPT !.in = "file"] \in Meaning /\ [m EXCEPT !.in = "file"].open = m.open
    BY DEF Meaning, InFile
  <2>3. Grow([m EXCEPT !.in = "file"], c) \in Meaning
    BY <1>1, <2>2 DEF Grow, Meaning
  <2>4. QED
    BY <1>5, <2>1, <2>3 DEF ToFile
<1>11. QED
  BY <1>6, <1>7, <1>8, <1>9, <1>10 DEF Read

LEMMA ReadSteps ==
  ASSUME NEW m \in Meaning, NEW c \in Typed, Read(m, c).plain
  PROVE  LET r == Read(m, c)
         IN  /\ m.plain
             /\ \/ TextStep(m, c, r) /\ r.redir = m.redir
                \/ /\ m.in = "gap" /\ c \in Signs /\ m.words # <<>>
                   /\ r.in = "sign" /\ r.redir = c /\ r.words = m.words /\ r.open = m.open
                \/ FileStep(m, c, r) /\ r.words = m.words
<1> DEFINE r == Read(m, c)
           Goal == /\ m.plain
                   /\ \/ TextStep(m, c, r) /\ r.redir = m.redir
                      \/ /\ m.in = "gap" /\ c \in Signs /\ m.words # <<>>
                         /\ r.in = "sign" /\ r.redir = c /\ r.words = m.words /\ r.open = m.open
                      \/ FileStep(m, c, r) /\ r.words = m.words
<1>1. ~Odd(m).plain
  BY DEF Odd, Meaning
<1>2. c \in Blanks <=> c = " "
  BY DEF Blanks
<1>3. CASE m.in = "gap"
  <2>1. r = InGap(m, c)
    BY <1>3 DEF Read
  <2>2. CASE c = " "
    <3>1. r = m
      BY <2>1, <2>2 DEF InGap
    <3>2. QED
      BY <1>2, <1>3, <2>2, <3>1 DEF TextStep
  <2>3. CASE c # " " /\ c \in Quotes
    <3>1. r = [m EXCEPT !.in = c]
      BY <2>1, <2>3 DEF InGap
    <3>2. r.plain = m.plain /\ r.in = c /\ r.words = m.words /\ r.open = m.open /\ r.redir = m.redir
      BY <3>1 DEF Meaning
    <3>3. QED
      BY <1>3, <2>3, <3>2 DEF TextStep
  <2>4. CASE c # " " /\ c \notin Quotes /\ c \notin Signs
    <3>1. r = Grow([m EXCEPT !.in = "word"], c)
      BY <2>1, <2>4 DEF InGap
    <3>2. /\ r.plain = m.plain /\ r.in = "word" /\ r.words = m.words /\ r.open = Append(m.open, c)
          /\ r.redir = m.redir
      BY <3>1 DEF Meaning, Grow
    <3>3. c \notin Blanks \cup Quotes \cup Signs
      BY <1>2, <2>4
    <3>4. QED
      BY <1>3, <3>2, <3>3 DEF TextStep
  <2>5. CASE c # " " /\ c \notin Quotes /\ c \in Signs
    <3>1. r = IF m.words = <<>> THEN Odd(m) ELSE [m EXCEPT !.redir = c, !.in = "sign"]
      BY <2>1, <2>5 DEF InGap
    <3>2. m.words # <<>> /\ r = [m EXCEPT !.redir = c, !.in = "sign"]
      BY <1>1, <3>1
    <3>3. r.plain = m.plain /\ r.in = "sign" /\ r.words = m.words /\ r.open = m.open /\ r.redir = c
      BY <3>2 DEF Meaning
    <3>4. QED
      BY <1>3, <2>5, <3>2, <3>3
  <2>6. QED
    BY <2>2, <2>3, <2>4, <2>5
<1>4. CASE m.in = "word"
  <2>1. r = InWord(m, c)
    BY <1>4 DEF Read
  <2>2. CASE c = " "
    <3>1. r = EndWord(m)
      BY <2>1, <2>2 DEF InWord
    <3>2. /\ r.plain = m.plain /\ r.in = "gap" /\ r.words = Append(m.words, m.open) /\ r.open = <<>>
          /\ r.redir = m.redir
      BY <3>1 DEF Meaning, EndWord
    <3>3. QED
      BY <1>2, <1>4, <2>2, <3>2 DEF TextStep
  <2>3. CASE c # " "
    <3>1. c \notin Quotes \cup Signs /\ r = Grow(m, c)
      BY <1>1, <2>1, <2>3 DEF InWord
    <3>2. /\ r.plain = m.plain /\ r.in = "word" /\ r.words = m.words /\ r.open = Append(m.open, c)
          /\ r.redir = m.redir
      BY <1>4, <3>1 DEF Meaning, Grow
    <3>3. c \notin Blanks \cup Quotes \cup Signs
      BY <1>2, <2>3, <3>1
    <3>4. QED
      BY <1>4, <3>2, <3>3 DEF TextStep
  <2>4. QED
    BY <2>2, <2>3
<1>5. CASE m.in \in Quotes
  <2>1. r = InQuotes(m, c)
    BY <1>5 DEF Read, Quotes
  <2>2. CASE c = m.in
    <3>1. r = [EndWord(m) EXCEPT !.in = "closed"]
      BY <2>1, <2>2 DEF InQuotes
    <3>2. /\ r.plain = m.plain /\ r.in = "closed" /\ r.words = Append(m.words, m.open) /\ r.open = <<>>
          /\ r.redir = m.redir
      BY <3>1 DEF Meaning, EndWord
    <3>3. QED
      BY <1>5, <2>2, <3>2 DEF TextStep
  <2>3. CASE c # m.in
    <3>1. c \notin Signs /\ r = Grow(m, c)
      BY <1>1, <2>1, <2>3 DEF InQuotes
    <3>2. /\ r.plain = m.plain /\ r.in = m.in /\ r.words = m.words /\ r.open = Append(m.open, c)
          /\ r.redir = m.redir
      BY <3>1 DEF Meaning, Grow
    <3>3. QED
      BY <1>5, <2>3, <3>1, <3>2 DEF TextStep
  <2>4. QED
    BY <2>2, <2>3
<1>6. CASE m.in = "closed"
  <2>1. r = Closed(m, c)
    BY <1>6 DEF Read, Quotes
  <2>2. c = " " /\ r = [m EXCEPT !.in = "gap"]
    BY <1>1, <2>1 DEF Closed
  <2>3. r.plain = m.plain /\ r.in = "gap" /\ r.words = m.words /\ r.open = m.open /\ r.redir = m.redir
    BY <2>2 DEF Meaning
  <2>4. QED
    BY <1>2, <1>6, <2>2, <2>3 DEF TextStep
<1>7. CASE m.in \in InFile
  <2>1. r = ToFile(m, c)
    BY <1>7 DEF Read, Quotes, InFile
  <2>2. CASE m.in = "sign" /\ c = ">" /\ m.redir = ">"
    <3>1. r = [m EXCEPT !.redir = ">>", !.in = "to"]
      BY <2>1, <2>2 DEF ToFile
    <3>2. r.plain = m.plain /\ r.in = "to" /\ r.words = m.words /\ r.open = m.open /\ r.redir = ">>"
      BY <3>1 DEF Meaning
    <3>3. QED
      BY <2>2, <3>2 DEF FileStep
  <2>3. CASE ~(m.in = "sign" /\ c = ">" /\ m.redir = ">") /\ c = " " /\ m.in # "file"
    <3>1. r = [m EXCEPT !.in = "to"]
      BY <2>1, <2>3 DEF ToFile
    <3>2. r.plain = m.plain /\ r.in = "to" /\ r.words = m.words /\ r.open = m.open /\ r.redir = m.redir
      BY <3>1 DEF Meaning
    <3>3. m.in \in {"sign", "to"}
      BY <1>7, <2>3 DEF InFile
    <3>4. QED
      BY <1>2, <2>3, <3>2, <3>3 DEF FileStep
  <2>4. CASE ~(m.in = "sign" /\ c = ">" /\ m.redir = ">") /\ ~(c = " " /\ m.in # "file")
    <3>1. c \notin Signs \cup Quotes \cup {" "} /\ r = Grow([m EXCEPT !.in = "file"], c)
      BY <1>1, <2>1, <2>4 DEF ToFile
    <3>2. /\ r.plain = m.plain /\ r.in = "file" /\ r.words = m.words /\ r.open = Append(m.open, c)
          /\ r.redir = m.redir
      BY <3>1 DEF Meaning, Grow
    <3>3. c \notin Blanks \cup Quotes \cup Signs
      BY <1>2, <3>1
    <3>4. QED
      BY <1>7, <3>2, <3>3 DEF FileStep
  <2>5. QED
    BY <2>2, <2>3, <2>4
<1>8. m.in \in InText \cup InFile
  BY DEF Meaning
<1>9. QED
  BY <1>3, <1>4, <1>5, <1>6, <1>7, <1>8 DEF InText

\* A reading, character by character.
LEMMA ReadingIs ==
  ASSUME NEW l \in Seq(Typed), NEW f, IsReading(f, l)
  PROVE  /\ f[0] = Blank0
         /\ \A k \in 1..Len(l) : f[k] = Read(f[k - 1], l[k])
         /\ \A k \in 0..Len(l) : f[k] \in Meaning
<1>1. PICK n \in Nat : n = Len(l)
  OBVIOUS
<1>2. f = [k \in 0..n |-> IF k = 0 THEN Blank0 ELSE Read(f[k - 1], l[k])]
  BY <1>1 DEF IsReading
<1>3. f[0] = Blank0
  BY <1>1, <1>2
<1>4. \A k \in 1..n : f[k] = Read(f[k - 1], l[k])
  <2>1. ASSUME NEW k \in 1..n PROVE f[k] = Read(f[k - 1], l[k])
    <3>1. k \in 0..n /\ k # 0
      OBVIOUS
    <3>2. QED
      BY <1>2, <3>1
  <2>2. QED
    BY <2>1
<1> DEFINE T == {k \in 0..n : f[k] \in Meaning}
<1>5. 0 \in T
  <2>1. Blank0 \in Meaning
    <3> DEFINE S == Seq(Typed)
    <3>1. <<>> \in Seq(S) /\ <<>> \in S
      <4>1. <<>> \in Seq(Typed)
        BY EmptySeq
      <4> HIDE DEF S
      <4>2. <<>> \in Seq(S)
        BY EmptySeq
      <4>3. QED
        BY <4>1, <4>2 DEF S
    <3>2. QED
      BY <3>1 DEF Blank0, Meaning, InText
  <2>2. QED
    BY <1>3, <2>1
<1>6. ASSUME NEW k \in 1..n, k - 1 \in T PROVE k \in T
  <2>1. l[k] \in Typed
    BY <1>1
  <2>2. Read(f[k - 1], l[k]) \in Meaning
    BY <1>6, <2>1, ReadTyped
  <2>3. QED
    BY <1>4, <2>2
<1> HIDE DEF T
<1>7. \A k \in 0..n : k \in T
  BY <1>5, <1>6, Rounds
<1>8. \A k \in 0..n : f[k] \in Meaning
  BY <1>7 DEF T
<1>9. QED
  BY <1>1, <1>3, <1>4, <1>8

\* A line whose meaning is plain was plain all along.
LEMMA PlainBefore ==
  ASSUME NEW l \in Seq(Typed), NEW f, IsReading(f, l), f[Len(l)].plain
  PROVE  \A k \in 0..Len(l) : f[k].plain
<1>1. PICK n \in Nat : n = Len(l)
  OBVIOUS
<1> DEFINE T == {j \in 0..n : f[n - j].plain}
<1>2. 0 \in T
  BY <1>1
<1>3. ASSUME NEW j \in 1..n, j - 1 \in T PROVE j \in T
  <2>1. PICK k \in 1..n : k = n - (j - 1) /\ k - 1 = n - j
    OBVIOUS
  <2>2. f[k].plain
    BY <1>3, <2>1
  <2>3. f[k] = Read(f[k - 1], l[k]) /\ f[k - 1] \in Meaning
    BY <1>1, <2>1, ReadingIs
  <2>4. l[k] \in Typed
    BY <1>1
  <2>5. f[k - 1].plain
    BY <2>2, <2>3, <2>4, ReadSteps
  <2>6. QED
    BY <2>1, <2>5
<1> HIDE DEF T
<1>4. \A j \in 0..n : j \in T
  BY <1>2, <1>3, Rounds
<1>5. ASSUME NEW k \in 0..n PROVE f[k].plain
  <2>1. PICK j \in 0..n : n - j = k
    <3>1. n - k \in 0..n /\ n - (n - k) = k
      OBVIOUS
    <3>2. QED
      BY <3>1
  <2>2. f[n - j].plain
    BY <1>4 DEF T
  <2>3. QED
    BY <2>1, <2>2
<1>6. QED
  BY <1>1, <1>5

\* Cuts that grow by a character, and those of nothing.
LEMMA CutGrows ==
  ASSUME NEW S, NEW l \in Seq(S), NEW k \in 1..Len(l), NEW b \in 1..k
  PROVE  Append(SubSeq(l, b, k - 1), l[k]) = SubSeq(l, b, k)
<1>1. PICK n \in Nat : n = Len(l)
  OBVIOUS
<1>2. k \in Nat /\ b \in Nat /\ k >= 1 /\ b >= 1 /\ b <= k /\ k <= n
  BY <1>1
<1> DEFINE u == SubSeq(l, b, k - 1)
           v == SubSeq(l, b, k)
           w == Append(u, l[k])
<1>3. u \in Seq(S) /\ Len(u) = k - b /\ \A i \in 1..(k - b) : u[i] = l[b + i - 1]
  BY <1>1, <1>2
<1>4. v \in Seq(S) /\ Len(v) = k - b + 1 /\ \A i \in 1..(k - b + 1) : v[i] = l[b + i - 1]
  BY <1>1, <1>2
<1>5. l[k] \in S
  BY <1>1, <1>2
<1> HIDE DEF u, v
<1>6. /\ w \in Seq(S) /\ Len(w) = k - b + 1
      /\ \A i \in 1..(k - b) : w[i] = u[i]
      /\ w[k - b + 1] = l[k]
  BY <1>2, <1>3, <1>5
<1> HIDE DEF w
<1>7. ASSUME NEW i \in 1..(k - b + 1) PROVE w[i] = v[i]
  <2>1. i \in 1..(k - b) \/ i = k - b + 1
    BY <1>2
  <2>2. i = k - b + 1 => b + i - 1 = k
    BY <1>2
  <2>3. QED
    BY <1>3, <1>4, <1>6, <2>1, <2>2
<1>8. w = v
  BY <1>2, <1>4, <1>6, <1>7, SeqEqual
<1>9. QED
  BY <1>8 DEF u, v, w

LEMMA CutEmpty ==
  ASSUME NEW S, NEW l \in Seq(S), NEW k \in 1..Len(l)
  PROVE  SubSeq(l, k + 1, k) = <<>> /\ SubSeq(l, k, k - 1) = <<>>
<1>1. k \in Nat
  OBVIOUS
<1>2. QED
  BY <1>1, SubSeqEmpty

\* A word moves from those ahead to those read.
LEMMA WordsShift ==
  ASSUME NEW S, NEW V \in Seq(S), NEW w \in S, NEW X \in Seq(S)
  PROVE  V \o (<<w>> \o X) = Append(V, w) \o X
<1>1. <<w>> \in Seq(S)
  OBVIOUS
<1>2. Append(V, w) = V \o <<w>>
  BY AppendIsConcat
<1>3. V \o (<<w>> \o X) = (V \o <<w>>) \o X
  BY <1>1, ConcatAssociative
<1>4. QED
  BY <1>2, <1>3

LEMMA WordsEnd ==
  ASSUME NEW S, NEW V \in Seq(S), NEW w \in S
  PROVE  V \o (<<w>> \o <<>>) = Append(V, w) /\ V \o <<>> = V
<1>1. <<w>> \in Seq(S)
  OBVIOUS
<1>2. Append(V, w) = V \o <<w>>
  BY AppendIsConcat
<1>3. V \o <<>> = V /\ <<w>> \o <<>> = <<w>>
  BY <1>1, ConcatEmptySeq
<1>4. QED
  BY <1>2, <1>3

\* After k characters without a sign: the words read and those still ahead
\* are the words of the line; and where the word being read began.
Begun(l, W, k, m, b) ==
  /\ W[1] = m.words \o W[b]
  /\ \/ m.in = "word" /\ m.open = SubSeq(l, b, k) /\ l[b] \notin Quotes /\ \A j \in b..k : l[j] \notin Blanks
     \/ m.in \in Quotes /\ m.open = SubSeq(l, b + 1, k) /\ l[b] = m.in /\ \A j \in (b + 1)..k : l[j] # m.in
Between(l, W, k, m) == /\ m.in \in {"gap", "closed"} /\ m.open = <<>> /\ W[1] = m.words \o W[k + 1]
                       /\ m.in = "gap" => (k = 0 /\ m.words = <<>>) \/ (k >= 1 /\ l[k] \in Blanks)
ReadSoFar(l, W, k, m) == /\ m.redir = "none" /\ \A i \in 1..k : l[i] \notin Signs
                         /\ Between(l, W, k, m) \/ \E b \in 1..k : Begun(l, W, k, m, b)

\* The next character of a command leaves the words read and those ahead those of the line.
LEMMA ReadOn ==
  ASSUME NEW l \in Seq(Typed), NEW W, IsWords(W, l, 1), NEW k \in 1..Len(l), NEW m \in Meaning, NEW r,
         ReadSoFar(l, W, k - 1, m), TextStep(m, l[k], r), r.redir = m.redir
  PROVE  ReadSoFar(l, W, k, r)
<1> DEFINE c == l[k]
           S == Seq(Typed)
<1>1. PICK n \in Nat : n = Len(l)
  OBVIOUS
<1>2. k \in Nat /\ k >= 1 /\ k <= n /\ (k - 1) + 1 = k /\ k - 1 \in Nat
  BY <1>1
<1>3. c \in Typed /\ m.words \in Seq(S) /\ m.open \in S
  BY <1>1, <1>2 DEF Meaning
<1>4. \A p \in 1..(n + 2) : W[p] \in Seq(S)
  BY <1>1, WordsSpaced DEF Spaced
<1>5. r.redir = "none" /\ \A i \in 1..(k - 1) : l[i] \notin Signs
  BY DEF ReadSoFar
<1>q. \A q \in Quotes : q \notin Blanks /\ q \notin Signs /\ q \notin {"gap", "closed", "word"}
  BY DEF Quotes, Blanks, Signs
<1>g. m.in = "gap" => m.in \notin Quotes /\ m.in # "word"
  BY DEF Quotes
<1>w. m.in = "word" => m.in \notin Quotes /\ m.in \notin {"gap", "closed"}
  BY DEF Quotes
<1>c. m.in = "closed" => m.in \notin Quotes /\ m.in # "word"
  BY DEF Quotes
<1>s. c \notin Signs => \A i \in 1..k : l[i] \notin Signs
  <2>1. \A i \in 1..k : i \in 1..(k - 1) \/ i = k
    BY <1>2
  <2>2. QED
    BY <1>5, <2>1
<1>b. \A x \in Blanks : x \notin Signs
  BY DEF Blanks, Signs
<1> HIDE DEF c, S
<1>6. CASE m.in \in {"gap", "closed"} /\ c \in Blanks /\ r.in = "gap" /\ r.words = m.words /\ r.open = m.open
  <2>1. W[1] = m.words \o W[k] /\ m.open = <<>>
    BY <1>2, <1>6, <1>q DEF ReadSoFar, Between, Begun
  <2>2. W[k] = W[k + 1]
    BY <1>1, <1>6, BlankSkipped DEF c
  <2>3. Between(l, W, k, r)
    BY <1>2, <1>6, <2>1, <2>2 DEF Between, c
  <2>4. QED
    BY <1>5, <1>6, <1>b, <1>s, <2>3 DEF ReadSoFar
<1>7. CASE m.in = "gap" /\ c \in Quotes /\ r.in = c /\ r.words = m.words /\ r.open = m.open
  <2>1. W[1] = m.words \o W[k] /\ m.open = <<>>
    BY <1>2, <1>7, <1>g DEF ReadSoFar, Between, Begun
  <2>2. SubSeq(l, k + 1, k) = <<>>
    BY <1>1, CutEmpty
  <2>3. \A j \in (k + 1)..k : l[j] # r.in
    BY <1>2
  <2>4. Begun(l, W, k, r, k)
    BY <1>7, <2>1, <2>2, <2>3 DEF Begun, c
  <2>5. k \in 1..k
    BY <1>2
  <2>6. QED
    BY <1>5, <1>7, <1>q, <1>s, <2>4, <2>5 DEF ReadSoFar
<1>8. CASE /\ m.in = "gap" /\ c \notin Blanks \cup Quotes \cup Signs
           /\ r.in = "word" /\ r.words = m.words /\ r.open = Append(m.open, c)
  <2>1. W[1] = m.words \o W[k] /\ m.open = <<>>
    BY <1>2, <1>8, <1>g DEF ReadSoFar, Between, Begun
  <2>2. SubSeq(l, k, k - 1) = <<>>
    BY <1>1, CutEmpty
  <2>3. Append(SubSeq(l, k, k - 1), c) = SubSeq(l, k, k)
    <3>1. k \in 1..k
      BY <1>2
    <3>2. QED
      BY <1>1, <3>1, CutGrows DEF c
  <2>4. \A j \in k..k : l[j] \notin Blanks
    <3>1. \A j \in k..k : j = k
      BY <1>2
    <3>2. QED
      BY <1>8, <3>1 DEF c
  <2>5. Begun(l, W, k, r, k)
    BY <1>8, <2>1, <2>2, <2>3, <2>4 DEF Begun, c
  <2>6. k \in 1..k
    BY <1>2
  <2>7. QED
    BY <1>5, <1>8, <1>s, <2>5, <2>6 DEF ReadSoFar
<1>9. CASE /\ m.in = "word" /\ c \in Blanks
           /\ r.in = "gap" /\ r.words = Append(m.words, m.open) /\ r.open = <<>>
  <2>1. PICK b \in 1..(k - 1) : Begun(l, W, k - 1, m, b)
    BY <1>9, <1>w DEF ReadSoFar, Between
  <2>2. /\ W[1] = m.words \o W[b] /\ m.open = SubSeq(l, b, k - 1) /\ l[b] \notin Quotes
        /\ \A j \in b..(k - 1) : l[j] \notin Blanks
    BY <1>9, <1>w, <2>1 DEF Begun
  <2>3. b \in 1..n /\ k - 1 \in b..n /\ (k - 1) + 2 = k + 1 /\ k + 1 \in 1..(n + 2)
    BY <1>2
  <2>4. W[b] = <<m.open>> \o W[(k - 1) + 2]
    <3>1. PICK a \in b..n : a = k - 1
      BY <2>3
    <3>a. b \in 1..Len(l) /\ a \in b..Len(l)
      BY <1>1, <2>3
    <3>2. (a < n => l[a + 1] \in Blanks) /\ l[b] \notin Quotes
      BY <1>2, <1>9, <2>2, <3>1 DEF c
    <3>3. \A j \in b..a : l[j] \notin Blanks
      BY <2>2, <3>1
    <3>4. W[b] = <<SubSeq(l, b, a)>> \o W[a + 2]
      <4>1. a < Len(l) => l[a + 1] \in Blanks
        BY <1>1, <3>2
      <4> HIDE DEF c, S
      <4>2. QED
        BY <3>2, <3>3, <3>a, <4>1, PlainWord
    <3>5. QED
      BY <2>2, <3>1, <3>4
  <2>5. W[1] = r.words \o W[k + 1]
    <3>0. W[k + 1] \in Seq(S)
      BY <1>4, <2>3
    <3>1. m.words \o (<<m.open>> \o W[k + 1]) = Append(m.words, m.open) \o W[k + 1]
      <4>1. PICK V \in Seq(S), w \in S, X \in Seq(S) : V = m.words /\ w = m.open /\ X = W[k + 1]
        BY <1>3, <3>0
      <4>2. V \o (<<w>> \o X) = Append(V, w) \o X
        BY WordsShift
      <4>3. QED
        BY <4>1, <4>2
    <3>2. QED
      BY <1>9, <2>2, <2>3, <2>4, <3>1
  <2>6. Between(l, W, k, r)
    BY <1>2, <1>9, <2>5 DEF Between, c
  <2>7. QED
    BY <1>5, <1>9, <1>b, <1>s, <2>6 DEF ReadSoFar
<1>10. CASE /\ m.in = "word" /\ c \notin Blanks \cup Quotes \cup Signs
            /\ r.in = "word" /\ r.words = m.words /\ r.open = Append(m.open, c)
  <2>1. PICK b \in 1..(k - 1) : Begun(l, W, k - 1, m, b)
    BY <1>10, <1>w DEF ReadSoFar, Between
  <2>2. /\ W[1] = m.words \o W[b] /\ m.open = SubSeq(l, b, k - 1) /\ l[b] \notin Quotes
        /\ \A j \in b..(k - 1) : l[j] \notin Blanks
    BY <1>10, <1>w, <2>1 DEF Begun
  <2>3. b \in 1..k /\ k \in 1..n
    BY <1>2
  <2>4. r.open = SubSeq(l, b, k)
    <3>1. Append(SubSeq(l, b, k - 1), l[k]) = SubSeq(l, b, k)
      BY <1>1, <2>3, CutGrows
    <3>2. QED
      BY <1>10, <2>2, <3>1 DEF c
  <2>5. \A j \in b..k : l[j] \notin Blanks
    <3>1. \A j \in b..k : j \in b..(k - 1) \/ j = k
      BY <1>2, <2>3
    <3>2. QED
      BY <1>10, <2>2, <3>1 DEF c
  <2>6. Begun(l, W, k, r, b)
    BY <1>10, <2>2, <2>4, <2>5 DEF Begun
  <2>7. QED
    BY <1>5, <1>10, <1>s, <2>3, <2>6 DEF ReadSoFar
<1>11. CASE /\ m.in \in Quotes /\ c = m.in
            /\ r.in = "closed" /\ r.words = Append(m.words, m.open) /\ r.open = <<>>
  <2>1. PICK b \in 1..(k - 1) : Begun(l, W, k - 1, m, b)
    BY <1>11, <1>q DEF ReadSoFar, Between
  <2>2. /\ W[1] = m.words \o W[b] /\ m.open = SubSeq(l, b + 1, k - 1) /\ l[b] = m.in
        /\ \A j \in (b + 1)..(k - 1) : l[j] # m.in
    BY <1>11, <1>q, <2>1 DEF Begun
  <2>3. b \in 1..n /\ k - 1 \in b..n /\ (k - 1) + 2 = k + 1 /\ k + 1 \in 1..(n + 2)
    BY <1>2
  <2>4. W[b] = <<m.open>> \o W[(k - 1) + 2]
    <3>1. PICK a \in b..n : a = k - 1
      BY <2>3
    <3>2. (a < n => l[a + 1] = l[b]) /\ l[b] \in Quotes
      BY <1>2, <1>11, <2>2, <3>1 DEF c
    <3>3. \A j \in (b + 1)..a : l[j] # l[b]
      BY <2>2, <3>1
    <3>4. W[b] = <<SubSeq(l, b + 1, a)>> \o W[a + 2]
      BY <1>1, <2>3, <3>2, <3>3, QuotedWord
    <3>5. QED
      BY <2>2, <3>1, <3>4
  <2>5. W[1] = r.words \o W[k + 1]
    <3>0. W[k + 1] \in Seq(S)
      BY <1>4, <2>3
    <3>1. m.words \o (<<m.open>> \o W[k + 1]) = Append(m.words, m.open) \o W[k + 1]
      <4>1. PICK V \in Seq(S), w \in S, X \in Seq(S) : V = m.words /\ w = m.open /\ X = W[k + 1]
        BY <1>3, <3>0
      <4>2. V \o (<<w>> \o X) = Append(V, w) \o X
        BY WordsShift
      <4>3. QED
        BY <4>1, <4>2
    <3>2. QED
      BY <1>11, <2>2, <2>3, <2>4, <3>1
  <2>6. Between(l, W, k, r)
    BY <1>2, <1>11, <2>5 DEF Between
  <2>7. QED
    BY <1>5, <1>11, <1>q, <1>s, <2>6 DEF ReadSoFar
<1>12. CASE /\ m.in \in Quotes /\ c # m.in /\ c \notin Signs
            /\ r.in = m.in /\ r.words = m.words /\ r.open = Append(m.open, c)
  <2>1. PICK b \in 1..(k - 1) : Begun(l, W, k - 1, m, b)
    BY <1>12, <1>q DEF ReadSoFar, Between
  <2>2. /\ W[1] = m.words \o W[b] /\ m.open = SubSeq(l, b + 1, k - 1) /\ l[b] = m.in
        /\ \A j \in (b + 1)..(k - 1) : l[j] # m.in
    BY <1>12, <1>q, <2>1 DEF Begun
  <2>3. b \in 1..k /\ k \in 1..n /\ b + 1 \in 1..k
    BY <1>2
  <2>4. r.open = SubSeq(l, b + 1, k)
    <3>1. Append(SubSeq(l, b + 1, k - 1), l[k]) = SubSeq(l, b + 1, k)
      BY <1>1, <2>3, CutGrows
    <3>2. QED
      BY <1>12, <2>2, <3>1 DEF c
  <2>5. \A j \in (b + 1)..k : l[j] # r.in
    <3>1. \A j \in (b + 1)..k : j \in (b + 1)..(k - 1) \/ j = k
      BY <1>2, <2>3
    <3>2. QED
      BY <1>12, <2>2, <3>1 DEF c
  <2>6. Begun(l, W, k, r, b)
    BY <1>12, <2>2, <2>4, <2>5 DEF Begun
  <2>7. QED
    BY <1>5, <1>12, <1>s, <2>3, <2>6 DEF ReadSoFar
<1>13. QED
  BY <1>6, <1>7, <1>8, <1>9, <1>10, <1>11, <1>12 DEF TextStep, c

LEMMA Kinds == /\ InText \cap InFile = {} /\ "gap" \in InText
               /\ \A q \in Quotes : q \in InText
BY DEF InText, InFile, Quotes

LEMMA StepKinds ==
  ASSUME NEW m \in Meaning, NEW c, NEW r
  PROVE  (TextStep(m, c, r) => m.in \in InText) /\ (FileStep(m, c, r) => m.in \in InFile /\ r.in \in InFile)
<1>1. TextStep(m, c, r) => m.in \in InText
  BY DEF TextStep, InText
<1>2. FileStep(m, c, r) => m.in \in InFile /\ r.in \in InFile
  BY DEF FileStep, InFile
<1>3. QED
  BY <1>1, <1>2

\* So it is from the first character to the last, or to the sign.
LEMMA TextRead ==
  ASSUME NEW l \in Seq(Typed), NEW W, IsWords(W, l, 1), NEW f, IsReading(f, l), f[Len(l)].plain
  PROVE  \A k \in 0..Len(l) : f[k].in \in InText => ReadSoFar(l, W, k, f[k])
<1>1. PICK n \in Nat : n = Len(l)
  OBVIOUS
<1> DEFINE T == {k \in 0..n : f[k].in \in InText => ReadSoFar(l, W, k, f[k])}
<1>2. 0 \in T
  <2>1. f[0] = Blank0
    BY ReadingIs
  <2>2. /\ f[0].in = "gap" /\ f[0].words = <<>> /\ f[0].open = <<>> /\ f[0].redir = "none"
    BY <2>1 DEF Blank0
  <2>3. W[1] \in Seq(Seq(Typed))
    <3>1. 1 \in 1..(n + 2)
      BY <1>1
    <3>2. QED
      BY <1>1, <3>1, WordsSpaced DEF Spaced
  <2>4. W[1] = f[0].words \o W[0 + 1]
    <3> DEFINE S == Seq(Typed)
    <3>1. W[1] \in Seq(S)
      BY <2>3
    <3> HIDE DEF S
    <3>2. <<>> \o W[1] = W[1]
      BY <3>1, ConcatEmptySeq
    <3>3. QED
      BY <2>2, <3>2
  <2>5. Between(l, W, 0, f[0])
    BY <2>2, <2>4 DEF Between
  <2>6. ReadSoFar(l, W, 0, f[0])
    BY <2>2, <2>5 DEF ReadSoFar
  <2>7. QED
    BY <1>1, <2>6
<1>3. ASSUME NEW k \in 1..n, k - 1 \in T PROVE k \in T
  <2> SUFFICES ASSUME f[k].in \in InText PROVE ReadSoFar(l, W, k, f[k])
    OBVIOUS
  <2>1. f[k] = Read(f[k - 1], l[k]) /\ f[k - 1] \in Meaning /\ f[k].plain
    BY <1>1, ReadingIs, PlainBefore
  <2>2. l[k] \in Typed
    BY <1>1
  <2>3. TextStep(f[k - 1], l[k], f[k]) /\ f[k].redir = f[k - 1].redir
    <3>1. \/ TextStep(f[k - 1], l[k], f[k]) /\ f[k].redir = f[k - 1].redir
          \/ f[k].in = "sign"
          \/ FileStep(f[k - 1], l[k], f[k])
      BY <2>1, <2>2, ReadSteps
    <3>2. f[k].in \notin InFile
      BY Kinds
    <3>3. f[k].in # "sign"
      BY <3>2 DEF InFile
    <3>4. QED
      BY <2>1, <3>1, <3>2, <3>3, StepKinds
  <2>4. f[k - 1].in \in InText
    BY <2>1, <2>3, StepKinds
  <2>5. ReadSoFar(l, W, k - 1, f[k - 1])
    BY <1>3, <2>4
  <2>6. QED
    BY <1>1, <2>1, <2>3, <2>5, ReadOn
<1> HIDE DEF T
<1>4. \A k \in 0..n : k \in T
  BY <1>2, <1>3, Rounds
<1>5. \A k \in 0..n : f[k].in \in InText => ReadSoFar(l, W, k, f[k])
  BY <1>4 DEF T
<1>6. QED
  BY <1>1, <1>5

\* A plain line without a sign has the words that were read.
LEMMA TokensRead ==
  ASSUME NEW l \in Seq(Typed), NEW f, IsReading(f, l), f[Len(l)].plain, f[Len(l)].in \in InText
  PROVE  /\ Tokens(l) = AllWords(f[Len(l)]) /\ f[Len(l)].redir = "none"
         /\ \A i \in 1..Len(l) : l[i] \notin Signs
<1>1. PICK n \in Nat : n = Len(l)
  OBVIOUS
<1>2. PICK W : IsWords(W, l, 1) /\ Tokens(l) = W[1]
  BY TokensAre
<1>3. PICK m : m = f[n]
  OBVIOUS
<1>4. n \in 0..n /\ m \in Meaning
  <2>1. n \in 0..n
    BY <1>1
  <2>2. QED
    BY <1>1, <1>3, <2>1, ReadingIs
<1>5. ReadSoFar(l, W, n, m)
  BY <1>1, <1>2, <1>3, <1>4, TextRead
<1> DEFINE S == Seq(Typed)
<1>6. m.words \in Seq(S) /\ m.open \in S
  BY <1>4 DEF Meaning
<1> HIDE DEF S
<1>7. W[1] = AllWords(m)
  <2>1. CASE Between(l, W, n, m)
    <3>1. W[n + 1] = <<>>
      <4>1. n + 1 \in (n + 1)..(n + 2)
        BY <1>1
      <4>2. QED
        BY <1>1, <1>2, <4>1, NoneAfter
    <3>2. W[1] = m.words \o <<>>
      BY <2>1, <3>1 DEF Between
    <3>3. W[1] = m.words
      BY <1>6, <3>2, WordsEnd
    <3>4. m.in \notin Quotes \cup {"word"}
      BY <2>1 DEF Between, Quotes
    <3>5. QED
      BY <3>3, <3>4 DEF AllWords
  <2>2. ASSUME NEW b \in 1..n, Begun(l, W, n, m, b) PROVE W[1] = AllWords(m)
    <3>1. W[n + 2] = <<>>
      <4>1. n + 2 \in (n + 1)..(n + 2)
        BY <1>1
      <4>2. QED
        BY <1>1, <1>2, <4>1, NoneAfter
    <3>2. n \in b..n /\ ~(n < n)
      BY <1>1
    <3>3. W[b] = <<m.open>> \o W[n + 2]
      <4>1. CASE m.in = "word"
        <5>1. m.open = SubSeq(l, b, n) /\ l[b] \notin Quotes /\ \A j \in b..n : l[j] \notin Blanks
          BY <2>2, <4>1 DEF Begun, Quotes
        <5>2. W[b] = <<SubSeq(l, b, n)>> \o W[n + 2]
          BY <1>1, <1>2, <3>2, <5>1, PlainWord
        <5>3. QED
          BY <5>1, <5>2
      <4>2. CASE m.in # "word"
        <5>1. m.open = SubSeq(l, b + 1, n) /\ l[b] \in Quotes /\ \A j \in (b + 1)..n : l[j] # l[b]
          BY <2>2, <4>2 DEF Begun
        <5>2. W[b] = <<SubSeq(l, b + 1, n)>> \o W[n + 2]
          BY <1>1, <1>2, <3>2, <5>1, QuotedWord
        <5>3. QED
          BY <5>1, <5>2
      <4>3. QED
        BY <4>1, <4>2
    <3>4. m.words \o (<<m.open>> \o <<>>) = Append(m.words, m.open)
      BY <1>6, WordsEnd
    <3>5. W[1] = Append(m.words, m.open)
      BY <2>2, <3>1, <3>3, <3>4 DEF Begun
    <3>6. m.in \in Quotes \cup {"word"}
      BY <2>2 DEF Begun
    <3>7. QED
      BY <3>5, <3>6 DEF AllWords
  <2>3. QED
    BY <1>5, <2>1, <2>2 DEF ReadSoFar
<1>8. QED
  BY <1>1, <1>2, <1>3, <1>5, <1>7 DEF ReadSoFar

-----------------------------------------------------------------------------
\* The redirection.

DoubledAt(l, i) == i < Len(l) /\ l[i] = ">" /\ l[i + 1] = ">"
FileFound(l, st, k, m) ==
  \/ m.in = "to" /\ m.open = <<>> /\ \A j \in st..k : l[j] \in Blanks
  \/ m.in = "file" /\ \E b \in st..k : /\ m.open = SubSeq(l, b, k) /\ l[b] \notin Blanks
                                      /\ \A j \in st..(b - 1) : l[j] \in Blanks
\* One sign or two, and the file after them.
Redirected(l, i, k, m) ==
  \/ k = i /\ m.in = "sign" /\ m.redir = l[i] /\ m.open = <<>>
  \/ k > i /\ ~DoubledAt(l, i) /\ m.redir = l[i] /\ FileFound(l, i + 1, k, m)
  \/ k > i /\ DoubledAt(l, i) /\ m.redir = ">>" /\ FileFound(l, i + 2, k, m)

\* The file named after the sign at i, as far as it is read.
LEMMA FoundOn ==
  ASSUME NEW l \in Seq(Typed), NEW k \in 1..Len(l), NEW st \in 1..k, NEW m, NEW r,
         FileFound(l, st, k - 1, m), FileStep(m, l[k], r)
  PROVE  FileFound(l, st, k, r) /\ r.redir = m.redir
<1>1. PICK n \in Nat : n = Len(l)
  OBVIOUS
<1>2. k \in Nat /\ k >= 1 /\ k <= n /\ st \in Nat /\ st >= 1 /\ st <= k
  BY <1>1
<1>3. m.in \in {"to", "file"}
  BY DEF FileFound
<1>4. CASE m.in = "to" /\ l[k] \in Blanks /\ r.redir = m.redir /\ r.in = "to" /\ r.open = m.open
  <2>1. m.open = <<>> /\ \A j \in st..(k - 1) : l[j] \in Blanks
    BY <1>4 DEF FileFound
  <2>2. \A j \in st..k : j \in st..(k - 1) \/ j = k
    BY <1>2
  <2>3. \A j \in st..k : l[j] \in Blanks
    BY <1>4, <2>1, <2>2
  <2>4. QED
    BY <1>4, <2>1, <2>3 DEF FileFound
<1>5. CASE /\ m.in = "to" /\ l[k] \notin Blanks \cup Quotes \cup Signs
           /\ r.redir = m.redir /\ r.in = "file" /\ r.open = Append(m.open, l[k])
  <2>1. m.open = <<>> /\ \A j \in st..(k - 1) : l[j] \in Blanks
    BY <1>5 DEF FileFound
  <2>2. r.open = SubSeq(l, k, k)
    <3>1. SubSeq(l, k, k - 1) = <<>>
      BY <1>1, CutEmpty
    <3>2. k \in 1..k
      BY <1>2
    <3>3. Append(SubSeq(l, k, k - 1), l[k]) = SubSeq(l, k, k)
      BY <3>2, CutGrows
    <3>4. QED
      BY <1>5, <2>1, <3>1, <3>3
  <2>3. k \in st..k
    BY <1>2
  <2>4. QED
    BY <1>5, <2>1, <2>2, <2>3 DEF FileFound
<1>6. CASE /\ m.in = "file" /\ l[k] \notin Blanks \cup Quotes \cup Signs
           /\ r.redir = m.redir /\ r.in = "file" /\ r.open = Append(m.open, l[k])
  <2>1. PICK b \in st..(k - 1) : /\ m.open = SubSeq(l, b, k - 1) /\ l[b] \notin Blanks
                                 /\ \A j \in st..(b - 1) : l[j] \in Blanks
    BY <1>6 DEF FileFound
  <2>2. b \in st..k /\ b \in 1..k
    BY <1>2
  <2>3. Append(SubSeq(l, b, k - 1), l[k]) = SubSeq(l, b, k)
    BY <2>2, CutGrows
  <2>4. QED
    BY <1>6, <2>1, <2>2, <2>3 DEF FileFound
<1>7. QED
  BY <1>3, <1>4, <1>5, <1>6 DEF FileStep

\* The next character after the sign.
LEMMA FileOn ==
  ASSUME NEW l \in Seq(Typed), NEW k \in 1..Len(l), NEW i \in 1..(k - 1), NEW m, NEW r, l[i] \in Signs,
         Redirected(l, i, k - 1, m), FileStep(m, l[k], r)
  PROVE  Redirected(l, i, k, r)
<1>1. PICK n \in Nat : n = Len(l)
  OBVIOUS
<1>2. k \in Nat /\ k >= 1 /\ k <= n /\ i \in Nat /\ i >= 1 /\ i <= k - 1 /\ k > i /\ i < n
  BY <1>1
<1>a. \A x \in Blanks \cup Signs : x \in Blanks => x # ">"
  BY DEF Blanks
<1>b. \A x : x \notin Signs => x # ">"
  BY DEF Signs
<1>3. CASE k - 1 = i /\ m.in = "sign" /\ m.redir = l[i] /\ m.open = <<>>
  <2>1. k = i + 1
    BY <1>2, <1>3
  <2>2. CASE l[k] = ">" /\ m.redir = ">" /\ r.redir = ">>" /\ r.in = "to" /\ r.open = m.open
    <3>1. DoubledAt(l, i)
      BY <1>1, <1>2, <1>3, <2>1, <2>2 DEF DoubledAt
    <3>2. \A j \in (i + 2)..k : FALSE
      BY <1>2, <2>1
    <3>3. FileFound(l, i + 2, k, r)
      BY <1>3, <2>2, <3>2 DEF FileFound
    <3>4. QED
      BY <1>2, <2>2, <3>1, <3>3 DEF Redirected
  <2>3. CASE l[k] \in Blanks /\ r.redir = m.redir /\ r.in = "to" /\ r.open = m.open
    <3>1. ~DoubledAt(l, i)
      BY <1>a, <2>1, <2>3 DEF DoubledAt
    <3>2. \A j \in (i + 1)..k : j = k
      BY <1>2, <2>1
    <3>3. FileFound(l, i + 1, k, r)
      BY <1>3, <2>3, <3>2 DEF FileFound
    <3>4. QED
      BY <1>2, <1>3, <2>3, <3>1, <3>3 DEF Redirected
  <2>4. CASE /\ l[k] \notin Blanks \cup Quotes \cup Signs
             /\ r.redir = m.redir /\ r.in = "file" /\ r.open = Append(m.open, l[k])
    <3>1. ~DoubledAt(l, i)
      BY <1>b, <2>1, <2>4 DEF DoubledAt
    <3>2. r.open = SubSeq(l, k, k)
      <4>1. SubSeq(l, k, k - 1) = <<>>
        BY <1>1, CutEmpty
      <4>2. k \in 1..k
        BY <1>2
      <4>3. Append(SubSeq(l, k, k - 1), l[k]) = SubSeq(l, k, k)
        BY <4>2, CutGrows
      <4>4. QED
        BY <1>3, <2>4, <4>1, <4>3
    <3>3. k \in (i + 1)..k /\ \A j \in (i + 1)..(k - 1) : FALSE
      BY <1>2, <2>1
    <3>4. FileFound(l, i + 1, k, r)
      BY <2>4, <3>2, <3>3 DEF FileFound
    <3>5. QED
      BY <1>2, <1>3, <2>4, <3>1, <3>4 DEF Redirected
  <2>5. QED
    BY <1>3, <2>2, <2>3, <2>4 DEF FileStep
<1>4. CASE k - 1 > i /\ ~DoubledAt(l, i) /\ m.redir = l[i] /\ FileFound(l, i + 1, k - 1, m)
  <2>1. PICK st \in 1..k : st = i + 1 /\ FileFound(l, st, k - 1, m)
    <3>1. i + 1 \in 1..k
      BY <1>2
    <3>2. QED
      BY <1>4, <3>1
  <2>2. FileFound(l, st, k, r) /\ r.redir = m.redir
    BY <2>1, FoundOn
  <2>3. QED
    BY <1>2, <1>4, <2>1, <2>2 DEF Redirected
<1>5. CASE k - 1 > i /\ DoubledAt(l, i) /\ m.redir = ">>" /\ FileFound(l, i + 2, k - 1, m)
  <2>1. i + 2 \in 1..k
    BY <1>2, <1>5
  <2>2. FileFound(l, i + 2, k, r) /\ r.redir = m.redir
    BY <1>5, <2>1, FoundOn
  <2>3. QED
    BY <1>2, <1>5, <2>2 DEF Redirected
<1>6. QED
  BY <1>3, <1>4, <1>5 DEF Redirected

\* After a sign: where it stands, what was read before it, and its file.
AfterSign(l, f, k, i) ==
  /\ l[i] \in Signs /\ \A j \in 1..(i - 1) : l[j] \notin Signs
  /\ l[i - 1] \in Blanks /\ f[i - 1].in = "gap" /\ f[k].words = f[i - 1].words
  /\ Redirected(l, i, k, f[k])

\* So every line with a redirection has one sign that counts, after a command and a blank.
LEMMA FileRead ==
  ASSUME NEW l \in Seq(Typed), NEW f, IsReading(f, l), f[Len(l)].plain
  PROVE  \A k \in 0..Len(l) : f[k].in \in InFile => \E i \in 2..k : AfterSign(l, f, k, i)
<1>1. PICK n \in Nat : n = Len(l)
  OBVIOUS
<1>2. PICK W : IsWords(W, l, 1)
  BY TokensAre
<1> DEFINE T == {k \in 0..n : f[k].in \in InFile => \E i \in 2..k : AfterSign(l, f, k, i)}
<1>3. 0 \in T
  <2>1. f[0].in = "gap"
    BY ReadingIs DEF Blank0
  <2>2. f[0].in \notin InFile
    BY <2>1, Kinds
  <2>3. QED
    BY <1>1, <2>2
<1>4. ASSUME NEW k \in 1..n, k - 1 \in T PROVE k \in T
  <2> SUFFICES ASSUME f[k].in \in InFile PROVE \E i \in 2..k : AfterSign(l, f, k, i)
    OBVIOUS
  <2>1. f[k] = Read(f[k - 1], l[k]) /\ f[k - 1] \in Meaning /\ f[k].plain
    BY <1>1, ReadingIs, PlainBefore
  <2>2. l[k] \in Typed
    BY <1>1
  <2>3. \/ TextStep(f[k - 1], l[k], f[k])
        \/ /\ f[k - 1].in = "gap" /\ l[k] \in Signs /\ f[k - 1].words # <<>>
           /\ f[k].in = "sign" /\ f[k].redir = l[k]
           /\ f[k].words = f[k - 1].words /\ f[k].open = f[k - 1].open
        \/ FileStep(f[k - 1], l[k], f[k]) /\ f[k].words = f[k - 1].words
    BY <2>1, <2>2, ReadSteps
  <2>4. ~TextStep(f[k - 1], l[k], f[k])
    <3>1. TextStep(f[k - 1], l[k], f[k]) => f[k].in \in InText
      BY DEF TextStep, InText
    <3>2. QED
      BY <3>1, Kinds
  <2>5. CASE /\ f[k - 1].in = "gap" /\ l[k] \in Signs /\ f[k - 1].words # <<>>
             /\ f[k].in = "sign" /\ f[k].redir = l[k] /\ f[k].words = f[k - 1].words
             /\ f[k].open = f[k - 1].open
    <3>1. ReadSoFar(l, W, k - 1, f[k - 1])
      <4>1. k - 1 \in 0..n
        OBVIOUS
      <4>2. QED
        BY <1>1, <1>2, <2>5, <4>1, Kinds, TextRead
    <3>2. Between(l, W, k - 1, f[k - 1])
      BY <2>5, <3>1 DEF ReadSoFar, Begun, Quotes
    <3>3. f[k - 1].open = <<>> /\ k - 1 >= 1 /\ l[k - 1] \in Blanks
      BY <2>5, <3>2 DEF Between
    <3>4. Redirected(l, k, k, f[k])
      BY <2>5, <3>3 DEF Redirected
    <3>5. \A j \in 1..(k - 1) : l[j] \notin Signs
      BY <3>1 DEF ReadSoFar
    <3>6. AfterSign(l, f, k, k)
      BY <2>5, <3>3, <3>4, <3>5 DEF AfterSign
    <3>7. k \in 2..k
      BY <3>3
    <3>8. QED
      BY <3>6, <3>7
  <2>6. CASE FileStep(f[k - 1], l[k], f[k]) /\ f[k].words = f[k - 1].words
    <3>1. f[k - 1].in \in InFile
      BY <2>1, <2>6, StepKinds
    <3>2. PICK i \in 2..(k - 1) : AfterSign(l, f, k - 1, i)
      BY <1>4, <3>1
    <3>3. i \in 1..(k - 1) /\ i \in 2..k
      OBVIOUS
    <3>4. l[i] \in Signs /\ Redirected(l, i, k - 1, f[k - 1])
      BY <3>2 DEF AfterSign
    <3>5. Redirected(l, i, k, f[k])
      BY <1>1, <2>6, <3>3, <3>4, FileOn
    <3>6. AfterSign(l, f, k, i)
      BY <2>6, <3>2, <3>5 DEF AfterSign
    <3>7. QED
      BY <3>3, <3>6
  <2>7. QED
    BY <2>3, <2>4, <2>5, <2>6
<1> HIDE DEF T
<1>5. \A k \in 0..n : k \in T
  BY <1>3, <1>4, Rounds
<1>6. \A k \in 0..n : f[k].in \in InFile => \E i \in 2..k : AfterSign(l, f, k, i)
  BY <1>5 DEF T
<1>7. QED
  BY <1>1, <1>6

\* The place of the sign, the blank before it, and the command.
LEMMA SignFound ==
  ASSUME NEW l \in Seq(Typed), NEW i \in 2..Len(l), l[i] \in Signs, \A j \in 1..(i - 1) : l[j] \notin Signs,
         l[i - 1] \in Blanks
  PROVE  SignAt(l) = i /\ LastBlank(l) = i - 1 /\ CommandPart(l) = SubSeq(l, 1, i - 2)
<1>1. PICK n \in Nat : n = Len(l)
  OBVIOUS
<1>2. i \in Nat /\ i >= 2 /\ i <= n /\ i \in 1..(n + 1) /\ i >= 1 /\ 1 \in Nat \ {0}
  BY <1>1
<1>3. SignAt(l) = i
  <2>1. First(l, 1, Signs) = i
    BY <1>1, <1>2, FirstAt
  <2>2. QED
    BY <2>1 DEF SignAt
<1>4. LastBlank(l) = i - 1
  <2> DEFINE at == {j \in 1..(i - 1) : l[j] = " "}
  <2>1. LastBlank(l) = IF at = {} THEN 0 ELSE CHOOSE j \in at : \A x \in at : j >= x
    BY <1>3 DEF LastBlank
  <2>2. i - 1 \in at /\ \A x \in at : x \in Nat /\ x <= i - 1
    <3>1. l[i - 1] = " "
      BY DEF Blanks
    <3>2. i - 1 \in 1..(i - 1)
      BY <1>2
    <3>3. i - 1 \in at
      BY <3>1, <3>2
    <3>4. \A x \in at : x \in 1..(i - 1)
      OBVIOUS
    <3> HIDE DEF at
    <3>5. QED
      BY <1>2, <3>3, <3>4
  <2> HIDE DEF at
  <2>3. PICK v : v = CHOOSE j \in at : \A x \in at : j >= x
    OBVIOUS
  <2>4. v \in at /\ \A x \in at : v >= x
    <3>1. \E j \in at : \A x \in at : j >= x
      <4>1. \A x \in at : i - 1 >= x
        BY <1>2, <2>2
      <4>2. QED
        BY <2>2, <4>1
    <3>2. QED
      BY <2>3, <3>1
  <2>5. v = i - 1
    BY <1>2, <2>2, <2>4
  <2>6. QED
    BY <2>1, <2>2, <2>3, <2>5
<1>5. CommandPart(l) = SubSeq(l, 1, i - 2)
  <2>1. ~(i > Len(l)) /\ i - 1 # 0 /\ i - 1 - 1 = i - 2
    BY <1>1, <1>2
  <2>2. CommandPart(l) = SubSeq(l, 1, i - 1 - 1)
    BY <1>3, <1>4, <2>1 DEF CommandPart
  <2>3. QED
    BY <2>1, <2>2
<1>6. QED
  BY <1>3, <1>4, <1>5

\* What was read before the sign is what would be read of the command alone.
LEMMA CommandRead ==
  ASSUME NEW l \in Seq(Typed), NEW f, IsReading(f, l), f[Len(l)].plain, NEW i \in 2..Len(l),
         l[i - 1] \in Blanks, f[i - 1].in = "gap"
  PROVE  Tokens(SubSeq(l, 1, i - 2)) = f[i - 1].words
<1>1. PICK n \in Nat : n = Len(l)
  OBVIOUS
<1>2. PICK e \in Nat : e = i - 2 /\ e + 1 = i - 1 /\ e <= n /\ e + 1 \in 1..n /\ (e + 1) - 1 = e
  BY <1>1
<1> DEFINE c == SubSeq(l, 1, e)
           g == [k \in 0..e |-> f[k]]
<1>3. c \in Seq(Typed) /\ Len(c) = e /\ \A k \in 1..e : c[k] = l[k]
  BY <1>1, <1>2
<1> HIDE DEF c
<1>4. IsReading(g, c)
  <2>1. ASSUME NEW k \in 0..e PROVE g[k] = IF k = 0 THEN Blank0 ELSE Read(g[k - 1], c[k])
    <3>1. CASE k = 0
      <4>1. f[0] = Blank0
        BY ReadingIs
      <4>2. QED
        BY <3>1, <4>1
    <3>2. CASE k # 0
      <4>1. k \in 1..n /\ k \in 1..e /\ k - 1 \in 0..e /\ k \in 0..e
        BY <1>2, <3>2
      <4>2. f[k] = Read(f[k - 1], l[k])
        BY <1>1, <4>1, ReadingIs
      <4>3. g[k] = f[k] /\ g[k - 1] = f[k - 1] /\ c[k] = l[k]
        BY <1>3, <4>1
      <4> HIDE DEF g
      <4>4. QED
        BY <3>2, <4>2, <4>3
    <3>3. QED
      BY <3>1, <3>2
  <2>2. g = [k \in 0..e |-> g[k]]
    OBVIOUS
  <2> HIDE DEF g
  <2>3. [k \in 0..e |-> g[k]] = [k \in 0..e |-> IF k = 0 THEN Blank0 ELSE Read(g[k - 1], c[k])]
    BY <2>1
  <2>4. g = [k \in 0..e |-> IF k = 0 THEN Blank0 ELSE Read(g[k - 1], c[k])]
    BY <2>2, <2>3
  <2>5. QED
    BY <1>3, <2>4 DEF IsReading
<1>5. g[e] = f[e] /\ e \in 0..n
  BY <1>2
<1> HIDE DEF g
<1>6. f[e + 1] = Read(f[e], l[e + 1]) /\ f[e] \in Meaning /\ f[e + 1].plain /\ f[e].plain
  <2>1. f[e] \in Meaning /\ f[e].plain
    BY <1>1, <1>5, ReadingIs, PlainBefore
  <2>2. e + 1 \in 0..n
    BY <1>2
  <2>3. f[e + 1].plain
    BY <1>1, <2>2, PlainBefore
  <2>4. f[e + 1] = Read(f[(e + 1) - 1], l[e + 1])
    BY <1>1, <1>2, ReadingIs
  <2>5. QED
    BY <1>2, <2>1, <2>3, <2>4
<1>7. l[e + 1] \in Typed /\ l[e + 1] \in Blanks /\ f[e + 1].in = "gap"
  BY <1>1, <1>2
<1>8. TextStep(f[e], l[e + 1], f[e + 1])
  <2>1. l[e + 1] \notin Signs
    BY <1>7 DEF Blanks, Signs
  <2>2. ~FileStep(f[e], l[e + 1], f[e + 1])
    BY <1>7 DEF FileStep
  <2>3. QED
    BY <1>6, <1>7, <2>1, <2>2, ReadSteps
<1>9. f[e].in \in InText /\ f[e + 1].words = AllWords(f[e])
  <2>1. f[e].in \in InText
    BY <1>6, <1>8, StepKinds
  <2>2. l[e + 1] \notin Quotes
    BY <1>7 DEF Blanks, Quotes
  <2>3. \/ f[e].in \in {"gap", "closed"} /\ f[e + 1].words = f[e].words
        \/ f[e].in = "word" /\ f[e + 1].words = Append(f[e].words, f[e].open)
    BY <1>7, <1>8, <2>2 DEF TextStep, Quotes
  <2>4. QED
    BY <2>1, <2>3 DEF AllWords, Quotes
<1>10. Tokens(c) = AllWords(g[e])
  BY <1>3, <1>4, <1>5, <1>6, <1>9, TokensRead
<1>11. QED
  BY <1>2, <1>5, <1>9, <1>10 DEF c

\* The file the parser finds.
LEMMA FileIs ==
  ASSUME NEW l \in Seq(Typed), NEW st \in 1..(Len(l) + 2), NEW m, FileFound(l, st, Len(l), m)
  PROVE  SubSeq(l, NonBlank(l, st), Len(l)) = m.open
<1>1. PICK n \in Nat : n = Len(l)
  OBVIOUS
<1>2. CASE m.in = "to" /\ m.open = <<>> /\ \A j \in st..n : l[j] \in Blanks
  <2>1. n + 1 \in 1..(n + 1) /\ ~(n + 1 <= n)
    BY <1>1
  <2>2. \A j \in st..((n + 1) - 1) : j <= n => l[j] \in Blanks
    BY <1>1, <1>2
  <2>3. NonBlank(l, st) = n + 1
    BY <1>1, <2>1, <2>2, NonBlankAt
  <2>4. SubSeq(l, n + 1, n) = <<>>
    BY <1>1, SubSeqEmpty
  <2>5. QED
    BY <1>1, <1>2, <2>3, <2>4
<1>3. ASSUME NEW b \in st..n, m.open = SubSeq(l, b, n), l[b] \notin Blanks,
             \A j \in st..(b - 1) : l[j] \in Blanks
      PROVE  SubSeq(l, NonBlank(l, st), n) = m.open
  <2>1. b \in 1..(n + 1) /\ b >= st
    BY <1>1
  <2>2. NonBlank(l, st) = b
    BY <1>1, <1>3, <2>1, NonBlankAt
  <2>3. QED
    BY <1>3, <2>2
<1>4. QED
  BY <1>1, <1>2, <1>3 DEF FileFound

\* The parser and the reader agree on every line whose meaning is plain.
LEMMA PlainParsed ==
  ASSUME NEW l \in Seq(Typed), Meant(l).plain
  PROVE  Parse(l) = Meant(l).cmd
<1>1. PICK n \in Nat : n = Len(l)
  OBVIOUS
<1>2. PICK f : IsReading(f, l) /\ Meant(l) = MeantBy(f[Len(l)])
  BY <1>1, MeantIs
<1>3. PICK m : m = f[n]
  OBVIOUS
<1>4. n \in 0..n /\ m \in Meaning
  <2>1. n \in 0..n
    BY <1>1
  <2>2. QED
    BY <1>1, <1>2, <1>3, <2>1, ReadingIs
<1>5. m.plain
  BY <1>1, <1>2, <1>3 DEF MeantBy
<1> DEFINE short(words) == SubSeq(words, 1, IF Len(words) < MaxArgs THEN Len(words) ELSE MaxArgs)
           none == <<>>
<1>6. Meant(l).cmd = [argv |-> short(AllWords(m)), redir |-> m.redir,
                      file |-> IF m.redir = "none" THEN none ELSE m.open]
  BY <1>1, <1>2, <1>3 DEF MeantBy
<1>7. Parse(l) = [argv |-> short(Tokens(CommandPart(l))),
                  redir |-> IF ~(SignAt(l) <= n) THEN "none" ELSE IF Doubled(l) THEN ">>" ELSE l[SignAt(l)],
                  file |-> IF SignAt(l) <= n THEN Target(l) ELSE none]
  BY <1>1 DEF Parse
<1> HIDE DEF short, none
<1>8. CASE m.in \in InText
  <2>1. /\ Tokens(l) = AllWords(m) /\ m.redir = "none"
        /\ \A i \in 1..n : l[i] \notin Signs
    BY <1>1, <1>2, <1>3, <1>5, <1>8, TokensRead
  <2>2. SignAt(l) = n + 1
    <3>1. n + 1 \in 1..(n + 1) /\ ~(n + 1 <= n) /\ 1 \in Nat \ {0} /\ (n + 1) - 1 = n
      BY <1>1
    <3>2. First(l, 1, Signs) = n + 1
      BY <1>1, <2>1, <3>1, FirstAt
    <3>3. QED
      BY <3>2 DEF SignAt
  <2>3. ~(SignAt(l) <= n) /\ SignAt(l) > n
    BY <2>2
  <2>4. CommandPart(l) = l
    BY <1>1, <2>3 DEF CommandPart
  <2>5. QED
    BY <1>6, <1>7, <2>1, <2>3, <2>4
<1>9. CASE m.in \in InFile
  <2>1. PICK i \in 2..n : AfterSign(l, f, n, i)
    BY <1>1, <1>2, <1>3, <1>4, <1>5, <1>9, FileRead
  <2>2. /\ l[i] \in Signs /\ \A j \in 1..(i - 1) : l[j] \notin Signs
        /\ l[i - 1] \in Blanks /\ f[i - 1].in = "gap" /\ m.words = f[i - 1].words
        /\ Redirected(l, i, n, m)
    BY <1>3, <2>1 DEF AfterSign
  <2>3. SignAt(l) = i /\ CommandPart(l) = SubSeq(l, 1, i - 2)
    BY <1>1, <2>2, SignFound
  <2>4. SignAt(l) <= n
    BY <2>3
  <2>5. Tokens(CommandPart(l)) = AllWords(m)
    <3>1. Tokens(SubSeq(l, 1, i - 2)) = m.words
      BY <1>1, <1>2, <1>3, <1>5, <2>2, CommandRead
    <3>2. m.in \notin Quotes \cup {"word"}
      BY <1>9, Kinds DEF InFile
    <3>3. QED
      BY <2>3, <3>1, <3>2 DEF AllWords
  <2>6. Doubled(l) <=> DoubledAt(l, i)
    BY <2>3 DEF Doubled, DoubledAt
  <2>7. m.redir = IF Doubled(l) THEN ">>" ELSE l[i]
    <3>1. i = n => ~DoubledAt(l, i)
      BY <1>1 DEF DoubledAt
    <3>2. QED
      BY <2>2, <2>6, <3>1 DEF Redirected
  <2>8. m.redir # "none"
    BY <2>2, <2>7 DEF Signs
  <2>9. Target(l) = m.open
    <3>1. CASE i = n /\ m.in = "sign" /\ m.redir = l[i] /\ m.open = <<>>
      <4>1. ~Doubled(l)
        BY <1>1, <2>6, <3>1 DEF DoubledAt
      <4>2. Target(l) = SubSeq(l, NonBlank(l, i + 1), n)
        BY <1>1, <2>3, <4>1 DEF Target
      <4>3. i + 1 \in 1..(n + 2) /\ n + 1 \in 1..(n + 1) /\ ~(n + 1 <= n) /\ i + 1 = n + 1
        BY <1>1, <3>1
      <4>4. \A j \in (i + 1)..((n + 1) - 1) : j <= n => l[j] \in Blanks
        BY <1>1, <3>1
      <4>5. NonBlank(l, i + 1) = n + 1
        BY <1>1, <4>3, <4>4, NonBlankAt
      <4>6. SubSeq(l, n + 1, n) = <<>>
        BY <1>1, SubSeqEmpty
      <4>7. QED
        BY <3>1, <4>2, <4>5, <4>6
    <3>2. CASE ~DoubledAt(l, i) /\ FileFound(l, i + 1, n, m)
      <4>1. PICK st \in 1..(n + 2) : st = i + 1
        BY <1>1
      <4>2. Target(l) = SubSeq(l, NonBlank(l, st), n)
        BY <1>1, <2>3, <2>6, <3>2, <4>1 DEF Target
      <4>3. FileFound(l, st, n, m)
        BY <3>2, <4>1
      <4>4. QED
        BY <1>1, <4>2, <4>3, FileIs
    <3>3. CASE DoubledAt(l, i) /\ FileFound(l, i + 2, n, m)
      <4>1. PICK st \in 1..(n + 2) : st = i + 2
        BY <1>1
      <4>2. Target(l) = SubSeq(l, NonBlank(l, st), n)
        BY <1>1, <2>3, <2>6, <3>3, <4>1 DEF Target
      <4>3. FileFound(l, st, n, m)
        BY <3>3, <4>1
      <4>4. QED
        BY <1>1, <4>2, <4>3, FileIs
    <3>4. QED
      BY <2>2, <3>1, <3>2, <3>3 DEF Redirected
  <2>10. QED
    BY <1>6, <1>7, <2>3, <2>4, <2>5, <2>7, <2>8, <2>9
<1>10. QED
  BY <1>4, <1>8, <1>9 DEF Meaning

\* Whatever line was typed, of any length: if its meaning is plain, what runs is
\* what was meant, the words with their quotes taken off, the redirection, and
\* its file.
THEOREM ParsesTrue == SpecShell => []ParsesAsWritten
<1>1. ShellInv => ParsesAsWritten
  BY PlainParsed DEF ShellInv, ParsesAsWritten
<1>2. QED
  BY <1>1, ShellAlways, PTL

-----------------------------------------------------------------------------
\* The line on the screen.

LineShown == phase = "read" /\ start # NoCell =>
  /\ Len(line) <= screen.cx
  /\ screen.cy * Width + screen.cx = start + Len(line)
  /\ \A i \in 1..Len(line) : screen.cell[start + i - 1] = line[i]

\* A typed character is drawn at the cursor, which moves right.
LEMMA TypedIs ==
  ASSUME NEW s \in Screen, NEW c \in Typed, c # "tab", s.cx + 1 < Width
  PROVE  Putc(s, c) = [cell |-> Draw(s, c), cx |-> s.cx + 1, cy |-> s.cy]
<1>1. c \notin Control
  BY LineAssumption DEF Control
<1>2. Putc(s, c) = Show(s, c)
  BY <1>1 DEF Putc, Control
<1>3. ~(s.cx + 1 >= Width)
  BY Sizes DEF Screen
<1>4. QED
  BY <1>2, <1>3 DEF Show

\* A backspace blanks the cell left of the cursor.
LEMMA BackIs ==
  ASSUME NEW s \in Screen, s.cx # 0
  PROVE  LET b == Putc(s, "bs")
         IN  /\ b \in Screen /\ b.cx = s.cx - 1 /\ b.cy = s.cy
             /\ \A k \in Cells : k # s.cy * Width + (s.cx - 1) => b.cell[k] = s.cell[k]
<1> DEFINE b == Putc(s, "bs")
           t == [s EXCEPT !.cx = s.cx - 1]
<1>1. b \in Screen
  BY PutcStaysOnScreen DEF Control
<1>2. b = Back(s)
  BY DEF Putc
<1>3. t \in Screen /\ t.cx = s.cx - 1 /\ t.cy = s.cy /\ t.cell = s.cell
  BY Sizes DEF Screen
<1> HIDE DEF t
<1>4. b = [t EXCEPT !.cell = Draw(t, Blank)]
  BY <1>2 DEF Back, t
<1> HIDE DEF b
<1>5. b.cx = t.cx /\ b.cy = t.cy /\ b.cell = Draw(t, Blank)
  BY <1>3, <1>4 DEF Screen
<1>6. \A k \in Cells : k # t.cy * Width + t.cx => Draw(t, Blank)[k] = t.cell[k]
  BY <1>3, DrawElsewhere
<1>7. QED
  BY <1>1, <1>3, <1>5, <1>6 DEF b

\* What the echo of a correction prints.
LEMMA EraseSteps ==
  ASSUME NEW s
  PROVE  PutAll(s, EraseEcho) = Putc(Putc(Putc(s, "bs"), Blank), "bs")
<1>1. EraseEcho[1] = "bs" /\ EraseEcho[2] = Blank /\ EraseEcho[3] = "bs"
  BY DEF EraseEcho, Blank
<1>2. Len(EraseEcho) = 3
  BY DEF EraseEcho
<1>3. PICK f : /\ f[0] = s /\ PutAll(s, EraseEcho) = f[3]
               /\ \A n \in 1..3 : f[n] = Putc(f[n - 1], EraseEcho[n])
  <2>1. 3 \in Nat
    OBVIOUS
  <2>2. Len(EraseEcho) \in Nat
    BY <1>2, <2>1
  <2>3. QED
    BY <1>2, <2>2, PutAllIs
<1>4. f[1] = Putc(s, EraseEcho[1]) /\ f[2] = Putc(f[1], EraseEcho[2]) /\ f[3] = Putc(f[2], EraseEcho[3])
  <2>1. 1 \in 1..3 /\ 2 \in 1..3 /\ 3 \in 1..3 /\ 1 - 1 = 0 /\ 2 - 1 = 1 /\ 3 - 1 = 2
    OBVIOUS
  <2>2. QED
    BY <1>3, <2>1
<1>5. QED
  BY <1>1, <1>3, <1>4

\* The echo of a correction takes one character away.
LEMMA EraseIs ==
  ASSUME NEW s \in Screen, s.cx # 0
  PROVE  LET e == PutAll(s, EraseEcho)
         IN  /\ e.cx = s.cx - 1 /\ e.cy = s.cy
             /\ \A k \in Cells : k # s.cy * Width + (s.cx - 1) => e.cell[k] = s.cell[k]
<1>1. PICK a, b, e : /\ a = Putc(s, "bs") /\ b = Putc(a, Blank) /\ e = Putc(b, "bs")
                     /\ PutAll(s, EraseEcho) = e
  BY EraseSteps
<1> DEFINE at == s.cy * Width + (s.cx - 1)
<1>2. s.cx \in 0..(Width - 1) /\ s.cx \in Nat /\ Width \in Nat
  BY Sizes DEF Screen
<1>3. /\ a \in Screen /\ a.cx = s.cx - 1 /\ a.cy = s.cy
      /\ \A k \in Cells : k # at => a.cell[k] = s.cell[k]
  BY <1>1, BackIs
<1>4. b \in Screen
  BY <1>1, <1>3, ScreenAssumption, PutcStaysOnScreen
<1>5. b = [cell |-> Draw(a, Blank), cx |-> a.cx + 1, cy |-> a.cy]
  <2>1. b = Show(a, Blank)
    BY <1>1 DEF Putc, Blank
  <2>2. ~(a.cx + 1 >= Width)
    BY <1>2, <1>3
  <2>3. QED
    BY <2>1, <2>2 DEF Show
<1>6. b.cx = a.cx + 1 /\ b.cy = a.cy /\ b.cell = Draw(a, Blank)
  BY <1>5
<1>7. b.cx = s.cx /\ b.cy = s.cy
  BY <1>2, <1>3, <1>6
<1>8. a.cy * Width + a.cx = at
  BY <1>3
<1>9. ASSUME NEW k \in Cells, k # at PROVE b.cell[k] = a.cell[k]
  <2>1. Draw(a, Blank)[k] = a.cell[k]
    BY <1>3, <1>8, <1>9, DrawElsewhere
  <2>2. QED
    BY <1>6, <2>1
<1>10. b.cy * Width + (b.cx - 1) = at
  BY <1>7
<1>11. /\ e.cx = b.cx - 1 /\ e.cy = b.cy
       /\ \A k \in Cells : k # b.cy * Width + (b.cx - 1) => e.cell[k] = b.cell[k]
  <2>1. b.cx # 0
    BY <1>7
  <2>2. QED
    BY <1>1, <1>4, <2>1, BackIs
<1> HIDE DEF at
<1>12. \A k \in Cells : k # at => e.cell[k] = s.cell[k]
  BY <1>3, <1>9, <1>10, <1>11
<1>13. e.cx = s.cx - 1 /\ e.cy = s.cy
  BY <1>7, <1>11
<1>14. QED
  BY <1>1, <1>12, <1>13 DEF at

LEMMA LineShownInductive ==
  ASSUME ShellInv, ShellInv', LineShown, [NextShell]_shellVars
  PROVE  LineShown'
<1> SUFFICES ASSUME phase' = "read", start' # NoCell
             PROVE  /\ Len(line') <= screen'.cx
                    /\ screen'.cy * Width + screen'.cx = start' + Len(line')
                    /\ \A i \in 1..Len(line') : screen'.cell[start' + i - 1] = line'[i]
  BY DEF LineShown
<1>1. CASE ShowPrompt
  <2>1. Len(line') = 0
    BY <1>1 DEF ShowPrompt, ShellInv
  <2>2. start' = screen'.cy * Width + screen'.cx
    BY <1>1 DEF ShowPrompt
  <2>3. screen'.cy * Width \in Nat /\ screen'.cx \in Nat
    BY CursorCell DEF ShellInv
  <2>4. QED
    BY <2>1, <2>2, <2>3
<1>2. ASSUME NEW c \in Typed, TypeChar(c)
      PROVE  /\ Len(line') <= screen'.cx
             /\ screen'.cy * Width + screen'.cx = start' + Len(line')
             /\ \A i \in 1..Len(line') : screen'.cell[start' + i - 1] = line'[i]
  <2>1. c # "tab" /\ ~(screen.cx + 1 >= Width) /\ start' = start /\ phase = "read"
    BY <1>2 DEF TypeChar
  <2>2. screen \in Screen /\ line \in Seq(Typed) /\ start \in Cells
    BY <2>1 DEF ShellInv
  <2>3. screen' = [cell |-> Draw(screen, c), cx |-> screen.cx + 1, cy |-> screen.cy]
    <3>1. screen.cx + 1 < Width
      BY <2>1, <2>2, Sizes DEF Screen
    <3>2. QED
      BY <1>2, <2>1, <2>2, <3>1, TypedIs DEF TypeChar
  <2>4. /\ Len(line') = Len(line) + 1 /\ Len(line) \in Nat
        /\ line'[Len(line) + 1] = c /\ \A i \in 1..Len(line) : line'[i] = line[i]
    BY <1>2, <2>2, LineGrows DEF TypeChar
  <2>5. /\ Len(line) <= screen.cx
        /\ screen.cy * Width + screen.cx = start + Len(line)
        /\ \A i \in 1..Len(line) : screen.cell[start + i - 1] = line[i]
    BY <2>1 DEF LineShown
  <2>6. PICK n, b, x, st \in Nat : /\ n = Len(line) /\ b = screen.cy * Width /\ x = screen.cx /\ st = start
                                   /\ b + x \in Cells
    BY <2>2, <2>4, CursorCell DEF Cells
  <2>7. Len(line') <= screen'.cx
    BY <2>3, <2>4, <2>5, <2>6
  <2>8. screen'.cy * Width + screen'.cx = start' + Len(line')
    <3>1. b + (x + 1) = st + (n + 1)
      BY <2>5, <2>6
    <3>2. screen'.cy = screen.cy /\ screen'.cx = screen.cx + 1
      BY <2>3
    <3>3. screen'.cy * Width = b /\ screen'.cx = x + 1 /\ start' = st /\ Len(line') = n + 1
      BY <2>1, <2>4, <2>6, <3>2
    <3>4. QED
      BY <3>1, <3>3
  <2>9. ASSUME NEW i \in 1..(n + 1) PROVE Draw(screen, c)[st + i - 1] = line'[i]
    <3>1. CASE i = n + 1
      <4>1. st + i - 1 = b + x
        BY <2>5, <2>6, <3>1
      <4>2. Draw(screen, c)[b + x] = c
        BY <2>2, <2>6 DEF Draw, Screen
      <4>3. QED
        BY <2>4, <2>6, <3>1, <4>1, <4>2
    <3>2. CASE i # n + 1
      <4>1. i \in 1..n /\ st + i - 1 \in Cells /\ st + i - 1 # b + x
        <5>1. b + x = st + n
          BY <2>5, <2>6
        <5>2. i \in Nat /\ i >= 1 /\ i <= n
          BY <3>2
        <5>3. st + i - 1 \in Nat /\ st + i - 1 < b + x
          BY <5>1, <5>2
        <5>4. PICK z \in Nat : z = size
          BY Sizes
        <5>5. Cells = 0..(z - 1)
          BY <5>4 DEF Cells, size
        <5>6. st + i - 1 \in Cells
          BY <2>6, <5>3, <5>5
        <5>7. QED
          BY <5>2, <5>3, <5>6
      <4>2. Draw(screen, c)[st + i - 1] = screen.cell[st + i - 1]
        BY <2>2, <2>6, <4>1, DrawElsewhere
      <4>3. screen.cell[st + i - 1] = line[i] /\ line'[i] = line[i]
        BY <2>4, <2>5, <2>6, <4>1
      <4>4. QED
        BY <4>2, <4>3
    <3>3. QED
      BY <3>1, <3>2
  <2>10. QED
    BY <2>1, <2>3, <2>4, <2>6, <2>7, <2>8, <2>9
<1>3. CASE Erase
  <2>1. start' = start /\ phase = "read" /\ line # <<>> /\ line' = Front(line)
        /\ screen' = PutAll(screen, EraseEcho)
    BY <1>3 DEF Erase
  <2>2. screen \in Screen /\ line \in Seq(Typed) /\ start \in Cells
    BY <2>1 DEF ShellInv
  <2>3. /\ Len(line) \in Nat \ {0} /\ Len(line') = Len(line) - 1
        /\ \A i \in 1..(Len(line) - 1) : line'[i] = line[i]
    BY <2>1, <2>2, LineShrinks
  <2>4. /\ Len(line) <= screen.cx
        /\ screen.cy * Width + screen.cx = start + Len(line)
        /\ \A i \in 1..Len(line) : screen.cell[start + i - 1] = line[i]
    BY <2>1 DEF LineShown
  <2>5. PICK n, b, x, st \in Nat : /\ n = Len(line) /\ b = screen.cy * Width /\ x = screen.cx /\ st = start
                                   /\ b + x \in Cells
    BY <2>2, <2>3, CursorCell DEF Cells
  <2>6. n >= 1 /\ n <= x /\ b + x = st + n
    BY <2>3, <2>4, <2>5
  <2>7. /\ screen'.cx = screen.cx - 1 /\ screen'.cy = screen.cy
        /\ \A k \in Cells : k # screen.cy * Width + (screen.cx - 1) => screen'.cell[k] = screen.cell[k]
    <3>1. screen.cx # 0
      BY <2>5, <2>6
    <3>2. QED
      BY <2>1, <2>2, <3>1, EraseIs
  <2>8. Len(line') <= screen'.cx /\ screen'.cy * Width + screen'.cx = start' + Len(line')
    <3>1. n - 1 <= x - 1 /\ b + (x - 1) = st + (n - 1)
      BY <2>6
    <3>2. screen'.cy * Width = b /\ screen'.cx = x - 1 /\ start' = st /\ Len(line') = n - 1
      BY <2>1, <2>3, <2>5, <2>7
    <3>3. QED
      BY <3>1, <3>2
  <2>9. ASSUME NEW i \in 1..(n - 1) PROVE screen'.cell[st + i - 1] = line'[i]
    <3>1. st + i - 1 \in Cells /\ st + i - 1 # b + (x - 1) /\ i \in 1..n
      <4>1. i \in Nat /\ i >= 1 /\ i <= n - 1 /\ i \in 1..n
        OBVIOUS
      <4>2. st + i - 1 \in Nat /\ st + i - 1 < b + (x - 1) /\ st + i - 1 < b + x
        BY <2>6, <4>1
      <4>3. PICK z \in Nat : z = size
        BY Sizes
      <4>4. Cells = 0..(z - 1)
        BY <4>3 DEF Cells, size
      <4>5. st + i - 1 \in Cells
        BY <2>5, <4>2, <4>4
      <4>6. QED
        BY <4>1, <4>2, <4>5
    <3>2. screen'.cell[st + i - 1] = screen.cell[st + i - 1]
      BY <2>5, <2>7, <3>1
    <3>3. screen.cell[st + i - 1] = line[i] /\ line'[i] = line[i]
      BY <2>3, <2>4, <2>5, <3>1
    <3>4. QED
      BY <3>2, <3>3
  <2>10. QED
    BY <2>1, <2>3, <2>5, <2>8, <2>9
<1>4. CASE Enter \/ Output \/ Clear \/ Done
  BY <1>4 DEF Enter, Output, Clear, Done
<1>5. CASE UNCHANGED shellVars
  BY <1>5 DEF shellVars, LineShown
<1>6. QED
  BY <1>1, <1>2, <1>3, <1>4, <1>5 DEF NextShell

\* What stands between the prompt and the cursor is the line that will run,
\* however it was typed and corrected, on a screen of any size.
THEOREM LineTrue == SpecShell => []LineOnScreen
<1>1. InitShell => LineShown
  BY DEF InitShell, LineShown
<1>2. ShellInv /\ ShellInv' /\ LineShown /\ [NextShell]_shellVars => LineShown'
  BY LineShownInductive
<1>3. LineShown => LineOnScreen
  BY DEF LineShown, LineOnScreen
<1>4. QED
  BY <1>1, <1>2, <1>3, ShellAlways, PTL DEF SpecShell

-----------------------------------------------------------------------------
\* What was printed before, when the shell prints a whole text.

At(s) == s.cy * Width + s.cx
KeptOrMoved(s, t) == Keeps(s, t, 0) \/ (s.cy = Height - 1 /\ Keeps(s, t, 1))

\* A character takes the cursor one cell on; beyond the last cell the rows move.
LEMMA ShowMoves ==
  ASSUME NEW s \in Screen, NEW c \in Glyph
  PROVE  LET t == Show(s, c)
         IN  \/ /\ At(t) = At(s) + 1 /\ At(s) + 1 < size
                /\ \A k \in Cells : k # At(s) => t.cell[k] = s.cell[k]
             \/ /\ At(s) + 1 = size /\ At(t) = At(s) + 1 - Width
                /\ \A k \in Cells : k >= Width /\ k # At(s) => t.cell[k - Width] = s.cell[k]
<1> DEFINE t == Show(s, c)
           d == [s EXCEPT !.cell = Draw(s, c)]
<1>1. /\ s.cx \in 0..(Width - 1) /\ s.cy \in 0..(Height - 1) /\ Width \in Nat \ {0} /\ Height \in Nat \ {0}
      /\ At(s) \in Nat
  BY Sizes, CursorCell DEF Screen, At
<1>2. \A k \in Cells : k # At(s) => Draw(s, c)[k] = s.cell[k]
  BY DrawElsewhere DEF At
<1>3. CASE s.cx + 1 < Width
  <2>1. t = [cell |-> Draw(s, c), cx |-> s.cx + 1, cy |-> s.cy]
    BY <1>1, <1>3 DEF Show
  <2>2. s.cx + 1 \in 0..(Width - 1)
    BY <1>1, <1>3
  <2>3. s.cy * Width + (s.cx + 1) < size /\ s.cy * Width \in Nat
    BY <1>1, <2>2, CellInside
  <2>4. At(t) = At(s) + 1 /\ At(s) + 1 < size
    BY <1>1, <2>1, <2>3 DEF At
  <2>5. QED
    BY <1>2, <2>1, <2>4
<1>4. CASE ~(s.cx + 1 < Width)
  <2>1. t = Newline(d) /\ d.cell = Draw(s, c) /\ d.cy = s.cy
    BY <1>1, <1>4 DEF Show, Screen
  <2>2. s.cx = Width - 1
    BY <1>1, <1>4
  <2> HIDE DEF d, t
  <2>3. (s.cy + 1) * Width = s.cy * Width + Width /\ s.cy * Width \in Nat
    <3>1. s.cy + 1 \in Int /\ (s.cy + 1) - 1 = s.cy /\ Width \in Int
      BY <1>1
    <3>2. ((s.cy + 1) - 1) * Width + Width = (s.cy + 1) * Width
      BY <3>1, Products
    <3>3. s.cy * Width \in Nat
      BY <1>1, CellInside
    <3>4. QED
      BY <3>1, <3>2, <3>3
  <2>4. At(s) + 1 = (s.cy + 1) * Width
    BY <1>1, <2>2, <2>3 DEF At
  <2>5. CASE s.cy + 1 < Height
    <3>1. t.cell = d.cell /\ t.cx = 0 /\ t.cy = s.cy + 1
      BY <2>1, <2>5 DEF Newline, Scroll
    <3>2. At(t) = At(s) + 1
      BY <1>1, <2>3, <2>4, <3>1 DEF At
    <3>3. s.cy + 1 \in 0..(Height - 1) /\ 0 \in 0..(Width - 1)
      BY <1>1, <2>5
    <3>4. (s.cy + 1) * Width + 0 < size /\ (s.cy + 1) * Width \in Nat
      BY <3>3, CellInside
    <3>5. At(s) + 1 < size
      BY <2>4, <3>4
    <3>6. QED
      BY <1>2, <2>1, <3>1, <3>2, <3>5 DEF t
  <2>6. CASE ~(s.cy + 1 < Height)
    <3>1. t.cell = Moved(d.cell) /\ t.cx = 0 /\ t.cy = Height - 1 /\ s.cy = Height - 1
      BY <1>1, <2>1, <2>6 DEF Newline, Scroll
    <3>2. (Height - 1) * Width = last /\ last + Width = size /\ last \in Nat /\ size \in Nat
      BY Sizes DEF last
    <3>3. At(t) = last /\ At(s) + 1 = size
      <4>1. At(s) = last + s.cx /\ At(t) = last + 0
        BY <3>1, <3>2 DEF At
      <4>2. QED
        BY <1>1, <2>2, <3>2, <4>1
    <3>4. At(t) = At(s) + 1 - Width
      BY <1>1, <3>2, <3>3
    <3>5. ASSUME NEW k \in Cells, k >= Width, k # At(s)
          PROVE  t.cell[k - Width] = s.cell[k]
      <4>1. k - Width \in Cells /\ k - Width < last /\ k - Width + Width = k
        BY <3>5, Sizes DEF Cells, size
      <4>2. Moved(d.cell)[k - Width] = d.cell[k]
        BY <4>1 DEF Moved, last
      <4>3. QED
        BY <1>2, <2>1, <3>1, <3>5, <4>2
    <3>6. QED
      BY <3>3, <3>4, <3>5 DEF t
  <2>7. QED
    BY <2>5, <2>6
<1>5. QED
  BY <1>3, <1>4

\* After i characters: nothing has moved, or everything by one row.
Printed0(s, t, i) ==
  At(t) = At(s) + i /\ \A k \in Cells : k < At(s) => t.cell[k] = s.cell[k]
Printed1(s, t, i) ==
  /\ At(t) = At(s) + i - Width /\ At(s) + i >= size
  /\ \A k \in Cells : k < At(s) /\ k >= Width => t.cell[k - Width] = s.cell[k]

LEMMA OneMore ==
  ASSUME NEW s \in Screen, NEW t \in Screen, NEW c \in Glyph, NEW i \in Nat, i + 1 <= Width,
         Printed0(s, t, i) \/ Printed1(s, t, i)
  PROVE  LET u == Show(t, c) IN u \in Screen /\ (Printed0(s, u, i + 1) \/ Printed1(s, u, i + 1))
<1> DEFINE u == Show(t, c)
<1>1. u \in Screen
  BY ShowTyped
<1>2. PICK p, q, w, z \in Nat : p = At(s) /\ q = At(t) /\ w = Width /\ z = size /\ Cells = 0..(z - 1)
  BY CursorCell, Sizes DEF At, Cells, size
<1>3. p < z /\ q < z
  BY <1>2, CursorCell DEF At
<1>4. \/ /\ At(u) = q + 1 /\ q + 1 < z
         /\ \A k \in Cells : k # q => u.cell[k] = t.cell[k]
      \/ /\ q + 1 = z /\ At(u) = q + 1 - w
         /\ \A k \in Cells : k >= w /\ k # q => u.cell[k - w] = t.cell[k]
  BY <1>2, ShowMoves
<1> HIDE DEF u
<1>5. CASE Printed0(s, t, i)
  <2>1. q = p + i /\ \A k \in Cells : k < p => t.cell[k] = s.cell[k]
    BY <1>2, <1>5 DEF Printed0
  <2>2. CASE At(u) = q + 1 /\ \A k \in Cells : k # q => u.cell[k] = t.cell[k]
    <3>1. At(u) = p + (i + 1)
      BY <2>1, <2>2
    <3>2. ASSUME NEW k \in Cells, k < p PROVE u.cell[k] = s.cell[k]
      <4>1. k # q
        BY <1>2, <2>1, <3>2
      <4>2. QED
        BY <2>1, <2>2, <3>2, <4>1
    <3>3. Printed0(s, u, i + 1)
      BY <1>2, <3>1, <3>2 DEF Printed0
    <3>4. QED
      BY <1>1, <3>3 DEF u
  <2>3. CASE q + 1 = z /\ At(u) = q + 1 - w /\ \A k \in Cells : k >= w /\ k # q => u.cell[k - w] = t.cell[k]
    <3>1. At(u) = p + (i + 1) - w /\ p + (i + 1) >= z
      BY <2>1, <2>3
    <3>2. ASSUME NEW k \in Cells, k < p, k >= w PROVE u.cell[k - w] = s.cell[k]
      <4>1. k # q
        BY <1>2, <2>1, <3>2
      <4>2. QED
        BY <2>1, <2>3, <3>2, <4>1
    <3>3. Printed1(s, u, i + 1)
      BY <1>2, <3>1, <3>2 DEF Printed1
    <3>4. QED
      BY <1>1, <3>3 DEF u
  <2>4. QED
    BY <1>4, <2>2, <2>3
<1>6. CASE Printed1(s, t, i)
  <2>1. /\ q = p + i - w /\ p + i >= z
        /\ \A k \in Cells : k < p /\ k >= w => t.cell[k - w] = s.cell[k]
    BY <1>2, <1>6 DEF Printed1
  <2>2. i + 1 <= w
    BY <1>2
  <2>3. q + 1 # z
    BY <1>3, <2>1, <2>2
  <2>4. At(u) = q + 1 /\ \A k \in Cells : k # q => u.cell[k] = t.cell[k]
    BY <1>4, <2>3
  <2>5. At(u) = p + (i + 1) - w /\ p + (i + 1) >= z
    BY <2>1, <2>4
  <2>6. ASSUME NEW k \in Cells, k < p, k >= w PROVE u.cell[k - w] = s.cell[k]
    <3>1. k - w \in Cells /\ k - w # q
      BY <1>2, <2>1, <2>6
    <3>2. QED
      BY <2>1, <2>4, <2>6, <3>1
  <2>7. Printed1(s, u, i + 1)
    BY <1>2, <2>5, <2>6 DEF Printed1
  <2>8. QED
    BY <1>1, <2>7 DEF u
<1>7. QED
  BY <1>5, <1>6

LEMMA KeepsPlaces ==
  ASSUME NEW s \in Screen, NEW t
  PROVE  /\ (\A k \in Cells : k < At(s) - 1 => t.cell[k] = s.cell[k]) => Keeps(s, t, 0)
         /\ (\A k \in Cells : k < At(s) - 1 /\ k >= Width => t.cell[k - Width] = s.cell[k])
              => Keeps(s, t, 1)
<1>1. 0 * Width = 0 /\ 1 * Width = Width
  BY Sizes
<1>2. \A k \in Cells : k - 0 * Width = k
  BY <1>1 DEF Cells
<1> DEFINE left == s.cy * Width + s.cx - 1
<1>3. left = At(s) - 1
  BY CursorCell DEF At
<1>4. ASSUME \A k \in Cells : k < At(s) - 1 => t.cell[k] = s.cell[k] PROVE Keeps(s, t, 0)
  <2>1. ASSUME NEW k \in Cells, k < left
        PROVE  t.cell[k - 0 * Width] = s.cell[k]
    <3>1. k < At(s) - 1 /\ k - 0 * Width = k
      BY <1>2, <1>3, <2>1
    <3>2. t.cell[k] = s.cell[k]
      BY <1>4, <3>1
    <3>3. QED
      BY <3>1, <3>2
  <2>2. QED
    BY <2>1, Zenon DEF Keeps
<1>5. ASSUME \A k \in Cells : k < At(s) - 1 /\ k >= Width => t.cell[k - Width] = s.cell[k]
      PROVE  Keeps(s, t, 1)
  <2>1. ASSUME NEW k \in Cells, k < left, k >= 1 * Width
        PROVE  t.cell[k - 1 * Width] = s.cell[k]
    <3>1. k < At(s) - 1 /\ k >= Width /\ k - 1 * Width = k - Width
      BY <1>1, <1>3, <2>1
    <3>2. t.cell[k - Width] = s.cell[k]
      BY <1>5, <3>1
    <3>3. QED
      BY <3>1, <3>2
  <2>2. QED
    BY <2>1, Zenon DEF Keeps
<1>6. QED
  BY <1>4, <1>5

LEMMA PrintedKeeps ==
  ASSUME NEW s \in Screen, NEW t, NEW i \in 0..Width, Printed0(s, t, i) \/ Printed1(s, t, i)
  PROVE  KeptOrMoved(s, t)
<1>1. PICK p, w, z \in Nat : p = At(s) /\ w = Width /\ z = size /\ Cells = 0..(z - 1)
  BY CursorCell, Sizes DEF At, Cells, size
<1>2. CASE Printed0(s, t, i)
  <2>1. ASSUME NEW k \in Cells, k < At(s) - 1 PROVE t.cell[k] = s.cell[k]
    <3>1. k < At(s)
      BY <1>1, <2>1
    <3>2. QED
      BY <1>2, <3>1 DEF Printed0
  <2>2. Keeps(s, t, 0)
    BY <2>1, KeepsPlaces, Zenon
  <2>3. QED
    BY <2>2, Zenon DEF KeptOrMoved
<1>3. CASE Printed1(s, t, i)
  <2>1. ASSUME NEW k \in Cells, k < At(s) - 1, k >= w PROVE t.cell[k - w] = s.cell[k]
    <3>1. k < At(s)
      BY <1>1, <2>1
    <3>2. QED
      BY <1>1, <1>3, <2>1, <3>1 DEF Printed1
  <2>2. Keeps(s, t, 1)
    BY <1>1, <2>1, KeepsPlaces, Zenon
  <2>3. s.cy = Height - 1
    <3>1. p + i >= z /\ i <= w
      BY <1>1, <1>3 DEF Printed1
    <3>2. last + w = z /\ last \in Nat
      BY <1>1, Sizes
    <3>3. p >= last
      BY <3>1, <3>2
    <3>4. ASSUME s.cy < Height - 1 PROVE FALSE
      <4>1. s.cy \in Nat /\ s.cy + 1 \in Nat /\ s.cy + 1 <= Height - 1 /\ Height - 1 \in Nat /\ Width \in Nat
            /\ s.cx \in 0..(Width - 1)
        BY <3>4, Sizes DEF Screen
      <4>2. (s.cy + 1) * Width <= last
        BY <4>1, Products DEF last
      <4>3. ((s.cy + 1) - 1) * Width + Width = (s.cy + 1) * Width /\ (s.cy + 1) - 1 = s.cy
        BY <4>1, Products
      <4>4. s.cy * Width \in Nat
        BY <4>1, Products
      <4>5. At(s) < last
        <5>1. s.cy * Width + Width <= last
          BY <4>2, <4>3
        <5>2. QED
          BY <3>2, <4>1, <4>4, <5>1 DEF At
      <4>6. QED
        BY <1>1, <3>2, <3>3, <4>5
    <3>5. QED
      BY <3>4, Sizes DEF Screen
  <2>4. QED
    BY <2>2, <2>3, Zenon DEF KeptOrMoved
<1>4. QED
  BY <1>2, <1>3

LEMMA NothingPrinted ==
  ASSUME NEW s \in Screen
  PROVE  Printed0(s, s, 0)
<1>1. At(s) \in Nat
  BY CursorCell DEF At, Cells
<1>2. QED
  BY <1>1 DEF Printed0

\* The prompt has no more characters than a row, none of them a control
\* character, and a row is no narrower than a tab.
PromptFits == Len(Prompt) <= Width /\ Width >= 4 /\ Prompt \in Seq(Glyph \ Control)

LEMMA PromptKeeps ==
  ASSUME PromptFits, NEW s \in Screen
  PROVE  KeptOrMoved(s, PutAll(s, Prompt))
<1>1. PICK n \in Nat : n = Len(Prompt) /\ n <= Width
  BY DEF PromptFits
<1>2. \A i \in 1..n : Prompt[i] \in Glyph \ Control
  BY <1>1 DEF PromptFits
<1> HIDE DEF Prompt
<1>3. PICK f : /\ f[0] = s /\ PutAll(s, Prompt) = f[n]
               /\ \A i \in 1..n : f[i] = Putc(f[i - 1], Prompt[i])
  <2>1. Len(Prompt) \in Nat
    BY <1>1
  <2>2. QED
    BY <1>1, <2>1, PutAllIs
<1>4. \A i \in 1..n : f[i] = Show(f[i - 1], Prompt[i])
  BY <1>2, <1>3 DEF Putc, Control
<1> DEFINE T == {i \in 0..n : f[i] \in Screen /\ (Printed0(s, f[i], i) \/ Printed1(s, f[i], i))}
<1>5. 0 \in T
  <2>1. 0 \in 0..n
    OBVIOUS
  <2>2. QED
    BY <1>3, <2>1, NothingPrinted
<1>6. ASSUME NEW i \in 1..n, i - 1 \in T PROVE i \in T
  <2>1. PICK j \in Nat : j = i - 1 /\ i = j + 1 /\ j + 1 <= Width
    BY <1>1, Sizes
  <2>2. f[j] \in Screen /\ (Printed0(s, f[j], j) \/ Printed1(s, f[j], j))
    BY <1>6, <2>1
  <2>3. PICK c \in Glyph : c = Prompt[i]
    BY <1>2
  <2>4. f[i] = Show(f[j], c)
    BY <1>4, <2>1, <2>3
  <2>5. f[i] \in Screen /\ (Printed0(s, f[i], j + 1) \/ Printed1(s, f[i], j + 1))
    BY <2>1, <2>2, <2>4, OneMore
  <2>6. QED
    BY <2>1, <2>5
<1> HIDE DEF T
<1>7. \A i \in 0..n : i \in T
  BY <1>5, <1>6, Rounds
<1>8. Printed0(s, f[n], n) \/ Printed1(s, f[n], n)
  <2>1. n \in T
    BY <1>7
  <2>2. QED
    BY <2>1 DEF T
<1>9. n \in 0..Width
  BY <1>1, Sizes
<1>10. KeptOrMoved(s, f[n])
  BY <1>8, <1>9, PrintedKeeps
<1>11. QED
  BY <1>3, <1>10

LEMMA TabKeeps ==
  ASSUME Width >= 4, NEW s \in Screen
  PROVE  KeptOrMoved(s, Tab(s))
<1> DEFINE one == Show(s, Blank)
           two == Show(one, Blank)
           three == Show(two, Blank)
           four == Show(three, Blank)
           P(t, i) == t \in Screen /\ (Printed0(s, t, i) \/ Printed1(s, t, i))
<1>1. Blank \in Glyph /\ Width \in Nat
  BY Sizes
<1>2. P(s, 0)
  BY NothingPrinted
<1>3. \A t, i : P(t, i) /\ i \in 0..3 => P(Show(t, Blank), i + 1)
  <2>1. TAKE t, i
  <2>2. HAVE P(t, i) /\ i \in 0..3
  <2>3. i \in Nat /\ i + 1 <= Width
    BY <1>1, <2>2
  <2>4. QED
    BY <1>1, <2>2, <2>3, OneMore
<1>4. P(one, 0 + 1) /\ P(two, 1 + 1) /\ P(three, 2 + 1) /\ P(four, 3 + 1)
  <2>1. 0 \in 0..3 /\ 1 \in 0..3 /\ 2 \in 0..3 /\ 3 \in 0..3 /\ 0 + 1 = 1 /\ 1 + 1 = 2 /\ 2 + 1 = 3
    OBVIOUS
  <2> HIDE DEF P
  <2>2. P(one, 0 + 1)
    BY <1>2, <1>3, <2>1
  <2>3. P(two, 1 + 1)
    BY <1>3, <2>1, <2>2
  <2>4. P(three, 2 + 1)
    BY <1>3, <2>1, <2>3
  <2>5. P(four, 3 + 1)
    BY <1>3, <2>1, <2>4
  <2>6. QED
    BY <2>2, <2>3, <2>4, <2>5
<1>5. /\ KeptOrMoved(s, one) /\ KeptOrMoved(s, two)
      /\ KeptOrMoved(s, three) /\ KeptOrMoved(s, four)
  <2>1. 0 + 1 \in 0..Width /\ 1 + 1 \in 0..Width /\ 2 + 1 \in 0..Width /\ 3 + 1 \in 0..Width
    BY <1>1
  <2> HIDE DEF one, two, three, four
  <2>2. QED
    BY <1>4, <2>1, PrintedKeeps
<1> HIDE DEF one, two, three, four, P
<1>6. Tab(s) = CASE s.cx % 4 = 3 -> one
                 [] s.cx % 4 = 2 -> two
                 [] s.cx % 4 = 1 -> three
                 [] s.cx % 4 = 0 -> four
  BY Zenon DEF Tab, one, two, three, four
<1>7. s.cx % 4 \in 0..3
  BY DEF Screen
<1>8. Tab(s) \in {one, two, three, four}
  BY <1>6, <1>7
<1>9. QED
  BY <1>5, <1>8

LEMMA PutcKeptOrMoved ==
  ASSUME Width >= 4, NEW s \in Screen, NEW c \in Glyph \cup Control
  PROVE  KeptOrMoved(s, Putc(s, c))
<1>1. CASE c = "tab"
  <2>1. Putc(s, c) = Tab(s)
    BY <1>1 DEF Putc
  <2>2. QED
    BY <2>1, TabKeeps
<1>2. CASE c # "tab"
  <2>1. c \in (Glyph \cup Control) \ {"tab"}
    BY <1>2
  <2>2. QED
    BY <2>1, PutcKeepsText, Zenon DEF KeptOrMoved
<1>3. QED
  BY <1>1, <1>2

LEMMA EraseKeeps ==
  ASSUME Width >= 4, NEW s \in Screen
  PROVE  KeptOrMoved(s, PutAll(s, EraseEcho))
<1> DEFINE e == PutAll(s, EraseEcho)
<1>1. PICK p \in Nat : p = At(s) /\ p = s.cy * Width + s.cx
  BY CursorCell DEF At
<1>2. \A k \in Cells : k < p - 1 => e.cell[k] = s.cell[k]
  <2>1. CASE s.cx # 0
    <3>1. \A k \in Cells : k # s.cy * Width + (s.cx - 1) => e.cell[k] = s.cell[k]
      BY <2>1, EraseIs
    <3>2. s.cy * Width + (s.cx - 1) = p - 1
      BY <1>1, CursorCell
    <3>3. \A k \in Cells : k \in Nat
      BY DEF Cells
    <3> HIDE DEF e
    <3>4. QED
      BY <1>1, <3>1, <3>2, <3>3
  <2>2. CASE s.cx = 0
    <3>1. PICK b : b = Putc(s, Blank) /\ e = Putc(b, "bs")
      <4>1. Putc(s, "bs") = s
        BY <2>2 DEF Putc, Back
      <4>2. QED
        BY <4>1, EraseSteps
    <3> HIDE DEF e
    <3>2. b = Show(s, Blank)
      BY <3>1 DEF Putc, Blank
    <3>3. b = [cell |-> Draw(s, Blank), cx |-> s.cx + 1, cy |-> s.cy]
      <4>1. ~(s.cx + 1 >= Width)
        BY <2>2, Sizes
      <4>2. QED
        BY <3>2, <4>1 DEF Show
    <3>4. b \in Screen
      BY <3>1, Sizes, PutcStaysOnScreen
    <3>5. b.cx = 1 /\ b.cy = s.cy /\ b.cell = Draw(s, Blank)
      BY <2>2, <3>3
    <3>6. \A k \in Cells : k # b.cy * Width + (b.cx - 1) => e.cell[k] = b.cell[k]
      BY <3>1, <3>4, <3>5, BackIs
    <3>7. b.cy * Width + (b.cx - 1) = p
      BY <1>1, <2>2, <3>5, CursorCell
    <3>8. \A k \in Cells : k # p => b.cell[k] = s.cell[k]
      BY <1>1, <3>5, DrawElsewhere
    <3>9. \A k \in Cells : k < p - 1 => k # p
      BY <1>1 DEF Cells
    <3>10. QED
      BY <3>6, <3>7, <3>8, <3>9
  <2>3. QED
    BY <2>1, <2>2
<1> HIDE DEF e
<1>3. Keeps(s, e, 0)
  BY <1>1, <1>2, KeepsPlaces, Zenon
<1>4. QED
  BY <1>3, Zenon DEF KeptOrMoved, e

\* No step of the shell but clearing the screen touches what was printed before
\* the cursor, except that the rows move up by one, and that only when the
\* cursor was in the last one.
THEOREM TextStays ==
  ASSUME PromptFits
  PROVE  SpecShell => OldTextStays
<1>1. Width >= 4
  BY DEF PromptFits
<1>2. ShellInv /\ [NextShell]_shellVars =>
        [\/ screen' = Cleared \/ Keeps(screen, screen', 0)
         \/ screen.cy = Height - 1 /\ Keeps(screen, screen', 1)]_shellVars
  <2> SUFFICES ASSUME ShellInv, NextShell
               PROVE  \/ screen' = Cleared \/ KeptOrMoved(screen, screen')
    BY DEF KeptOrMoved
  <2>1. screen \in Screen
    BY DEF ShellInv
  <2>2. CASE ShowPrompt
    BY <2>1, <2>2, PromptKeeps DEF ShowPrompt
  <2>3. ASSUME NEW c \in Typed, TypeChar(c) PROVE KeptOrMoved(screen, screen')
    BY <1>1, <2>1, <2>3, Printable, PutcKeptOrMoved DEF TypeChar
  <2>4. CASE Erase
    BY <1>1, <2>1, <2>4, EraseKeeps DEF Erase
  <2>5. CASE Enter
    <3>1. "nl" \in Control
      BY DEF Control
    <3>2. QED
      BY <1>1, <2>1, <2>5, <3>1, PutcKeptOrMoved DEF Enter
  <2>6. CASE Output
    <3>1. Printed \subseteq Glyph \cup Control
      BY LineAssumption
    <3>2. QED
      BY <1>1, <2>1, <2>6, <3>1, PutcKeptOrMoved DEF Output
  <2>7. CASE Clear
    BY <2>7 DEF Clear
  <2>8. CASE Done
    <3>1. screen' = screen
      BY <2>8 DEF Done
    <3>2. Printed0(screen, screen', 0)
      BY <2>1, <3>1, NothingPrinted
    <3>3. 0 \in 0..Width
      BY Sizes
    <3>4. QED
      BY <2>1, <3>2, <3>3, PrintedKeeps
  <2>9. QED
    BY <2>2, <2>3, <2>4, <2>5, <2>6, <2>7, <2>8 DEF NextShell
<1>3. QED
  BY <1>2, ShellAlways, PTL DEF SpecShell, OldTextStays
=============================================================================
