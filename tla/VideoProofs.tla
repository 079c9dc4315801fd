------------------------------ MODULE VideoProofs ------------------------------
(***************************************************************************)
(* What drawing does to the frame buffer, for every mode and all            *)
(* coordinates, on the screen and off it.                                    *)
(***************************************************************************)
EXTENDS Video, TLAPS

Modes == [width : Nat, height : Nat, bpp : {32}]

\* One side of a rectangle is clipped to what of it is on the screen.
LEMMA SpanExact ==
  ASSUME NEW at \in Int, NEW n \in Int, NEW size \in Nat,
         NEW i \in 0..(size - 1)
  PROVE  /\ i \in at..(at + n - 1) <=> Length(at, n, size) > 0 /\ i \in Span(at, n, size)
         /\ Length(at, n, size) \in Int
         /\ i \in at..(at + n - 1) => Length(at, n, size) > 0
BY DEF Length, Span, Start

\* A filled rectangle is the rectangle, as far as it is on the screen, and
\* nothing else, with every corner anywhere and sides of any sign
\* (video_fillrect).
THEOREM FillExact ==
  ASSUME NEW m \in Modes, NEW fb \in [Pixels(m) -> Colour], NEW c \in Colour,
         NEW x \in Int, NEW y \in Int, NEW w \in Int, NEW h \in Int
  PROVE  FillRect(m, fb, x, y, w, h, c) =
           [p \in Pixels(m) |-> IF p[1] \in x..(x + w - 1) /\ p[2] \in y..(y + h - 1)
                                THEN c ELSE fb[p]]
<1> DEFINE L == Length(x, w, m.width)  H == Length(y, h, m.height)
<1>1. m.width \in Nat /\ m.height \in Nat
  BY DEF Modes
<1>2. \A p \in Pixels(m) : p[1] \in 0..(m.width - 1) /\ p[2] \in 0..(m.height - 1) /\ p = <<p[1], p[2]>>
  BY DEF Pixels
<1>3. \A p \in Pixels(m) :
        /\ p[1] \in x..(x + w - 1) <=> L > 0 /\ p[1] \in Span(x, w, m.width)
        /\ p[2] \in y..(y + h - 1) <=> H > 0 /\ p[2] \in Span(y, h, m.height)
  BY <1>1, <1>2, SpanExact
<1>4. L \in Int /\ H \in Int
  BY <1>1 DEF Length, Start
<1>5. CASE L <= 0 \/ H <= 0
  <2>1. \A p \in Pixels(m) : ~(p[1] \in x..(x + w - 1) /\ p[2] \in y..(y + h - 1))
    BY <1>3, <1>4, <1>5
  <2>2. fb = [p \in Pixels(m) |-> fb[p]]
    OBVIOUS
  <2> QED
    BY <2>1, <2>2, <1>5 DEF FillRect
<1>6. CASE L > 0 /\ H > 0
  <2>1. \A p \in Pixels(m) :
          p \in Span(x, w, m.width) \X Span(y, h, m.height)
            <=> p[1] \in x..(x + w - 1) /\ p[2] \in y..(y + h - 1)
    BY <1>2, <1>3, <1>6
  <2>2. FillRect(m, fb, x, y, w, h, c) = Paint(fb, Span(x, w, m.width) \X Span(y, h, m.height), c)
    BY <1>4, <1>6 DEF FillRect
  <2> QED
    BY <2>1, <2>2 DEF Paint
<1> QED
  BY <1>4, <1>5, <1>6

\* Every pixel of a mode with 32 bits has its four bytes in the memory that
\* video_init maps, so that a call that stays on the screen stays in the frame
\* buffer (video_putpixel, video_fillrect, video_init).
THEOREM PixelsMapped ==
  ASSUME NEW m \in Modes, NEW p \in Pixels(m), NEW byte \in 0..3
  PROVE  Address(m, p) + byte \in Mapped(m)
<1>1. m.width \in Nat /\ m.height \in Nat /\ m.bpp = 32
  BY DEF Modes
<1>2. Pitch(m) = 4 * m.width /\ Pitch(m) \in Nat
  BY <1>1 DEF Pitch
<1>3. p[1] \in 0..(m.width - 1) /\ p[2] \in 0..(m.height - 1)
  BY DEF Pixels
<1>4. (p[2] + 1) * Pitch(m) <= m.height * Pitch(m)
  <2>1. p[2] + 1 \in Nat /\ p[2] + 1 <= m.height
    BY <1>1, <1>3
  <2> QED
    BY <2>1, <1>1, <1>2
<1>5. (p[2] + 1) * Pitch(m) = p[2] * Pitch(m) + Pitch(m) /\ p[2] * Pitch(m) \in Nat
  BY <1>2, <1>3
<1>6. Pitch(m) * m.height = m.height * Pitch(m) /\ m.height * Pitch(m) \in Nat
  BY <1>1, <1>2
<1>7. 4 * p[1] + byte \in 0..(Pitch(m) - 1)
  BY <1>1, <1>2, <1>3
<1> DEFINE row == p[2] * Pitch(m)  end == m.height * Pitch(m)  rest == 4 * p[1] + byte
<1>8. row \in Nat /\ end \in Nat /\ Pitch(m) \in Nat /\ row + Pitch(m) <= end
  BY <1>2, <1>4, <1>5, <1>6
<1>9. rest \in 0..(Pitch(m) - 1) /\ Address(m, p) + byte = row + rest
  BY <1>3, <1>5, <1>7 DEF Address
<1>10. Mapped(m) = 0..(end - 1)
  BY <1>6 DEF Mapped
<1> HIDE DEF row, end, rest
<1> QED
  BY <1>2, <1>8, <1>9, <1>10

\* Drawing a window again makes it whole whatever was drawn over it, but for
\* the row between bar and body, which nobody paints; outside its rectangle
\* nothing changes (draw_window_frame, called after the menu is toggled).
THEOREM WindowRepaints ==
  ASSUME NEW m \in Modes, NEW fb \in [Pixels(m) -> Colour], NEW over \in [Pixels(m) -> Colour],
         NEW win \in [x : Int, y : Int, w : Int, h : Int], win.w >= 2, win.h >= 18,
         NEW frame \in Colour, NEW bar \in Colour, NEW body \in Colour,
         NEW p \in Pixels(m)
  PROVE  LET inside == /\ p[1] \in win.x..(win.x + win.w - 1)
                       /\ p[2] \in win.y..(win.y + win.h - 1)
             gap == /\ p[1] \in (win.x + 1)..(win.x + win.w - 2)
                    /\ p[2] = win.y + 15
             drawn == Window(m, over, win, frame, bar, body)
         IN  /\ inside /\ ~gap => drawn[p] = Window(m, fb, win, frame, bar, body)[p]
             /\ ~inside \/ gap => drawn[p] = over[p]
<1> DEFINE inside == /\ p[1] \in win.x..(win.x + win.w - 1)
                     /\ p[2] \in win.y..(win.y + win.h - 1)
           across == p[1] \in (win.x + 1)..((win.x + 1) + (win.w - 2) - 1)
           inBody == across /\ p[2] \in (win.y + 16)..((win.y + 16) + (win.h - 17) - 1)
           inBar == across /\ p[2] \in (win.y + 1)..((win.y + 1) + 14 - 1)
           gap == /\ p[1] \in (win.x + 1)..(win.x + win.w - 2)
                  /\ p[2] = win.y + 15
<1>1. /\ win.x \in Int /\ win.y \in Int /\ win.w \in Int /\ win.h \in Int
      /\ p[1] \in Int /\ p[2] \in Int /\ p = <<p[1], p[2]>>
  BY DEF Pixels, Modes
<1>2. ASSUME NEW old \in [Pixels(m) -> Colour]
      PROVE  Window(m, old, win, frame, bar, body)[p] =
               IF inBar THEN bar ELSE IF inBody THEN body
               ELSE IF p \in Border(win) THEN frame ELSE old[p]
  <2> DEFINE bordered == Paint(old, Border(win), frame)
             filled == FillRect(m, bordered, win.x + 1, win.y + 16, win.w - 2, win.h - 17, body)
  <2>1. bordered \in [Pixels(m) -> Colour] /\ bordered[p] = IF p \in Border(win) THEN frame ELSE old[p]
    BY DEF Paint
  <2>2. /\ win.x + 1 \in Int /\ win.y + 16 \in Int /\ win.y + 1 \in Int /\ 14 \in Int
        /\ win.w - 2 \in Int /\ win.h - 17 \in Int
    BY <1>1
  <2> HIDE DEF bordered
  <2>3. filled = [q \in Pixels(m) |->
                    IF /\ q[1] \in (win.x + 1)..((win.x + 1) + (win.w - 2) - 1)
                       /\ q[2] \in (win.y + 16)..((win.y + 16) + (win.h - 17) - 1)
                    THEN body ELSE bordered[q]]
    BY <2>1, <2>2, FillExact
  <2>4. filled \in [Pixels(m) -> Colour] /\ filled[p] = IF inBody THEN body ELSE bordered[p]
    BY <2>1, <2>3
  <2> HIDE DEF filled
  <2>5. FillRect(m, filled, win.x + 1, win.y + 1, win.w - 2, 14, bar) =
          [q \in Pixels(m) |->
             IF /\ q[1] \in (win.x + 1)..((win.x + 1) + (win.w - 2) - 1)
                /\ q[2] \in (win.y + 1)..((win.y + 1) + 14 - 1)
             THEN bar ELSE filled[q]]
    BY <2>2, <2>4, FillExact
  <2>6. Window(m, old, win, frame, bar, body) = FillRect(m, filled, win.x + 1, win.y + 1, win.w - 2, 14, bar)
    BY DEF Window, bordered, filled
  <2> QED
    BY <2>1, <2>4, <2>5, <2>6
<1>3. p \in Border(win) <=> /\ inside
                            /\ \/ p[1] \in {win.x, win.x + win.w - 1}
                               \/ p[2] \in {win.y, win.y + win.h - 1}
  BY <1>1 DEF Border
<1>4. /\ inside /\ ~gap => inBar \/ inBody \/ p \in Border(win)
      /\ ~inside \/ gap => ~inBar /\ ~inBody /\ p \notin Border(win)
  BY <1>1, <1>3
<1> QED
  BY <1>2, <1>4
=============================================================================
