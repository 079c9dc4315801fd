--------------------------------- MODULE Video ---------------------------------
(***************************************************************************)
(* Drawing (src/kernel/video.c): the frame buffer as a function from pixels  *)
(* to colours, and what each call makes of it.  A mode m is what video_init  *)
(* read back from the adapter.  Coordinates are integers, far from the       *)
(* limits of int.  Window is a frame of the graphical interface (ui.c).      *)
(***************************************************************************)
EXTENDS Integers

CONSTANT Colour

Pixels(m) == (0..(m.width - 1)) \X (0..(m.height - 1))
Pitch(m) == m.width * (m.bpp \div 8)

\* The bytes vm_map_page made accessible, and where a pixel's four are.
Mapped(m) == 0..(Pitch(m) * m.height - 1)
Address(m, p) == p[2] * Pitch(m) + 4 * p[1]

\* video_putpixel draws on the screen only.
Paint(fb, area, colour) == [p \in DOMAIN fb |-> IF p \in area THEN colour ELSE fb[p]]

\* Both ends of one side of a rectangle are clipped in turn.
Start(at) == IF at < 0 THEN 0 ELSE at
Length(at, n, size) == LET rest == IF at < 0 THEN n + at ELSE n
                       IN  IF Start(at) + rest > size THEN size - Start(at) ELSE rest
Span(at, n, size) == Start(at)..(Start(at) + Length(at, n, size) - 1)

\* video_fillrect
FillRect(m, fb, x, y, w, h, colour) ==
  IF Length(x, w, m.width) <= 0 \/ Length(y, h, m.height) <= 0 THEN fb
  ELSE Paint(fb, Span(x, w, m.width) \X Span(y, h, m.height), colour)

-----------------------------------------------------------------------------
\* draw_window_frame: a border of one pixel, the body from the seventeenth row
\* on, the bar in the second to fifteenth.  The title is left out.

Border(win) ==
  {p \in (win.x..(win.x + win.w - 1)) \X (win.y..(win.y + win.h - 1)) :
     p[1] \in {win.x, win.x + win.w - 1} \/ p[2] \in {win.y, win.y + win.h - 1}}
Window(m, fb, win, frame, bar, body) ==
  LET bordered == Paint(fb, Border(win), frame)
      filled == FillRect(m, bordered, win.x + 1, win.y + 16, win.w - 2, win.h - 17, body)
  IN  FillRect(m, filled, win.x + 1, win.y + 1, win.w - 2, 14, bar)
=============================================================================
