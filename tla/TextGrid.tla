------------------------------ MODULE TextGrid ------------------------------
(***************************************************************************)
(* What the frame buffer back end of the terminal promises to the escape   *)
(* sequence parser: a grid of cells that every operation changes at once,  *)
(* and a screen that shows the grid and the cursor after each flush.       *)
(* Neither the queue nor the map of backends/fb.c appear here; FbTerm      *)
(* models those and implements this specification.                         *)
(***************************************************************************)
EXTENDS Integers, Sequences

CONSTANTS
  Rows, Cols,   \* size of the terminal
  INT_BITS,     \* width of an int
  Glyphs        \* characters that are written, apart from the blank

TextGridAssumption ==
  /\ Rows \in Nat \ {0} /\ Cols \in Nat \ {0} /\ INT_BITS \in Nat \ {0}

Cells == 0 .. Rows * Cols - 1
Row(i) == i \div Cols
At(x, y) == y * Cols + x

\* Colours of the pen; "none" is the transparent background 0xffffffff, and
\* the saved pen is zero, which is black, before it is saved.
default_fg == "grey"
NoColour == "none"

VARIABLES
  term,         \* [cells, x, y, fg, bg, saved]: the grid, the cursor, the pen
  shown         \* [cursor, cells]: what the screen shows, with the cursor on or off

Char(t, c) == [c |-> c, fg |-> t.fg, bg |-> t.bg]
Pen(fg, bg) == [x |-> 0, y |-> 0, fg |-> fg, bg |-> bg]

Fresh ==
  [cells |-> [i \in Cells |-> [c |-> " ", fg |-> default_fg, bg |-> NoColour]],
   x |-> 0, y |-> 0, fg |-> default_fg, bg |-> NoColour,
   saved |-> Pen("black", "black")]
-----------------------------------------------------------------------------
Put(t, c, x, y) ==
  IF x >= Cols \/ y >= Rows THEN t ELSE [t EXCEPT !.cells[At(x, y)] = c]

\* The rows between the margins move up by one; the last becomes blank.
scroll(t, top, bot) ==
  [t EXCEPT !.cells = [i \in Cells |->
     CASE Row(i) >= top /\ Row(i) < bot - 1 -> t.cells[i + Cols]
       [] Row(i) = bot - 1 -> Char(t, " ")
       [] OTHER -> t.cells[i]]]

\* The rows between the margins move down by one; the first becomes blank.
revscroll(t, top, bot) ==
  [t EXCEPT !.cells = [i \in Cells |->
     CASE Row(i) = top -> Char(t, " ")
       [] Row(i) > top /\ Row(i) < bot -> t.cells[i - Cols]
       [] OTHER -> t.cells[i]]]

clear(t, move) ==
  [t EXCEPT !.cells = [i \in Cells |-> Char(t, " ")],
            !.x = IF move THEN 0 ELSE @, !.y = IF move THEN 0 ELSE @]

\* A size_t that is no column (row) counts as the first or as the last one,
\* by the sign of its lower half.
Clamp(n, limit) ==
  IF n \in 0 .. limit - 1 THEN n
  ELSE IF n % 2^INT_BITS >= 2^(INT_BITS - 1) THEN 0 ELSE limit - 1

set_cursor_pos(t, x, y) == [t EXCEPT !.x = Clamp(x, Cols), !.y = Clamp(y, Rows)]

\* get_cursor_pos()
CursorX(t) == IF t.x >= Cols THEN Cols - 1 ELSE t.x
CursorY(t) == IF t.y >= Rows THEN Rows - 1 ELSE t.y

move_character(t, nx, ny, ox, oy) ==
  IF ox >= Cols \/ oy >= Rows \/ nx >= Cols \/ ny >= Rows THEN t
  ELSE Put(t, t.cells[At(ox, oy)], nx, ny)

\* The cursor of a full row goes to the next one, which may scroll.
Wrapped(t, top, bot, scroll_enabled) ==
  LET y1 == IF t.y + 1 = bot THEN t.y ELSE t.y + 1
      u  == [t EXCEPT !.x = 0, !.y = IF y1 >= Cols THEN Cols - 1 ELSE y1]
  IN  IF t.x < Cols \/ (t.y >= bot - 1 /\ ~ scroll_enabled) THEN t
      ELSE IF t.y + 1 = bot THEN scroll(u, top, bot) ELSE u

raw_putchar(t, c, top, bot, scroll_enabled) ==
  LET w == Wrapped(t, top, bot, scroll_enabled)
  IN  [Put(w, Char(w, c), w.x, w.y) EXCEPT !.x = @ + 1]

swap_palette(t) == [t EXCEPT !.fg = t.bg, !.bg = t.fg]
set_text_fg(t, fg) == [t EXCEPT !.fg = fg]
set_text_bg(t, bg) == [t EXCEPT !.bg = bg]
save_state(t) == [t EXCEPT !.saved = [x |-> t.x, y |-> t.y, fg |-> t.fg, bg |-> t.bg]]
restore_state(t) ==
  [t EXCEPT !.x = t.saved.x, !.y = t.saved.y, !.fg = t.saved.fg, !.bg = t.saved.bg]

\* The grid, with the colours of the cell under a cursor that is on swapped.
Picture(t, cursor_enabled) ==
  [cursor |-> cursor_enabled,
   cells |-> [i \in Cells |->
     IF cursor_enabled /\ t.x < Cols /\ t.y < Rows /\ i = At(t.x, t.y)
     THEN [t.cells[i] EXCEPT !.fg = t.cells[i].bg, !.bg = t.cells[i].fg]
     ELSE t.cells[i]]]
-----------------------------------------------------------------------------
Margins == {m \in (0 .. Rows - 1) \X (1 .. Rows) : m[1] < m[2] - 1} \cup {<<0, Rows>>}

Edit(t) == term' = t /\ UNCHANGED shown

Init == term = Fresh /\ shown = Picture(Fresh, TRUE)

Next ==
  \/ \E c \in Glyphs \cup {" "}, m \in Margins, on \in BOOLEAN :
       Edit(raw_putchar(term, c, m[1], m[2], on))
  \/ \E m \in Margins : Edit(scroll(term, m[1], m[2])) \/ Edit(revscroll(term, m[1], m[2]))
  \/ \E y \in 0 .. Rows - 1 : Edit(revscroll(term, y, Rows))
  \/ \E move \in BOOLEAN : Edit(clear(term, move))
  \/ \E x \in -1 .. Cols, y \in -1 .. Rows : Edit(set_cursor_pos(term, x, y))
  \/ \E nx, ox \in 0 .. Cols, y \in 0 .. Rows - 1 :
       Edit(move_character(term, nx, y, ox, y))
  \/ \E colour \in {default_fg, NoColour, "red"} :
       Edit(set_text_fg(term, colour)) \/ Edit(set_text_bg(term, colour))
  \/ Edit(swap_palette(term)) \/ Edit(save_state(term)) \/ Edit(restore_state(term))
  \/ \E on \in BOOLEAN : term' = term /\ shown' = Picture(term, on)

Spec == Init /\ [][Next]_<<term, shown>>
=============================================================================
