------------------------------- MODULE FbTerm -------------------------------
(***************************************************************************)
(* The frame buffer back end of the terminal: backends/fb.c.  Characters   *)
(* go to a queue of changed cells; map[] finds the queue entry of a cell,  *)
(* grid[] holds what was last plotted.  double_buffer_flush() plots the    *)
(* queue and moves the cursor.  The queue has room for one entry per cell  *)
(* and push_to_queue() does not check it.                                  *)
(*                                                                         *)
(* The parser calls the operations in any order; margins and the cursor    *)
(* and scroll flags are its state and come in as arguments.                *)
(***************************************************************************)
EXTENDS Integers, Sequences, SequencesExt

CONSTANTS
  Rows, Cols,   \* size of the terminal
  INT_BITS,     \* width of an int
  Glyphs,       \* characters that are written, apart from the blank
  Colours,      \* colours that are set
  MaxX,         \* bound: columns that the cursor runs past the row's end
  MaxOps        \* bound: operations

FbTermAssumption ==
  /\ Rows \in Nat \ {0} /\ Cols \in Nat \ {0} /\ INT_BITS \in Nat \ {0}
  /\ MaxX \in Nat /\ MaxOps \in Nat

VARIABLES
  fb,           \* the fields of struct flanterm_fb_context that change
  screen,       \* the frame buffer: the character plotted in each cell
  cursor,       \* cursor_enabled of the parser, as the last flush found it
  ops           \* number of operations so far

vars == <<fb, screen, cursor, ops>>

Cells == 0 .. Rows * Cols - 1
At(x, y) == y * Cols + x
Char(f, c) == [c |-> c, fg |-> f.text_fg, bg |-> f.text_bg]
Swapped(c) == [c EXCEPT !.fg = c.bg, !.bg = c.fg]
NULL == 0

\* The character of a cell: in the queue if there is an entry, else in grid[].
Current(f, i) == IF f.map[i] # NULL THEN f.queue[f.map[i]].c ELSE f.grid[i]

\* Mutant: an entry of the cell that is in the queue is not used again.
push_to_queue_NoMap(f, c, x, y) ==
  LET i == At(x, y)
  IN  IF x >= Cols \/ y >= Rows THEN f
      ELSE [f EXCEPT !.queue = Append(@, [at |-> i, c |-> c]), !.map[i] = Len(f.queue) + 1]

push_to_queue(f, c, x, y) ==
  LET i == At(x, y)
  IN  IF x >= Cols \/ y >= Rows THEN f
      ELSE IF f.map[i] # NULL THEN [f EXCEPT !.queue[f.map[i]].c = c]
      ELSE IF f.grid[i] = c THEN f
      ELSE [f EXCEPT !.queue = Append(@, [at |-> i, c |-> c]), !.map[i] = Len(f.queue) + 1]

\* The sequences of cell numbers that the loops run through.
Up(from, below) == [k \in 1 .. below - from |-> from + k - 1]
Down(from, to) == [k \in 1 .. from - to + 1 |-> from - k + 1]

\* push_to_queue() of the cell `by` places before each cell of a sequence
PushMoved(f, cells, by) ==
  FoldLeft(LAMBDA g, i : push_to_queue(g, Current(g, i), (i + by) % Cols, (i + by) \div Cols),
           f, cells)
PushBlank(f, cells) ==
  FoldLeft(LAMBDA g, i : push_to_queue(g, Char(f, " "), i % Cols, i \div Cols), f, cells)
Line(y) == Up(At(0, y), At(Cols, y))

flanterm_fb_revscroll(f, top, bot) ==
  PushBlank(PushMoved(f, Down((bot - 1) * Cols - 1, top * Cols), Cols), Line(top))

flanterm_fb_scroll(f, top, bot) ==
  PushBlank(PushMoved(f, Up((top + 1) * Cols, bot * Cols), -Cols), Line(bot - 1))

flanterm_fb_clear(f, move) ==
  [PushBlank(f, Up(0, Rows * Cols)) EXCEPT !.cursor_x = IF move THEN 0 ELSE @,
                                           !.cursor_y = IF move THEN 0 ELSE @]

\* (int) of a size_t that is out of range
Clamp(n, limit) ==
  IF n \in 0 .. limit - 1 THEN n
  ELSE IF n % 2^INT_BITS >= 2^(INT_BITS - 1) THEN 0 ELSE limit - 1

flanterm_fb_set_cursor_pos(f, x, y) ==
  [f EXCEPT !.cursor_x = Clamp(x, Cols), !.cursor_y = Clamp(y, Rows)]

flanterm_fb_move_character(f, nx, ny, ox, oy) ==
  IF ox >= Cols \/ oy >= Rows \/ nx >= Cols \/ ny >= Rows THEN f
  ELSE push_to_queue(f, Current(f, At(ox, oy)), nx, ny)

flanterm_fb_raw_putchar(f, c, top, bot, scroll_enabled) ==
  LET y1   == f.cursor_y + 1
      y2   == IF y1 = bot THEN f.cursor_y ELSE y1
      y3   == IF y2 >= Cols THEN Cols - 1 ELSE y2
      moved == [f EXCEPT !.cursor_x = 0, !.cursor_y = y3]
      w    == IF f.cursor_x < Cols \/ (f.cursor_y >= bot - 1 /\ ~ scroll_enabled) THEN f
              ELSE IF y1 = bot THEN flanterm_fb_scroll(moved, top, bot) ELSE moved
  IN  [push_to_queue(w, Char(w, c), w.cursor_x, w.cursor_y) EXCEPT !.cursor_x = @ + 1]

flanterm_fb_swap_palette(f) == [f EXCEPT !.text_fg = f.text_bg, !.text_bg = f.text_fg]
flanterm_fb_set_text_fg(f, fg) == [f EXCEPT !.text_fg = fg]
flanterm_fb_set_text_bg(f, bg) == [f EXCEPT !.text_bg = bg]
flanterm_fb_save_state(f) ==
  [f EXCEPT !.saved = [x |-> f.cursor_x, y |-> f.cursor_y, fg |-> f.text_fg, bg |-> f.text_bg]]
flanterm_fb_restore_state(f) ==
  [f EXCEPT !.cursor_x = f.saved.x, !.cursor_y = f.saved.y,
            !.text_fg = f.saved.fg, !.text_bg = f.saved.bg]
-----------------------------------------------------------------------------
\* A machine [f, screen] for the steps that plot.
plot_char(m, c, i) == [m EXCEPT !.screen[i] = c]

\* An entry of the queue has been plotted.
Taken(m, i) == [m EXCEPT !.f.grid[i] = Current(m.f, i), !.f.map[i] = NULL]

draw_cursor(m) ==
  LET i == At(m.f.cursor_x, m.f.cursor_y)
  IN  IF m.f.cursor_x >= Cols \/ m.f.cursor_y >= Rows THEN m
      ELSE Taken(plot_char(m, Swapped(Current(m.f, i)), i), i)

PlotQueue(m) ==
  FoldLeft(LAMBDA n, q : IF n.f.map[q.at] = NULL THEN n
                         ELSE Taken(plot_char(n, q.c, q.at), q.at),
           m, m.f.queue)

\* The cell that the cursor has left is plotted again.
EraseCursor(m, cursor_enabled) ==
  IF /\ m.f.old_x # m.f.cursor_x \/ m.f.old_y # m.f.cursor_y \/ ~ cursor_enabled
     /\ m.f.old_x < Cols /\ m.f.old_y < Rows
  THEN plot_char(m, m.f.grid[At(m.f.old_x, m.f.old_y)], At(m.f.old_x, m.f.old_y))
  ELSE m

flanterm_fb_double_buffer_flush(m, cursor_enabled) ==
  LET drawn  == IF cursor_enabled THEN draw_cursor(m) ELSE m
      erased == EraseCursor(PlotQueue(drawn), cursor_enabled)
  IN  [erased EXCEPT !.f.old_x = erased.f.cursor_x, !.f.old_y = erased.f.cursor_y,
                     !.f.queue = <<>>]
-----------------------------------------------------------------------------
\* The context after flanterm_fb_init(), whose full_refresh() has plotted the
\* empty grid and the cursor.
Init ==
  LET empty == [c |-> " ", fg |-> "grey", bg |-> "none"]
  IN  /\ fb = [grid |-> [i \in Cells |-> empty], map |-> [i \in Cells |-> NULL],
               queue |-> <<>>, cursor_x |-> 0, cursor_y |-> 0, old_x |-> 0, old_y |-> 0,
               text_fg |-> "grey", text_bg |-> "none",
               saved |-> [x |-> 0, y |-> 0, fg |-> "black", bg |-> "black"]]
      /\ screen = [i \in Cells |-> IF i = 0 THEN Swapped(empty) ELSE empty]
      /\ cursor = TRUE /\ ops = 0

Margins == {m \in (0 .. Rows - 1) \X (1 .. Rows) : m[1] < m[2] - 1} \cup {<<0, Rows>>}

Call(f) == ops < MaxOps /\ ops' = ops + 1 /\ fb' = f /\ UNCHANGED <<screen, cursor>>

raw_putchar ==
  \E c \in Glyphs \cup {" "}, m \in Margins, on \in BOOLEAN :
    /\ fb.cursor_x < Cols + MaxX
    /\ Call(flanterm_fb_raw_putchar(fb, c, m[1], m[2], on))
scroll == \E m \in Margins : Call(flanterm_fb_scroll(fb, m[1], m[2]))
\* The parser also moves the top margin to the cursor's row, to insert lines.
revscroll ==
  \/ \E m \in Margins : Call(flanterm_fb_revscroll(fb, m[1], m[2]))
  \/ \E y \in 0 .. Rows - 1 : Call(flanterm_fb_revscroll(fb, y, Rows))
clear == \E move \in BOOLEAN : Call(flanterm_fb_clear(fb, move))
set_cursor_pos ==
  \E x \in -1 .. Cols, y \in -1 .. Rows : Call(flanterm_fb_set_cursor_pos(fb, x, y))
move_character ==
  \E nx, ox \in 0 .. Cols, y \in 0 .. Rows - 1 :
    Call(flanterm_fb_move_character(fb, nx, y, ox, y))
set_text ==
  \/ \E colour \in Colours : \/ Call(flanterm_fb_set_text_fg(fb, colour))
                             \/ Call(flanterm_fb_set_text_bg(fb, colour))
  \/ Call(flanterm_fb_swap_palette(fb))
save_restore == Call(flanterm_fb_save_state(fb)) \/ Call(flanterm_fb_restore_state(fb))
double_buffer_flush ==
  \E on \in BOOLEAN :
    LET m == flanterm_fb_double_buffer_flush([f |-> fb, screen |-> screen], on)
    IN  /\ ops < MaxOps /\ ops' = ops + 1
        /\ fb' = m.f /\ screen' = m.screen /\ cursor' = on
Done == ops = MaxOps /\ UNCHANGED vars

Next ==
  \/ raw_putchar \/ scroll \/ revscroll \/ clear \/ set_cursor_pos \/ move_character
  \/ set_text \/ save_restore \/ double_buffer_flush \/ Done

Spec == Init /\ [][Next]_vars
-----------------------------------------------------------------------------
\* The queue never grows past the entries that flanterm_fb_init() allocates,
\* and each entry is the one that map[] names for its cell.
QueueFits ==
  /\ Len(fb.queue) <= Rows * Cols
  /\ \A k \in 1 .. Len(fb.queue) : fb.map[fb.queue[k].at] = k

Grid ==
  [cells |-> [i \in Cells |-> Current(fb, i)], x |-> fb.cursor_x, y |-> fb.cursor_y,
   fg |-> fb.text_fg, bg |-> fb.text_bg, saved |-> fb.saved]
Screen == [cursor |-> cursor, cells |-> screen]
Abstract == INSTANCE TextGrid WITH term <- Grid, shown <- Screen

\* Whatever is queued in whatever order, scrolled, overwritten or moved before
\* it is plotted, the parser sees a grid that changes at once, and a flush
\* leaves the grid and the cursor on the screen.
TextGridStep == [Abstract!Next]_<<Grid, Screen>>
=============================================================================
