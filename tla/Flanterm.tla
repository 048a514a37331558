------------------------------ MODULE Flanterm ------------------------------
(***************************************************************************)
(* The escape sequence parser of the terminal: flanterm.c.  A write passes *)
(* each byte of its buffer to flanterm_putchar() and then flushes the back *)
(* end; a buffer may end in the middle of a sequence.  The back end is the *)
(* grid of TextGrid, which FbTerm implements, and the attributes are those *)
(* of Sgr.  tty.c sets no callback, so what would be reported to one is    *)
(* left out.  All printable characters but the blank share a glyph.        *)
(***************************************************************************)
EXTENDS TextGrid, SequencesExt, FiniteSetsExt

CONSTANTS
  Buffers,      \* what flanterm_write() is called with: sequences of bytes
  MAX_ESC_VALUES,
  TAB_SIZE

FlantermAssumption == MAX_ESC_VALUES \in Nat \ {0, 1} /\ TAB_SIZE \in Nat \ {0}

VARIABLES
  attr, saved_attr,   \* see Sgr
  ctx                 \* the other fields of struct flanterm_context

vars == <<term, shown, attr, saved_attr, ctx>>

Text == INSTANCE Sgr WITH ValueLists <- {}, MaxSaves <- 0, saves <- 0

Digits == <<"0", "1", "2", "3", "4", "5", "6", "7", "8", "9">>
IsDigit(b) == \E d \in 1 .. 10 : Digits[d] = b
DigitValue(b) == (CHOOSE d \in 1 .. 10 : Digits[d] = b) - 1

\* Bytes that are not ASCII: leading bytes of UTF-8, by the number of bytes
\* that follow, and the bytes that continue a character.
Leading == [L2 |-> 1, L3 |-> 2, L4 |-> 3]
Glyph(b) == IF b = " " THEN " " ELSE "x"
\* A character that the DEC special set shows as a line drawing one.
DecSpecial(b) == b \in {"backquote", "0", "-", ",", ".", "a", "f", "g", "h", "j", "k", "l", "m", "n",
                        "q", "s", "t", "u", "v", "w", "x", "y", "z", "~", "_", "+", "{", "}"}

\* flanterm_context_reinit(), the fields of ctx and those of attr
Reinit ==
  [cursor_enabled |-> TRUE, scroll_enabled |-> TRUE, control_sequence |-> FALSE,
   escape |-> FALSE, osc |-> FALSE, osc_escape |-> FALSE, rrr |-> FALSE,
   discard_next |-> FALSE, dec_private |-> FALSE, insert_mode |-> FALSE,
   unicode_remaining |-> 0, g_select |-> 0, charsets |-> [i \in 0 .. 1 |-> i],
   current_charset |-> 0, saved_charset |-> 0, escape_offset |-> 0, esc_values_i |-> 0,
   esc_values |-> [i \in 0 .. MAX_ESC_VALUES - 1 |-> 0], saved_x |-> 0, saved_y |-> 0,
   top |-> 0, bot |-> Rows]
-----------------------------------------------------------------------------
(* A machine m = [c, a, s, t]: ctx, attr, saved_attr and the terminal.     *)

X(m) == CursorX(m.t)
Y(m) == CursorY(m.t)
Value(m, i) == m.c.esc_values[i]
Cursor(m, x, y) == [m EXCEPT !.t = set_cursor_pos(m.t, x, y)]
Raw(m, c) == [m EXCEPT !.t = raw_putchar(m.t, c, m.c.top, m.c.bot, m.c.scroll_enabled)]
Blanks(m, n) == FoldLeft(LAMBDA u, k : Raw(u, " "), m, [k \in 1 .. n |-> k])
Scroll(m) == [m EXCEPT !.t = scroll(m.t, m.c.top, m.c.bot)]
Revscroll(m, top) == [m EXCEPT !.t = revscroll(m.t, top, m.c.bot)]
Times(m, n, Op(_)) == FoldLeft(LAMBDA u, k : Op(u), m, [k \in 1 .. n |-> k])
Move(m, new, old) == [m EXCEPT !.t = move_character(m.t, new, Y(m), old, Y(m))]

\* Cursor up and down: a margin that is crossed stops the cursor.
CursorUp(m, x) ==
  LET dest == Y(m) - Min({Value(m, 0), Y(m)})
      Crosses(l) == l >= dest /\ l <= Y(m)
  IN  Cursor(m, x, IF (Crosses(m.c.top) \/ Crosses(m.c.bot)) /\ dest < m.c.top
                   THEN m.c.top ELSE dest)
CursorDown(m, x) ==
  LET dest == Min({Y(m) + Value(m, 0), Rows - 1})
      Crosses(l) == l >= Y(m) /\ l <= dest
  IN  Cursor(m, x, IF (Crosses(m.c.top) \/ Crosses(m.c.bot)) /\ dest >= m.c.bot
                   THEN m.c.bot - 1 ELSE dest)
CursorRight(m) == Cursor(m, Min({X(m) + Value(m, 0), Cols - 1}), Y(m))
CursorLeft(m) == Cursor(m, X(m) - Min({Value(m, 0), X(m)}), Y(m))

\* A row or column of "d" and "G": an unsigned decrement, then the limit
Absolute(v, limit) == Min({(v - 1) % 2^INT_BITS, limit - 1})
CursorTo(m) ==
  LET Dec(v, limit) == Min({IF v = 0 THEN 0 ELSE v - 1, limit - 1})
  IN  Cursor(m, Dec(Value(m, 1), Cols), Dec(Value(m, 0), Rows))

DeleteLines(m) == Times(m, Min({Value(m, 0), Rows}), Scroll)
InsertLines(m) == LET y == Y(m) IN Times(m, Min({Value(m, 0), Rows}), LAMBDA u : Revscroll(u, y))

EraseDisplay(m) ==
  CASE Value(m, 0) = 0 ->
         Cursor(Blanks(m, (Rows - (Y(m) + 1)) * Cols + (Cols - (X(m) + 1)) + 1), X(m), Y(m))
    [] Value(m, 0) = 1 -> Cursor(Blanks(Cursor(m, 0, 0), At(X(m), Y(m)) + 1), X(m), Y(m))
    [] Value(m, 0) \in {2, 3} -> [m EXCEPT !.t = clear(m.t, FALSE)]
    [] OTHER -> m

EraseLine(m) ==
  CASE Value(m, 0) = 0 -> Cursor(Blanks(m, Cols - X(m)), X(m), Y(m))
    [] Value(m, 0) = 1 -> Blanks(Cursor(m, 0, Y(m)), X(m))
    [] Value(m, 0) = 2 -> Cursor(Blanks(Cursor(m, 0, Y(m)), Cols), X(m), Y(m))
    [] OTHER -> m

EraseChars(m, x) == Cursor(Blanks(m, Min({Value(m, 0), Cols})), x, Y(m))
InsertChars(m) ==
  LET Step(u, i) == Raw(Cursor(Move(u, i + Value(m, 0), i), i, Y(m)), " ")
  IN  Cursor(FoldLeft(Step, m, [k \in 1 .. Cols - X(m) |-> Cols - k]), X(m), Y(m))
DeleteChars(m) ==
  LET v == Value(m, 0)
      moved == FoldLeft(LAMBDA u, i : Move(u, i - v, i), m,
                        [k \in 1 .. Cols - X(m) - v |-> X(m) + v + k - 1])
  IN  EraseChars(Cursor(moved, Cols - v, Y(m)), X(m))

\* Mutant: the margins are taken as they come.
SetMargins_Unchecked(m) ==
  Cursor([m EXCEPT !.c.top = IF m.c.esc_values_i > 0 THEN Max({Value(m, 0), 1}) - 1 ELSE 0,
                   !.c.bot = IF m.c.esc_values_i > 1 THEN Max({Value(m, 1), 1}) ELSE Rows], 0, 0)

SetMargins(m) ==
  LET top == IF m.c.esc_values_i > 0 THEN Max({Value(m, 0), 1}) - 1 ELSE 0
      bot == IF m.c.esc_values_i > 1 THEN Max({Value(m, 1), 1}) ELSE Rows
      bad == top >= Rows \/ bot > Rows \/ top >= bot - 1
  IN  Cursor([m EXCEPT !.c.top = IF bad THEN 0 ELSE top, !.c.bot = IF bad THEN Rows ELSE bot],
             0, 0)

\* "h" and "l": modes and private modes
mode_toggle(m, on) ==
  IF m.c.esc_values_i # 0 /\ Value(m, 0) = 4 THEN [m EXCEPT !.c.insert_mode = on] ELSE m
dec_private_parse(m, b) ==
  LET u == [m EXCEPT !.c.dec_private = FALSE]
  IN  IF m.c.esc_values_i # 0 /\ b \in {"h", "l"} /\ Value(m, 0) = 25
      THEN [u EXCEPT !.c.cursor_enabled = (b = "h")] ELSE u

\* What the last byte of a control sequence asks for.
Final(m, b) ==
  CASE b = "A" -> CursorUp(m, X(m))
    [] b = "F" -> CursorUp(m, 0)
    [] b \in {"B", "e"} -> CursorDown(m, X(m))
    [] b = "E" -> CursorDown(m, 0)
    [] b \in {"C", "a"} -> CursorRight(m)
    [] b = "D" -> CursorLeft(m)
    [] b = "d" -> Cursor(m, X(m), Absolute(Value(m, 0), Rows))
    [] b \in {"G", "backquote"} -> Cursor(m, Absolute(Value(m, 0), Cols), Y(m))
    [] b \in {"H", "f"} -> CursorTo(m)
    [] b = "M" -> DeleteLines(m)
    [] b = "L" -> InsertLines(m)
    [] b = "J" -> EraseDisplay(m)
    [] b = "@" -> InsertChars(m)
    [] b = "P" -> DeleteChars(m)
    [] b = "X" -> EraseChars(m, X(m))
    [] b = "m" -> LET r == Text!sgr([a |-> m.a, t |-> m.t],
                                    [i \in 1 .. m.c.esc_values_i |-> Value(m, i - 1)])
                  IN  [m EXCEPT !.a = r.a, !.t = r.t]
    [] b = "s" -> [m EXCEPT !.c.saved_x = X(m), !.c.saved_y = Y(m)]
    [] b = "u" -> Cursor(m, m.c.saved_x, m.c.saved_y)
    [] b = "K" -> EraseLine(m)
    [] b = "r" -> SetMargins(m)
    [] b \in {"h", "l"} -> mode_toggle(m, b = "h")
    [] OTHER -> m
-----------------------------------------------------------------------------
Ended(m) == [m EXCEPT !.c.control_sequence = FALSE, !.c.escape = FALSE]

\* The values that a sequence does not give have a default.
WithDefaults(m, b) ==
  [m EXCEPT !.c.esc_values = [i \in DOMAIN @ |->
     IF i < m.c.esc_values_i THEN @[i] ELSE IF b \in {"J", "K", "q"} THEN 0 ELSE 1]]

Digit(m, b) ==
  IF m.c.esc_values_i = MAX_ESC_VALUES THEN m
  ELSE [m EXCEPT !.c.rrr = TRUE,
                 !.c.esc_values[m.c.esc_values_i] = (@ * 10 + DigitValue(b)) % 2^INT_BITS]

Semicolon(m) ==
  IF m.c.rrr THEN [m EXCEPT !.c.rrr = FALSE, !.c.esc_values_i = @ + 1]
  ELSE IF m.c.esc_values_i = MAX_ESC_VALUES THEN m
  ELSE [m EXCEPT !.c.esc_values[m.c.esc_values_i] = 0, !.c.esc_values_i = @ + 1]

\* The sequence is complete; a private one only sets modes.
Finish(m, b) ==
  IF m.c.dec_private THEN Ended(dec_private_parse(m, b))
  ELSE Ended([Final([m EXCEPT !.c.scroll_enabled = FALSE], b)
              EXCEPT !.c.scroll_enabled = m.c.scroll_enabled])

control_sequence_parse(m, b) ==
  CASE m.c.escape_offset = 2 /\ b = "[" -> Ended([m EXCEPT !.c.discard_next = TRUE])
    [] m.c.escape_offset = 2 /\ b = "?" -> [m EXCEPT !.c.dec_private = TRUE]
    [] IsDigit(b) -> Digit(m, b)
    [] b = ";" -> Semicolon(m)
    [] OTHER -> LET u == IF m.c.rrr
                         THEN [m EXCEPT !.c.rrr = FALSE, !.c.esc_values_i = @ + 1] ELSE m
                IN  Finish(WithDefaults(u, b), b)

osc_parse(m, b) ==
  IF (m.c.osc_escape /\ b = "\\") \/ b = "BEL"
  THEN [m EXCEPT !.c.osc_escape = FALSE, !.c.osc = FALSE, !.c.escape = FALSE]
  ELSE [m EXCEPT !.c.osc_escape = (b = "ESC")]

\* Line feed, with or without a scroll; `x` is the column to go to.
Feed(m, x) ==
  LET y == Y(m)
  IN  IF y = m.c.bot - 1 THEN Cursor(Scroll(m), x, y) ELSE Cursor(m, x, y + 1)

ReverseFeed(m) ==
  LET y == Y(m)
  IN  IF y = m.c.top THEN Cursor(Revscroll(m, m.c.top), 0, y) ELSE Cursor(m, 0, y - 1)

\* The byte after ESC.  The sequences for an operating system command and for
\* control sequences go on, the others are over.
AfterEscape(m, b) ==
  CASE b = "7" -> [m EXCEPT !.s = m.a, !.c.saved_charset = m.c.current_charset,
                            !.t = save_state(m.t)]
    [] b = "8" -> [m EXCEPT !.a = m.s, !.c.current_charset = m.c.saved_charset,
                            !.t = restore_state(m.t)]
    [] b = "c" -> [m EXCEPT !.c = [Reinit EXCEPT !.saved_charset = m.c.saved_charset],
                            !.a = Text!NoAttributes, !.t = clear(m.t, TRUE)]
    [] b = "D" -> Feed(m, X(m))
    [] b = "E" -> Feed(m, 0)
    [] b = "M" -> ReverseFeed(m)
    [] b \in {"(", ")"} -> [m EXCEPT !.c.g_select = IF b = "(" THEN 1 ELSE 2]
    [] OTHER -> m

\* escape_offset is only compared with 2.
escape_parse(n, b) ==
  LET m == [n EXCEPT !.c.escape_offset = Min({@ + 1, 3})]
  IN  CASE m.c.osc -> osc_parse(m, b)
        [] ~ m.c.osc /\ m.c.control_sequence -> control_sequence_parse(m, b)
        [] ~ m.c.osc /\ ~ m.c.control_sequence /\ b = "]" ->
             [m EXCEPT !.c.osc_escape = FALSE, !.c.osc = TRUE]
        [] ~ m.c.osc /\ ~ m.c.control_sequence /\ b = "[" ->
             [m EXCEPT !.c.esc_values = [i \in DOMAIN @ |-> 0], !.c.esc_values_i = 0,
                       !.c.rrr = FALSE, !.c.control_sequence = TRUE]
        [] OTHER -> [AfterEscape(m, b) EXCEPT !.c.escape = FALSE]
-----------------------------------------------------------------------------
\* A character of UTF-8 is complete: its glyph, or a replacement that is as
\* wide as the character.
Unicode(m, width) ==
  IF width = 0 THEN m ELSE Blanks(Raw(m, "x"), width - 1)

Tab(m) ==
  LET stop == X(m) \div TAB_SIZE + 1
  IN  Cursor(m, IF stop >= Cols THEN Cols - 1 ELSE stop * TAB_SIZE, Y(m))

Printed(m, b) ==
  LET u == IF m.c.insert_mode
           THEN FoldLeft(LAMBDA v, i : Move(v, i + 1, i), m, [k \in 1 .. Cols - X(m) |-> Cols - k])
           ELSE m
  IN  Raw(u, IF m.c.charsets[m.c.current_charset] = 1 /\ DecSpecial(b) THEN "x" ELSE Glyph(b))

\* A byte outside of any sequence.
Ground(m, b) ==
  CASE b \in {"NUL", "BEL"} -> m
    [] b = "ESC" -> [m EXCEPT !.c.escape_offset = 0, !.c.escape = TRUE]
    [] b = "TAB" -> Tab(m)
    [] b = "LF" -> Feed(m, 0)
    [] b = "BS" -> Cursor(m, X(m) - 1, Y(m))
    [] b = "CR" -> Cursor(m, 0, Y(m))
    [] b \in {"SO", "SI"} -> [m EXCEPT !.c.current_charset = IF b = "SO" THEN 1 ELSE 0]
    [] OTHER -> Printed(m, b)

SelectCharset(m, b) ==
  [m EXCEPT !.c.g_select = 0,
            !.c.charsets[m.c.g_select - 1] =
              CASE b = "B" -> 0 [] b = "0" -> 1 [] OTHER -> @]

Abort(m) ==
  [m EXCEPT !.c.discard_next = FALSE, !.c.escape = FALSE, !.c.control_sequence = FALSE,
            !.c.unicode_remaining = 0, !.c.osc = FALSE, !.c.osc_escape = FALSE, !.c.g_select = 0]

\* flanterm_putchar(); width is that of the character that a byte completes.
flanterm_putchar(n, b, width) ==
  LET m == [n EXCEPT !.c.unicode_remaining = IF b = "CONT" /\ @ > 0 THEN @ - 1 ELSE 0]
  IN  CASE n.c.discard_next \/ b = "CAN" -> Abort(n)
        [] ~ n.c.discard_next /\ b # "CAN" /\ n.c.unicode_remaining > 0 /\ b = "CONT" ->
             IF m.c.unicode_remaining > 0 THEN m ELSE Unicode(m, width)
        [] ~ n.c.discard_next /\ b \in DOMAIN Leading ->
             [m EXCEPT !.c.unicode_remaining = Leading[b]]
        [] OTHER -> IF m.c.escape THEN escape_parse(m, b)
                    ELSE IF m.c.g_select > 0 THEN SelectCharset(m, b)
                    ELSE Ground(m, b)
-----------------------------------------------------------------------------
FlantermInit ==
  /\ Init /\ attr = Text!NoAttributes /\ saved_attr = Text!ZeroAttributes /\ ctx = Reinit

Machine == [c |-> ctx, a |-> attr, s |-> saved_attr, t |-> term]

Written(buf, width) ==
  FoldLeft(LAMBDA u, b : flanterm_putchar(u, b, width), Machine, buf)

\* The values of a sequence that is over are not read again: the next one
\* starts with fresh ones.
Forget(c) ==
  IF c.control_sequence THEN c
  ELSE [c EXCEPT !.esc_values = Reinit.esc_values, !.esc_values_i = 0, !.rrr = FALSE,
                 !.escape_offset = 0]

flanterm_write(buf) ==
  \E width \in IF Contains(buf, "CONT") THEN 0 .. 2 ELSE {1} :
    LET m == Written(buf, width)
    IN  /\ ctx' = Forget(m.c) /\ attr' = m.a /\ saved_attr' = m.s /\ term' = m.t
        /\ shown' = Picture(m.t, m.c.cursor_enabled)

FlantermNext == \E buf \in Buffers : flanterm_write(buf)
FlantermSpec == FlantermInit /\ [][FlantermNext]_vars
-----------------------------------------------------------------------------
\* The parser is in one state at a time: a control sequence and an operating
\* system command are parts of an escape sequence and exclude each other, and
\* the values of a sequence stay within their array.
ParserSound ==
  /\ ctx.control_sequence \/ ctx.osc => ctx.escape
  /\ ~ (ctx.control_sequence /\ ctx.osc) /\ ~ (ctx.discard_next /\ ctx.escape)
  /\ ctx.osc_escape => ctx.osc
  /\ ctx.esc_values_i + (IF ctx.rrr THEN 1 ELSE 0) <= MAX_ESC_VALUES

\* Between two bytes the scroll region has at least two rows of the screen (or
\* is all of it), and scrolling is on.
RegionSound ==
  /\ (ctx.top = 0 /\ ctx.bot = Rows) \/ (ctx.top < ctx.bot - 1 /\ ctx.bot <= Rows)
  /\ ctx.scroll_enabled

CSI(v, b) == <<"ESC", "[", v, b>>
InGround == ~ ctx.escape /\ ~ ctx.discard_next /\ ctx.unicode_remaining = 0 /\ ctx.g_select = 0

\* Erasing, inserting and deleting characters leaves the cursor where it was.
EditKeepsCursor ==
  InGround =>
    \A v \in {"0", "1", "3"}, b \in {"J", "K", "@", "P", "X"} :
      LET t == Written(CSI(v, b), 1).t
      IN  CursorX(t) = CursorX(term) /\ CursorY(t) = CursorY(term)

\* Text that scrolls stays inside the margins: a feed in either direction and
\* the deletion of lines leave the other rows alone.
ScrollInsideRegion ==
  InGround =>
    \A buf \in {<<"LF">>, <<"ESC", "M">>, CSI("1", "M")} :
      LET t == Written(buf, 1).t
      IN  \A i \in Cells : Row(i) < ctx.top \/ Row(i) >= ctx.bot => t.cells[i] = term.cells[i]

\* With the whole screen as its region, a character that is printed is on the
\* screen left of the cursor, and the others are where they were or one row up.
PrintShows ==
  InGround /\ ~ ctx.insert_mode /\ ctx.bot = Rows /\ ctx.top = 0 /\ term.y < Rows =>
    LET t == Written(<<"x">>, 1).t
        i == At(t.x - 1, t.y)
    IN  /\ t.x > 0 /\ t.cells[i].c = "x"
        /\ \/ \A j \in Cells \ {i} : t.cells[j] = term.cells[j]
           \/ \A j \in Cells : Row(j) < Rows - 1 => t.cells[j] = term.cells[j + Cols]
=============================================================================
