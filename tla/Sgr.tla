-------------------------------- MODULE Sgr ---------------------------------
(***************************************************************************)
(* The attributes of the terminal's text: sgr() of flanterm.c, which a     *)
(* control sequence that ends in "m" calls with its list of values, and    *)
(* the saving and restoring of the attributes.  The parser remembers the   *)
(* attributes (bold, colours, reverse video), the back end holds the two   *)
(* colours of the pen; every value changes both.                           *)
(***************************************************************************)
EXTENDS TextGrid

CONSTANTS
  ValueLists,   \* value lists of the sequences that are sent
  MaxSaves      \* bound: times that the attributes are saved

VARIABLES
  attr,         \* bold, bg_bold, reverse_video, current_primary, current_bg
  saved_attr,   \* the saved_state_ fields
  saves         \* number of times they were saved

sgrVars == <<term, shown, attr, saved_attr, saves>>

NONE == -1      \* (size_t)-1
ansi_colours == <<"black", "red", "green", "brown", "blue", "magenta", "cyan", "grey">>
ansi_bright_colours ==
  <<"dark grey", "light red", "light green", "yellow", "light blue", "pink", "light cyan",
    "white">>
default_fg_bright == "white"
default_bg_bright == "dark grey"

NoAttributes == [bold |-> FALSE, bg_bold |-> FALSE, reverse_video |-> FALSE,
                 current_primary |-> NONE, current_bg |-> NONE]
ZeroAttributes == [NoAttributes EXCEPT !.current_primary = 0, !.current_bg = 0]
-----------------------------------------------------------------------------
\* The colour of the text and of its background.
Ink(n, bright) ==
  IF n = NONE THEN IF bright THEN default_fg_bright ELSE default_fg
  ELSE IF bright THEN ansi_bright_colours[n + 1] ELSE ansi_colours[n + 1]
Paper(n, bright) ==
  IF n = NONE THEN IF bright THEN default_bg_bright ELSE NoColour
  ELSE IF bright THEN ansi_bright_colours[n + 1] ELSE ansi_colours[n + 1]

\* A machine [a, t]: attributes and terminal.  In reverse video the colour of
\* the text is the pen's background.
SetFg(m, colour) == [m EXCEPT !.t = set_text_fg(m.t, colour)]
SetBg(m, colour) == [m EXCEPT !.t = set_text_bg(m.t, colour)]
Swap(m) == [m EXCEPT !.t = swap_palette(m.t)]

\* A reversed pen whose colour is the default one gets the default of the
\* pen's side, not the one of the text.
BoldInk(m, bright) ==
  LET n == m.a.current_primary
  IN  IF m.a.reverse_video
      THEN SetBg(m, IF n = NONE THEN Paper(NONE, bright) ELSE Ink(n, bright))
      ELSE SetFg(m, Ink(n, bright))
BoldPaper(m, bright) ==
  LET n == m.a.current_bg
  IN  IF m.a.reverse_video
      THEN SetFg(m, IF n = NONE THEN Ink(NONE, bright) ELSE Paper(n, bright))
      ELSE SetBg(m, Paper(n, bright))

Reset(m) ==
  LET u == IF m.a.reverse_video THEN Swap(m) ELSE m
  IN  SetFg(SetBg([u EXCEPT !.a = NoAttributes], NoColour), default_fg)

\* set_fg, set_bg and their bright forms
Primary(m, n, bright) ==
  LET u == [m EXCEPT !.a.current_primary = n]
  IN  IF m.a.reverse_video THEN SetBg(u, Ink(n, bright)) ELSE SetFg(u, Ink(n, bright))
Background(m, n, bright) ==
  LET u == [m EXCEPT !.a.current_bg = n]
  IN  IF m.a.reverse_video THEN SetFg(u, Paper(n, bright)) ELSE SetBg(u, Paper(n, bright))

\* 39 and 49 swap the pen around the change.
InSwap(m, Change(_)) == IF m.a.reverse_video THEN Swap(Change(Swap(m))) ELSE Change(m)
DefaultPrimary(m) ==
  InSwap([m EXCEPT !.a.current_primary = NONE],
         LAMBDA u : SetFg(u, Ink(NONE, m.a.bold)))
DefaultBackground(m) ==
  InSwap([m EXCEPT !.a.current_bg = NONE],
         LAMBDA u : SetBg(u, Paper(NONE, m.a.bg_bold)))

Reverse(m, on) ==
  IF m.a.reverse_video = on THEN m ELSE Swap([m EXCEPT !.a.reverse_video = on])

\* One value that is not the start of an extended colour.
Attribute(m, v) ==
  CASE v = 0 -> Reset(m)
    [] v = 1 -> BoldInk([m EXCEPT !.a.bold = TRUE], TRUE)
    [] v = 5 -> BoldPaper([m EXCEPT !.a.bg_bold = TRUE], TRUE)
    [] v = 22 -> BoldInk([m EXCEPT !.a.bold = FALSE], FALSE)
    [] v = 25 -> BoldPaper([m EXCEPT !.a.bg_bold = FALSE], FALSE)
    [] v \in 30 .. 37 -> Primary(m, v - 30, m.a.bold)
    [] v \in 40 .. 47 -> Background(m, v - 40, m.a.bg_bold)
    [] v \in 90 .. 97 -> Primary(m, v - 90, TRUE)
    [] v \in 100 .. 107 -> Background(m, v - 100, TRUE)
    [] v = 39 -> DefaultPrimary(m)
    [] v = 49 -> DefaultBackground(m)
    [] v = 7 -> Reverse(m, TRUE)
    [] v = 27 -> Reverse(m, FALSE)
    [] OTHER -> m

\* The pen's colour, in 256 colours or in RGB; the attributes stay.
SetSide(m, fg, colour) == IF fg THEN SetFg(m, colour) ELSE SetBg(m, colour)
Palette256(m, fg, n) ==
  CASE n < 8 -> SetSide(m, fg, ansi_colours[n + 1])
    [] n \in 8 .. 15 -> SetSide(m, fg, ansi_bright_colours[n - 7])
    [] n \in 16 .. 255 -> SetSide(m, fg, "rgb")
    [] OTHER -> m

\* What follows 38;5;n.
Rest256(args) == SubSeq(args, 3, Len(args))

RECURSIVE sgr_values(_, _)
sgr_values(m, vals) ==
  IF vals = <<>> THEN m
  ELSE LET fg == Head(vals) = 38
           args == Tail(vals)
       IN  CASE Head(vals) \notin {38, 48} -> sgr_values(Attribute(m, Head(vals)), args)
             [] args = <<>> -> m
             [] args # <<>> /\ Head(args) = 2 ->
                  IF Len(args) < 4 THEN m
                  ELSE sgr_values(SetSide(m, fg, "rgb"), SubSeq(args, 5, Len(args)))
             [] args # <<>> /\ Head(args) = 5 ->
                  IF Len(args) < 2 THEN m
                  ELSE sgr_values(Palette256(m, fg, args[2]), Rest256(args))
             [] OTHER -> sgr_values(m, Tail(args))

\* A sequence without values resets the attributes.
sgr(m, vals) == IF vals = <<>> THEN Reset(m) ELSE sgr_values(m, vals)
-----------------------------------------------------------------------------
SgrInit ==
  /\ Init /\ attr = NoAttributes /\ saved_attr = ZeroAttributes /\ saves = 0

Do(m) == attr' = m.a /\ term' = m.t /\ shown' = Picture(m.t, TRUE)

Sequence(vals) ==
  Do(sgr([a |-> attr, t |-> term], vals)) /\ UNCHANGED <<saved_attr, saves>>
\* Mutant: the back end's half is saved, the parser's is not.
SaveState_Half ==
  /\ saves < MaxSaves /\ saves' = saves + 1 /\ UNCHANGED saved_attr
  /\ Do([a |-> attr, t |-> save_state(term)])

\* save_state() and restore_state()
SaveState ==
  /\ saves < MaxSaves /\ saves' = saves + 1
  /\ saved_attr' = attr
  /\ Do([a |-> attr, t |-> save_state(term)])
RestoreState ==
  Do([a |-> saved_attr, t |-> restore_state(term)]) /\ UNCHANGED <<saved_attr, saves>>

SgrNext == (\E vals \in ValueLists : Sequence(vals)) \/ SaveState \/ RestoreState
SgrSpec == SgrInit /\ [][SgrNext]_sgrVars
-----------------------------------------------------------------------------
\* The pen has the colours that the attributes name, on the sides that
\* reverse video gives them, bright where the text is bold.  A colour that
\* was set by 90 to 107 is bright without being bold.
Matches(a, t) ==
  LET ink   == IF a.reverse_video THEN t.bg ELSE t.fg
      paper == IF a.reverse_video THEN t.fg ELSE t.bg
      Side(c, Of(_, _), n, bold) ==
        (c = Of(n, TRUE) /\ (bold \/ n # NONE)) \/ (c = Of(n, FALSE) /\ ~ bold)
  IN  /\ Side(ink, Ink, a.current_primary, a.bold)
      /\ Side(paper, Paper, a.current_bg, a.bg_bold)

\* Bold text and its end take the colours of the wrong side when the pen is
\* reversed and the colour is the default one.
Crossed(v) ==
  attr.reverse_video /\ \/ v \in {1, 22} /\ attr.current_primary = NONE
                        \/ v \in {5, 25} /\ attr.current_bg = NONE

\* A value keeps the pen and the attributes in step, whatever was sent, saved
\* or restored before: reverse video moves the colours and loses none.
SgrKeepsMatch ==
  \A vals \in ValueLists :
    /\ Sequence(vals) /\ Matches(attr, term) /\ Len(vals) <= 1
    /\ \A i \in DOMAIN vals : vals[i] # 38 /\ ~ Crossed(vals[i])
    => Matches(attr', term')

\* The two halves of the saved state, the parser's and the back end's, belong
\* together as those of the present state do, the zeroes of a state that was
\* never saved included.
PenMatches ==
  /\ Matches(attr, term)
  /\ Matches(saved_attr, [fg |-> term.saved.fg, bg |-> term.saved.bg])

\* The arguments of an extended colour are never read as attributes.
ExtendedIsNoAttribute ==
  \A vals \in ValueLists :
    /\ Sequence(vals) /\ Len(vals) > 1 /\ vals[1] \in {38, 48}
    /\ (vals[2] = 2 /\ Len(vals) <= 5) \/ (vals[2] = 5 /\ Len(vals) <= 3)
    => attr' = attr
=============================================================================
