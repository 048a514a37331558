----------------------------- MODULE MCTerminal -----------------------------
(***************************************************************************)
(* The terminal for TLC; "part" says what a behaviour exercises.           *)
(*                                                                         *)
(* "queue" is the frame buffer back end on two columns and three rows.     *)
(* "attributes" sends the values that tell the cases of sgr() apart, and   *)
(* "saved" those that change neither boldness nor one side of the pen      *)
(* alone, with saving and restoring.  "text" is text that wraps and        *)
(* scrolls, in and outside of a region, with cursor moves; "edit" erases,  *)
(* inserts and deletes at every position; "bytes" cuts sequences almost    *)
(* anywhere.  "start" begins with frame buffers of sizes around every      *)
(* limit of the code.                                                      *)
(***************************************************************************)
EXTENDS Integers, Sequences

INT_BITS == 5
Glyphs == {"x"}
MAX_ESC_VALUES == 2
TAB_SIZE == 2

Seq1(b) == <<"ESC", "[", b>>
Value1(v, b) == <<"ESC", "[", v, b>>
Value2(v, w, b) == <<"ESC", "[", v, ";", w, b>>

TextBuffers ==
  {<<"x">>, <<"LF">>, <<"TAB">>, <<"ESC", "M">>, Value2("2", "3", "r"),
   Value2("1", "2", "r"), Value2("3", "2", "r"), Value1("9", "B"), Value1("1", "M"),
   Value1("1", "L")}
EditBuffers ==
  {<<"x">>} \cup {Value1(v, b) : v \in {"0", "1", "2"}, b \in {"J", "K"}}
  \cup {Value1(v, b) : v \in {"0", "1", "3"}, b \in {"@", "P", "X"}}
  \cup {Value2("1", "2", "H"), Value2("2", "1", "H"), Seq1("H"), Value1("9", "G"),
        Value1("0", "d"), Value1("1", "C"), Value1("4", "h"), Value1("4", "l"), Seq1("s"),
        Seq1("u")}
ByteBuffers ==
  {<<"2", "5">>, <<"ESC", "(", "0">>} \cup
  {<<b>> : b \in {"x", "ESC", "[", "]", "?", ";", "h", "l", "CAN", "BEL", "\\", "L2",
                  "CONT", "c"}}

AllLists ==
  {<<>>} \cup {<<v>> : v \in {0, 1, 5, 7, 22, 25, 27, 31, 39, 44, 49, 92}}
  \cup {<<38, 5, 1>>, <<48, 5, 9>>, <<38, 2, 1, 7, 0>>, <<48, 2, 1>>, <<38>>, <<38, 5>>,
        <<48, 9, 1>>, <<7, 31>>}
PlainLists == {<<v>> : v \in {0, 7, 27, 31, 39, 44, 49, 92}}

Widths == {320, 640, 800, 1024, 1280, 1366, 1919, 1920, 1921, 2559, 2560, 3840, 5120, 7680}
Heights == {200, 480, 768, 1199, 1200, 1201, 1439, 1440, 2160, 2879, 2880, 4320}

VARIABLES
  part,                           \* what this behaviour is about
  fb, screen, cursor, ops,        \* FbTerm
  term, shown, attr, saved_attr,  \* Sgr and Flanterm
  saves, ctx,
  frame, ft_ctx, bump_alloc_ptr   \* FbInit

queueVars == <<fb, screen, cursor, ops>>
textVars == <<term, shown, attr, saved_attr, saves, ctx>>
startVars == <<frame, ft_ctx, bump_alloc_ptr>>
vars == <<part, queueVars, textVars, startVars>>

Queue == INSTANCE FbTerm WITH Rows <- 3, Cols <- 2, Colours <- {"red"}, MaxX <- 1, MaxOps <- 4
Attr == INSTANCE Sgr WITH Rows <- 1, Cols <- 1, ValueLists <- AllLists, MaxSaves <- 0
Saved == INSTANCE Sgr WITH Rows <- 1, Cols <- 1, ValueLists <- PlainLists, MaxSaves <- 2
Text == INSTANCE Flanterm WITH Rows <- 3, Cols <- 3, Buffers <- TextBuffers
Edit == INSTANCE Flanterm WITH Rows <- 2, Cols <- 3, Buffers <- EditBuffers
Bytes == INSTANCE Flanterm WITH Rows <- 1, Cols <- 1, Buffers <- ByteBuffers
Start == INSTANCE FbInit WITH MaskSizes <- {5, 8, 10}

ASSUME Queue!FbTermAssumption /\ Text!FlantermAssumption /\ Text!TextGridAssumption
ASSUME Start!FbInitAssumption
-----------------------------------------------------------------------------
Init ==
  /\ part \in {"queue", "attributes", "saved", "text", "edit", "bytes", "start"}
  /\ Queue!Init
  /\ \/ part = "text" /\ Text!FlantermInit
     \/ part = "edit" /\ Edit!FlantermInit
     \/ part \notin {"text", "edit"} /\ Bytes!FlantermInit
  /\ saves = 0
  /\ Start!Init
  /\ part # "start" => frame = [width |-> 320, height |-> 200, mask |-> <<8, 8, 8>>]

StepOf(name, A, others) == part = name /\ A /\ UNCHANGED <<part, others>>

Next ==
  \/ StepOf("queue", Queue!Next, <<textVars, startVars>>)
  \/ StepOf("attributes", Attr!SgrNext, <<ctx, queueVars, startVars>>)
  \/ StepOf("saved", Saved!SgrNext, <<ctx, queueVars, startVars>>)
  \/ StepOf("text", Text!FlantermNext, <<saves, queueVars, startVars>>)
  \/ StepOf("edit", Edit!FlantermNext, <<saves, queueVars, startVars>>)
  \/ StepOf("bytes", Bytes!FlantermNext, <<saves, queueVars, startVars>>)
  \/ StepOf("start", Start!Next, <<queueVars, textVars>>)

Spec == Init /\ [][Next]_vars
-----------------------------------------------------------------------------
\* Whatever is queued in whatever order, scrolled, overwritten or moved before
\* it is plotted, the back end behaves as a grid that changes at once and that a
\* flush leaves on the screen, and its queue keeps one entry per cell.
ImplementsTextGrid ==
  /\ [](part = "queue" => Queue!QueueFits)
  /\ part = "queue" => Queue!Abstract!Init
  /\ [][part = "queue" => Queue!TextGridStep]_queueVars

\* Attributes and pen stay in step through reverse video, saving and restoring,
\* and the arguments of an extended colour are never taken for attributes.
PenMatches ==
  /\ [](part = "saved" => Saved!PenMatches)
  /\ [][part = "attributes" => Attr!SgrKeepsMatch /\ Attr!ExtendedIsNoAttribute]_textVars

\* Wherever a sequence is cut, the parser is in one state and its values are in
\* their array; text that scrolls stays inside the margins; what is printed is
\* on the screen; erasing, inserting and deleting leave the cursor in place.
WritesSound ==
  /\ part = "bytes" => Bytes!ParserSound
  /\ part = "text" => Text!RegionSound /\ Text!ScrollInsideRegion /\ Text!PrintShows
  /\ part = "edit" => Edit!EditKeepsCursor

\* Every frame buffer with eight bits per colour gets a terminal out of the
\* static pool of flanterm_fb_init(), and its cells lie inside the frame buffer.
PoolSuffices == part = "start" => Start!PoolSuffices /\ Start!PixelsInside
=============================================================================
