------------------------------- MODULE FbInit -------------------------------
(***************************************************************************)
(* The start of the terminal: arch_tty_init() of tty.c and                 *)
(* flanterm_fb_init() of backends/fb.c.  The sizes of the terminal follow  *)
(* from those of the frame buffer; its memory comes out of a static pool,  *)
(* and larger frame buffers are cut down to what the pool can serve.       *)
(* Sizes of the structures are those of the x86-64 build.                  *)
(***************************************************************************)
EXTENDS Integers, Sequences, FiniteSetsExt

CONSTANTS Widths, Heights,     \* sizes of frame buffers, in pixels
          MaskSizes            \* bits per colour

FbInitAssumption == Widths \subseteq Nat /\ Heights \subseteq Nat

FLANTERM_FB_BUMP_ALLOC_POOL_SIZE == 873000
FLANTERM_FB_WIDTH_LIMIT == 1920
FLANTERM_FB_HEIGHT_LIMIT == 1200
FLANTERM_FB_FONT_GLYPHS == 256
sizeof == [context |-> 792, char |-> 12, queue_item |-> 32, pointer |-> 8]

\* Fonts of 8 by 16 dots, with a column of spacing.
FONT_WIDTH == 9
FONT_HEIGHT == 16

VARIABLES
  frame,        \* the frame buffer that Limine gave the kernel
  ft_ctx,       \* the terminal, or "unset", or "NULL"
  bump_alloc_ptr

vars == <<frame, ft_ctx, bump_alloc_ptr>>
Unset == [status |-> "unset"]
NULL == [status |-> "NULL"]

Init ==
  /\ \E w \in Widths, h \in Heights, red, green, blue \in MaskSizes :
       frame = [width |-> w, height |-> h, mask |-> <<red, green, blue>>]
  /\ ft_ctx = Unset /\ bump_alloc_ptr = 0
-----------------------------------------------------------------------------
\* The scale of the font, for the size before it is limited.
Scale(w, h) ==
  IF w >= 3840 + 3840 \div 3 /\ h >= 2160 + 2160 \div 3 THEN 4
  ELSE IF w >= 1920 + 1920 \div 3 /\ h >= 1080 + 1080 \div 3 THEN 2 ELSE 1

\* Mutant: only the width is limited.
Limited_Width(w, h) ==
  LET wl == Min({w, FLANTERM_FB_WIDTH_LIMIT})
  IN  [width |-> wl, height |-> h, x |-> w \div 2 - wl \div 2, y |-> 0]

\* The part of the frame buffer that is used, in its middle.
Limited(w, h) ==
  LET wl == Min({w, FLANTERM_FB_WIDTH_LIMIT})
      hl == Min({h, FLANTERM_FB_HEIGHT_LIMIT})
  IN  [width |-> wl, height |-> hl,
       x |-> w \div 2 - wl \div 2, y |-> h \div 2 - hl \div 2]

\* Cells, and where they are in the frame buffer.
Geometry(part, scale) ==
  LET gw == FONT_WIDTH * scale
      gh == FONT_HEIGHT * scale
  IN  [cols |-> part.width \div gw, rows |-> part.height \div gh, gw |-> gw, gh |-> gh,
       x |-> part.x + (part.width % gw) \div 2, y |-> part.y + (part.height % gh) \div 2]

\* The allocations, in their order: the context, the font's bits and dots,
\* grid, queue and map.
Allocations(g) ==
  <<sizeof.context, (8 * FONT_HEIGHT * FLANTERM_FB_FONT_GLYPHS) \div 8,
    FLANTERM_FB_FONT_GLYPHS * FONT_HEIGHT * FONT_WIDTH,
    g.rows * g.cols * sizeof.char, g.rows * g.cols * sizeof.queue_item,
    g.rows * g.cols * sizeof.pointer>>

\* bump_alloc() in a row: the pointer at the end, or -1 when one fails.
bump_alloc(ptr, size) ==
  IF ptr = -1 \/ ptr + size > FLANTERM_FB_BUMP_ALLOC_POOL_SIZE THEN -1 ELSE ptr + size
Allocated(sizes) ==
  bump_alloc(bump_alloc(bump_alloc(bump_alloc(bump_alloc(bump_alloc(0,
    sizes[1]), sizes[2]), sizes[3]), sizes[4]), sizes[5]), sizes[6])

\* Masks that differ, or have fewer than eight bits, are refused; a failed
\* allocation gives the pool back.
MasksFit == frame.mask[1] >= 8 /\ frame.mask[1] = frame.mask[2] /\ frame.mask[1] = frame.mask[3]

flanterm_fb_init ==
  LET g   == Geometry(Limited(frame.width, frame.height), Scale(frame.width, frame.height))
      end == Allocated(Allocations(g))
  IN  /\ ft_ctx = Unset
      /\ IF ~ MasksFit \/ end = -1
         THEN ft_ctx' = NULL /\ bump_alloc_ptr' = 0
         ELSE /\ ft_ctx' = [status |-> "ready", cols |-> g.cols, rows |-> g.rows,
                            gw |-> g.gw, gh |-> g.gh, x |-> g.x, y |-> g.y]
              /\ bump_alloc_ptr' = end
      /\ UNCHANGED frame

Started == ft_ctx # Unset /\ UNCHANGED vars

Next == flanterm_fb_init \/ Started
Spec == Init /\ [][Next]_vars
-----------------------------------------------------------------------------
Ready == ft_ctx.status = "ready"

\* Every frame buffer with eight bits per colour gets a terminal: the limits of
\* its size and the size of the pool fit each other.
PoolSuffices ==
  ft_ctx # Unset /\ MasksFit =>
    Ready /\ bump_alloc_ptr <= FLANTERM_FB_BUMP_ALLOC_POOL_SIZE

\* The cells lie inside the frame buffer, in a terminal of any size and scale:
\* plot_char() checks no more than the column and the row.
PixelsInside ==
  Ready => /\ ft_ctx.x + ft_ctx.cols * ft_ctx.gw <= frame.width
           /\ ft_ctx.y + ft_ctx.rows * ft_ctx.gh <= frame.height
           /\ ft_ctx.x >= 0 /\ ft_ctx.y >= 0
=============================================================================
