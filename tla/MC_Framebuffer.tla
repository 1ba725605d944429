--------------------------- MODULE MC_Framebuffer ---------------------------
(***************************************************************************)
(* Model checking the display messages against a VNC server.  The server  *)
(* answers each FramebufferUpdateRequest with an update of one or two      *)
(* rectangles taken from UpdateOps, and sends SetColourMapEntries and Bell *)
(* messages of its own accord.  Ghost variables hold the screen, pointer   *)
(* and palette as the server means them, computed from what each message  *)
(* is (RFC 6143, spec.md 4.4), not from how the module reads it.           *)
(***************************************************************************)
EXTENDS FramebufferUpdate

CONSTANTS
  Pixels,      \* 16-bit pixel values the server uses
  Colours,     \* 16-bit <<r, g, b>> colour-map entries the server uses
  UpdateOps,   \* rectangles the server may send
  PaletteOps   \* colour-map messages the server may send

VARIABLES
  iscreen,     \* the server's framebuffer
  ipointer,    \* the cursor the server has set, as the RDP client should show it
  ipalette     \* the server's colour map, 8 bits per component

ghost == <<iscreen, ipointer, ipalette>>
mcvars == <<vars, ghost>>

(* The bytes of one rectangle, header included. *)
MaskBytes(op) ==
  [k \in 1 .. NbBytes(op.w) * op.h |->
     LET yy == (k - 1) \div NbBytes(op.w)
         b  == (k - 1) % NbBytes(op.w)
     IN  LET xs == {xx \in 8 * b .. 8 * b + 7 : <<xx, yy>> \in op.vis}
         IN  LET RECURSIVE Bits(_)
                 Bits(S) == IF S = {} THEN 0
                            ELSE LET xx == CHOOSE e \in S : TRUE
                                 IN 2^(7 - (xx % 8)) + Bits(S \ {xx})
             IN Bits(xs)]

RECURSIVE Flat(_)
Flat(ss) == IF ss = <<>> THEN <<>> ELSE Head(ss) \o Flat(Tail(ss))

Payload(op) ==
  CASE op.enc = 0 -> op.pix
    [] op.enc = 1 -> <<op.sx, op.sy>>
    [] op.enc = 2 -> <<Len(op.subs), op.bg>> \o
                     Flat([k \in 1 .. Len(op.subs) |->
                             LET s == op.subs[k] IN <<s.p, s.x, s.y, s.w, s.h>>])
    [] op.enc = 5 -> IF op.w * op.h = 0 THEN <<>> ELSE <<1>> \o op.pix
    [] op.enc = CursorEnc -> IF op.w * op.h = 0 THEN <<>> ELSE op.pix \o MaskBytes(op)
    [] OTHER -> <<>>

Encode(op) == <<op.x, op.y, op.w, op.h, op.enc>> \o Payload(op)

(* What a rectangle does to the server's framebuffer and cursor. *)
InRect(op, c) == c[1] \in op.x .. op.x + op.w - 1 /\ c[2] \in op.y .. op.y + op.h - 1
RreColour(op, i, j) ==
  LET hits == {k \in 1 .. Len(op.subs) :
                 i \in op.subs[k].x .. op.subs[k].x + op.subs[k].w - 1 /\
                 j \in op.subs[k].y .. op.subs[k].y + op.subs[k].h - 1}
  IN IF hits = {} THEN op.bg
     ELSE op.subs[CHOOSE k \in hits : \A m \in hits : m <= k].p

ApplyScreen(scr, op) ==
  [c \in Cells |->
     IF ~InRect(op, c) THEN scr[c]
     ELSE CASE op.enc \in {0, 5} -> op.pix[(c[2] - op.y) * op.w + (c[1] - op.x) + 1]
            [] op.enc = 1 -> scr[<<op.sx + c[1] - op.x, op.sy + c[2] - op.y>>]
            [] op.enc = 2 -> RreColour(op, c[1] - op.x, c[2] - op.y)
            [] OTHER -> scr[c]]

(* The RDP pointer is 32x32 and stored bottom-up; a 1x1 cursor is shown as *)
(* a dot.                                                                   *)
ApplyPointer(ptr, op) ==
  IF op.enc # CursorEnc \/ op.w * op.h = 0 THEN ptr
  ELSE IF op.w = 1 /\ op.h = 1 THEN [kind |-> "dot", px |-> NoShape]
  ELSE [kind |-> "shape",
        px |-> [c \in PointerCells |->
                  LET v == <<c[1], CursorDim - 1 - c[2]>>
                  IN IF v \in op.vis
                     THEN [and_mask |-> 0, rgb |-> Rgb(op.pix[v[2] * op.w + v[1] + 1])]
                     ELSE Transparent]]

RECURSIVE ApplyAll(_, _)
ApplyAll(st, ops) ==
  IF ops = <<>> THEN st
  ELSE ApplyAll([scr |-> ApplyScreen(st.scr, Head(ops)),
                 ptr |-> ApplyPointer(st.ptr, Head(ops))], Tail(ops))

(* The wire value of the cursor pseudo-encoding 0xffffff11 as a 32-bit int. *)
MCCursorEnc == -239

Uniform(n, p) == [k \in 1 .. n |-> p]
Stripes(n) == [k \in 1 .. n |-> IF k % 2 = 0 THEN 65535 ELSE 0]

(* Raw: the whole 3x2 screen (two bands) and a 2x1 strip at y = 1.        *)
RawOps ==
  {[enc |-> 0, x |-> 0, y |-> 0, w |-> 3, h |-> 2, pix |-> pix] :
     pix \in {Uniform(6, p) : p \in Pixels} \cup {Stripes(6)}}
  \cup {[enc |-> 0, x |-> 1, y |-> 1, w |-> 2, h |-> 1, pix |-> Uniform(2, p)] :
          p \in Pixels}
(* Copy-rect: a column from the right edge, and a row moved down.         *)
CopyOps ==
  {[enc |-> 1, x |-> 0, y |-> 0, w |-> 1, h |-> 2, sx |-> 2, sy |-> 0],
   [enc |-> 1, x |-> 1, y |-> 1, w |-> 2, h |-> 1, sx |-> 0, sy |-> 0]}
(* RRE: no subrectangle, one, and two overlapping ones reaching the last  *)
(* line and column of the rectangle.                                       *)
RreSubs ==
  {<<>>,
   <<[p |-> 65535, x |-> 1, y |-> 0, w |-> 2, h |-> 1]>>,
   <<[p |-> 65535, x |-> 0, y |-> 0, w |-> 1, h |-> 2],
     [p |-> 0, x |-> 0, y |-> 1, w |-> 3, h |-> 1]>>}
RreOps ==
  {[enc |-> 2, x |-> 0, y |-> 0, w |-> 3, h |-> 2, bg |-> b, subs |-> s] :
     b \in Pixels, s \in RreSubs}
(* Cursor: a 1x1 cursor, a 3x2 one clipped by the 2x2 pointer, an empty one. *)
CursorOps ==
  {[enc |-> MCCursorEnc, x |-> 0, y |-> 0, w |-> 1, h |-> 1, pix |-> <<65535>>,
    vis |-> {<<0, 0>>}],
   [enc |-> MCCursorEnc, x |-> 0, y |-> 0, w |-> 3, h |-> 2, pix |-> Stripes(6),
    vis |-> {<<1, 0>>, <<0, 1>>, <<2, 1>>}],
   [enc |-> MCCursorEnc, x |-> 0, y |-> 0, w |-> 0, h |-> 0, pix |-> <<>>,
    vis |-> {}]}
(* Hextile: an empty rectangle, which carries no tile.                     *)
EmptyHextile == [enc |-> 5, x |-> 0, y |-> 0, w |-> 0, h |-> 0, pix |-> <<>>]
(* An encoding the module does not know.                                   *)
UnknownOp == [enc |-> 7, x |-> 0, y |-> 0, w |-> 1, h |-> 1]

MCUpdateOps == RawOps \cup CopyOps \cup RreOps \cup CursorOps \cup {EmptyHextile, UnknownOp}

(* RRE rectangles whose subrectangle lies below the rectangle.             *)
OutOfRectRreOps ==
  {[enc |-> 2, x |-> 0, y |-> 0, w |-> 3, h |-> 1, bg |-> 0,
    subs |-> <<[p |-> 65535, x |-> 0, y |-> 1, w |-> 1, h |-> 1]>>]}

(* Black, and a colour whose components differ in their low bytes.       *)
MCColours == {<<0, 0, 0>>, <<65535, 256, 511>>}

MCPaletteOps ==
  {[first |-> 0, cols |-> cs] : cs \in UNION {[1 .. n -> Colours] : n \in 1 .. 2}}
  \cup {[first |-> 1, cols |-> <<c>>] : c \in Colours}
(* More entries than the palette holds: 11 entries are 66 bytes.           *)
LongPaletteOps == {[first |-> 0, cols |-> [k \in 1 .. 11 |-> <<0, 0, 0>>]]}

RGB == (0 .. 255) \X (0 .. 255) \X (0 .. 255)

(* Every variable has its type.                                            *)
TypeOK ==
  /\ phase \in {"idle", "rects", "failed"}
  /\ left \in Nat
  /\ wire \in Seq(Int)
  /\ screen \in [Cells -> Pixels]
  /\ pointer.kind \in {"default", "dot", "shape"}
  /\ DOMAIN pointer.px = PointerCells
  /\ \A c \in PointerCells : pointer.px[c] \in [and_mask : {0, 1}, rgb : RGB]
  /\ DOMAIN palette = 0 .. PalSize - 1
  /\ \A j \in DOMAIN palette : palette[j] \in 0 .. 2^24 - 1
  /\ requested \in BOOLEAN
  /\ overrun \subseteq {"rre_raw", "palette_stream"}

(* Once the module has finished reading an update and asked for the next *)
(* (update_screen at the end of lib_framebuffer_update), the RDP client   *)
(* shows the server's framebuffer and cursor; once it has read all the    *)
(* server sent, its palette is the server's colour map.  This relates the *)
(* byte framing of every encoding across updates to what the server meant. *)
DisplayMatchesServer ==
  phase = "idle" =>
    /\ requested => screen = iscreen /\ pointer = ipointer
    /\ wire = <<>> => palette = ipalette

(* No message from the server makes the module write past a buffer: the  *)
(* RRE pixel buffer raw and the palette stream stream2.                    *)
WritesInBounds == overrun = {}

MCInit ==
  /\ Init
  /\ iscreen = screen /\ ipointer = pointer /\ ipalette = palette

ServerUpdate ==
  /\ phase = "idle" /\ wire = <<>> /\ requested
  /\ \E ops \in UNION {[1 .. n -> UpdateOps] : n \in 1 .. 2} :
       LET st == ApplyAll([scr |-> iscreen, ptr |-> ipointer], ops)
       IN /\ wire' = <<0, 0, Len(ops)>> \o Flat([k \in 1 .. Len(ops) |-> Encode(ops[k])])
          /\ iscreen' = st.scr /\ ipointer' = st.ptr
  /\ requested' = FALSE
  /\ UNCHANGED <<phase, left, screen, pointer, palette, overrun, ipalette>>

ServerPalette ==
  /\ phase = "idle" /\ wire = <<>>
  /\ \E op \in PaletteOps :
       /\ wire' = <<1, 0, op.first, Len(op.cols)>> \o Flat(op.cols)
       /\ ipalette' = [j \in DOMAIN ipalette |->
                         IF j - op.first \in 0 .. Len(op.cols) - 1
                         THEN LET c == op.cols[j - op.first + 1]
                              IN (c[1] \div 256) * 65536 + (c[2] \div 256) * 256
                                 + c[3] \div 256
                         ELSE ipalette[j]]
  /\ UNCHANGED <<phase, left, screen, pointer, palette, requested, overrun,
                 iscreen, ipointer>>

ServerBell ==
  /\ phase = "idle" /\ wire = <<>>
  /\ wire' = <<2>>
  /\ UNCHANGED <<phase, left, screen, pointer, palette, requested, overrun, ghost>>

MCNext ==
  \/ ReadUpdateHeader /\ UNCHANGED ghost
  \/ ReadPaletteUpdate /\ UNCHANGED ghost
  \/ IgnoreMessage /\ UNCHANGED ghost
  \/ RawRect /\ UNCHANGED ghost
  \/ CopyRect /\ UNCHANGED ghost
  \/ RreRect /\ UNCHANGED ghost
  \/ HextileRect /\ UNCHANGED ghost
  \/ CursorRect /\ UNCHANGED ghost
  \/ UnknownEncoding /\ UNCHANGED ghost
  \/ EndUpdate /\ UNCHANGED ghost
  \/ ServerUpdate \/ ServerPalette \/ ServerBell

MCSpec == MCInit /\ [][MCNext]_mcvars

(* Once lib_framebuffer_update has read an update's header, its loop over *)
(* the rectangles runs within that one call, blocking in t.recv for the   *)
(* bytes it expects; nothing else of the session runs until it returns.   *)
(* The loop's steps are therefore weakly fair.  When the next message is  *)
(* read is up to the proxy's event loop, so no fairness is assumed there. *)
RectLoopStep ==
  \/ RawRect \/ CopyRect \/ RreRect \/ HextileRect \/ CursorRect
  \/ UnknownEncoding \/ EndUpdate

MCFairSpec == MCSpec /\ WF_mcvars(RectLoopStep /\ UNCHANGED ghost)

(* Every FramebufferUpdate the server sends is read to its end: the       *)
(* module neither blocks in t.recv waiting for bytes the server never     *)
(* sends nor stops early, but reaches update_screen showing the server's  *)
(* picture, or ends on an encoding it does not know.  The safety          *)
(* properties say nothing about an update that is never finished.        *)
UpdateCompletes ==
  phase = "rects" ~>
    \/ phase = "idle" /\ requested /\ screen = iscreen /\ pointer = ipointer
    \/ phase = "failed"
=============================================================================
