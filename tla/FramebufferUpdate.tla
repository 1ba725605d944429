------------------------- MODULE FramebufferUpdate -------------------------
(***************************************************************************)
(* The UP_AND_RUNNING message loop of mod_vnc for the messages that change *)
(* what the RDP client displays: FramebufferUpdate (lib_framebuffer_update *)
(* with the raw, copy-rect, RRE, Hextile and cursor encodings; ZRLE is    *)
(* ZrleDecoder), SetColourMapEntries (lib_palette_update) and the types   *)
(* the loop ignores.  The server's bytes are a sequence of fields, one    *)
(* token per field and one per pixel (the byte widths are left out, the   *)
(* field order is kept); t.recv blocks until the bytes are there, so a    *)
(* read is enabled only once the server has sent them.                     *)
(***************************************************************************)
EXTENDS Integers, Sequences, FiniteSets

CONSTANTS
  Width, Height,  \* framebuffer size from ServerInit
  Band,           \* rows per raw band (16)
  CursorDim,      \* side of the RDP pointer (32)
  PalSize,        \* entries of the palette (256)
  PalBufCap,      \* bytes of the palette message buffer stream2 (8192)
  CursorEnc       \* the cursor pseudo-encoding 0xffffff11 as read from the wire

VARIABLES
  wire,       \* what the server sent that the module has not read yet
  phase,      \* "idle", "rects" (inside lib_framebuffer_update) or "failed"
  left,       \* rectangles of the current update not read yet
  screen,     \* the front's framebuffer: cell <<x, y>> -> pixel
  pointer,    \* the pointer last set on the front
  palette,    \* this->palette
  requested,  \* a FramebufferUpdateRequest is outstanding (update_screen)
  overrun     \* the buffers written past their end

vars == <<wire, phase, left, screen, pointer, palette, requested, overrun>>

Cells == (0 .. Width - 1) \X (0 .. Height - 1)
PointerCells == (0 .. CursorDim - 1) \X (0 .. CursorDim - 1)
MinI(a, b) == IF a < b THEN a ELSE b
Drop(s, n) == SubSeq(s, n + 1, Len(s))
NbBytes(n) == (n + 7) \div 8
(* A pointer: the default one, the fixed dot, or a shape of 32x32 cells,  *)
(* each its AND-mask bit and its colour (black where the mask is set).    *)
Transparent == [and_mask |-> 1, rgb |-> <<0, 0, 0>>]
NoShape == [c \in PointerCells |-> Transparent]

(* draw_tile: the w x h block of row-major pixels pix drawn at (x, y); the *)
(* front clips to its screen.                                              *)
Paint(scr, x, y, w, h, pix) ==
  [c \in DOMAIN scr |->
     IF c[1] \in x .. x + w - 1 /\ c[2] \in y .. y + h - 1
     THEN pix[(c[2] - y) * w + (c[1] - x) + 1] ELSE scr[c]]

Init ==
  /\ wire = <<>>
  /\ phase = "idle"
  /\ left = 0
  /\ screen = [c \in Cells |-> 0]
  /\ pointer = [kind |-> "default", px |-> NoShape]
  /\ palette = [i \in 0 .. PalSize - 1 |-> 0]
  /\ requested = TRUE
  /\ overrun = {}

(* Mutant: one rectangle more than the header announces.                  *)
ReadUpdateHeaderOffByOne ==
  /\ phase = "idle" /\ Len(wire) >= 3 /\ wire[1] = 0
  /\ phase' = "rects"
  /\ left' = wire[3] + 1
  /\ wire' = Drop(wire, 3)
  /\ UNCHANGED <<screen, pointer, palette, requested, overrun>>

(* The UP_AND_RUNNING dispatch on the message type, for a FramebufferUpdate: *)
(* the padding byte and the number of rectangles.                          *)
ReadUpdateHeader ==
  /\ phase = "idle" /\ Len(wire) >= 3 /\ wire[1] = 0
  /\ phase' = "rects"
  /\ left' = wire[3]
  /\ wire' = Drop(wire, 3)
  /\ UNCHANGED <<screen, pointer, palette, requested, overrun>>

(* lib_palette_update: num_colors * 6 bytes are received into an 8192-byte *)
(* stream before num_colors is compared with 256; entries whose index is  *)
(* past the palette are left out (BGRPalette is not in this repository).  *)
ReadPaletteUpdate ==
  /\ phase = "idle" /\ Len(wire) >= 4 /\ wire[1] = 1
  /\ LET first == wire[3]
         num   == wire[4]
         rgb   == SubSeq(wire, 5, 4 + 3 * num)
         Colour(i) == (rgb[3*i+1] \div 256) * 65536 + (rgb[3*i+2] \div 256) * 256
                      + rgb[3*i+3] \div 256
     IN /\ Len(wire) >= 4 + 3 * num
        /\ wire' = Drop(wire, 4 + 3 * num)
        /\ overrun' = IF num * 6 > PalBufCap THEN overrun \cup {"palette_stream"}
                      ELSE overrun
        /\ palette' = IF num <= PalSize
                      THEN [j \in DOMAIN palette |->
                              IF j - first \in 0 .. num - 1 THEN Colour(j - first)
                              ELSE palette[j]]
                      ELSE palette
  /\ UNCHANGED <<phase, left, screen, pointer, requested>>

(* Any other message type is logged and ignored; only its type byte is read. *)
IgnoreMessage ==
  /\ phase = "idle" /\ wire # <<>> /\ wire[1] \notin {0, 1, 3}
  /\ wire' = Tail(wire)
  /\ UNCHANGED <<phase, left, screen, pointer, palette, requested, overrun>>

(* A rectangle header x, y, cx, cy, encoding at the head of the wire.      *)
Rect(enc) ==
  /\ phase = "rects" /\ left > 0 /\ Len(wire) >= 5 /\ wire[5] = enc
RX == wire[1]
RY == wire[2]
RW == wire[3]
RH == wire[4]
Body == Drop(wire, 5)

(* The end of the rectangle loop: update_screen asks for the next update.  *)
EndUpdate ==
  /\ phase = "rects" /\ left = 0
  /\ phase' = "idle"
  /\ requested' = TRUE
  /\ UNCHANGED <<wire, left, screen, pointer, palette, overrun>>

(* The raw case: the rectangle is received and drawn in bands of at most  *)
(* 16 rows (yy is a uint16_t).                                             *)
RECURSIVE RawBandsFromTop(_, _, _, _, _, _, _)
RawBandsFromTop(scr, in, x, y, cx, cy, yy) ==
  IF yy >= y + cy THEN [scr |-> scr, in |-> in]
  ELSE LET cyy == MinI(Band, cy - yy)
       IN RawBandsFromTop(Paint(scr, x, yy, cx, cyy, SubSeq(in, 1, cyy * cx)),
                          Drop(in, cyy * cx), x, y, cx, cy, (yy + Band) % 65536)

RECURSIVE RawBands(_, _, _, _, _, _, _)
RawBands(scr, in, x, y, cx, cy, yy) ==
  IF yy >= y + cy THEN [scr |-> scr, in |-> in]
  ELSE LET cyy == MinI(Band, cy - (yy - y))
       IN RawBands(Paint(scr, x, yy, cx, cyy, SubSeq(in, 1, cyy * cx)),
                   Drop(in, cyy * cx), x, y, cx, cy, (yy + Band) % 65536)

RawRect ==
  /\ Rect(0)
  /\ Len(Body) >= RW * RH
  /\ LET r == RawBands(screen, Body, RX, RY, RW, RH, RY)
     IN screen' = r.scr /\ wire' = r.in
  /\ left' = left - 1
  /\ UNCHANGED <<phase, pointer, palette, requested, overrun>>

(* The copy-rect case: a ScrBlt from (srcx, srcy), read from the screen as *)
(* it was before the copy.                                                 *)
CopyRect ==
  /\ Rect(1)
  /\ Len(Body) >= 2
  /\ screen' = [c \in Cells |->
                  IF c[1] \in RX .. RX + RW - 1 /\ c[2] \in RY .. RY + RH - 1
                  THEN screen[<<Body[1] + c[1] - RX, Body[2] + c[2] - RY>>]
                  ELSE screen[c]]
  /\ wire' = Drop(Body, 2)
  /\ left' = left - 1
  /\ UNCHANGED <<phase, pointer, palette, requested, overrun>>

(* The RRE case: the buffer raw of cx * cy pixels is filled with the      *)
(* background, then every subrectangle is painted into it at the offsets  *)
(* line * cx + column, with no check against cx and cy.                   *)
RreOffsetsTall(cx, s) ==
  {l * cx + col : l \in s.y .. s.y + s.h, col \in s.x .. s.x + s.w - 1}
RreOffsets(cx, s) ==
  {l * cx + col : l \in s.y .. s.y + s.h - 1, col \in s.x .. s.x + s.w - 1}

RECURSIVE RreSubrects(_, _, _)
RreSubrects(buf, cx, subs) ==
  IF subs = <<>> THEN buf
  ELSE RreSubrects([o \in DOMAIN buf |->
                      IF o \in RreOffsets(cx, Head(subs)) THEN Head(subs).p
                      ELSE buf[o]], cx, Tail(subs))

RreRect ==
  /\ Rect(2)
  /\ Len(Body) >= 2
  /\ Len(Body) >= 2 + 5 * Body[1]
  /\ LET n    == Body[1]
         subs == [k \in 1 .. n |->
                    [p |-> Body[5*k - 2], x |-> Body[5*k - 1], y |-> Body[5*k],
                     w |-> Body[5*k + 1], h |-> Body[5*k + 2]]]
         raw  == RreSubrects([o \in 0 .. RW * RH - 1 |-> Body[2]], RW, subs)
     IN /\ screen' = Paint(screen, RX, RY, RW, RH,
                           [k \in 1 .. RW * RH |-> raw[k - 1]])
        /\ overrun' = IF \E k \in 1 .. n : \E o \in RreOffsets(RW, subs[k]) :
                            o >= RW * RH
                      THEN overrun \cup {"rre_raw"} ELSE overrun
        /\ wire' = Drop(Body, 2 + 5 * n)
  /\ left' = left - 1
  /\ UNCHANGED <<phase, pointer, palette, requested>>

(* The Hextile case only logs: none of the rectangle's data is read.       *)
HextileRect ==
  /\ Rect(5)
  /\ wire' = Body
  /\ left' = left - 1
  /\ UNCHANGED <<phase, screen, pointer, palette, requested, overrun>>

(* The cursor case: the pixel array and the bitmask are read; a 1x1       *)
(* cursor becomes the fixed dot pointer, any other is copied into the     *)
(* 32x32 RDP pointer, bottom-up, its pixels converted from the 5-6-5      *)
(* format set by SetPixelFormat; an empty cursor reads nothing.           *)
RgbUnmasked(p) ==
  LET r == p \div 2^11
      g == p \div 2^5
      b == p % 32
  IN <<r * 8 + r \div 4, g * 4 + g \div 16, b * 8 + b \div 4>>

Rgb(p) ==
  LET r == (p \div 2^11) % 32
      g == (p \div 2^5) % 64
      b == p % 32
  IN <<r * 8 + r \div 4, g * 4 + g \div 16, b * 8 + b \div 4>>

MaskBit(mask, cx, xx, yy) ==
  (mask[yy * NbBytes(cx) + xx \div 8 + 1] \div 2^(7 - (xx % 8))) % 2 = 1

CursorShape(cx, cy, pix, mask) ==
  IF cx = 1 /\ cy = 1 THEN [kind |-> "dot", px |-> NoShape]
  ELSE [kind |-> "shape",
        px |-> [c \in PointerCells |->
                  LET xx == c[1]
                      yy == CursorDim - 1 - c[2]
                  IN IF xx < cx /\ yy < cy /\ MaskBit(mask, cx, xx, yy)
                     THEN [and_mask |-> 0, rgb |-> Rgb(pix[yy * cx + xx + 1])]
                     ELSE Transparent]]

CursorRect ==
  /\ Rect(CursorEnc)
  /\ LET npix  == RW * RH
         nmask == NbBytes(RW) * RH
     IN IF RW > 0 /\ RH > 0
        THEN /\ Len(Body) >= npix + nmask
             /\ pointer' = CursorShape(RW, RH, SubSeq(Body, 1, npix),
                                       SubSeq(Body, npix + 1, npix + nmask))
             /\ wire' = Drop(Body, npix + nmask)
        ELSE wire' = Body /\ UNCHANGED pointer
  /\ left' = left - 1
  /\ UNCHANGED <<phase, screen, palette, requested, overrun>>

(* Any other encoding throws ERR_VNC_UNEXPECTED_ENCODING_IN_LIB_FRAME_BUFFER; *)
(* draw_event catches it and the module ends (ZRLE, 16, is ZrleDecoder).  *)
UnknownEncoding ==
  /\ phase = "rects" /\ left > 0 /\ Len(wire) >= 5
  /\ wire[5] \notin {0, 1, 2, 5, 16, CursorEnc}
  /\ phase' = "failed"
  /\ UNCHANGED <<wire, left, screen, pointer, palette, requested, overrun>>

Next ==
  \/ ReadUpdateHeader \/ ReadPaletteUpdate \/ IgnoreMessage
  \/ RawRect \/ CopyRect \/ RreRect \/ HextileRect \/ CursorRect
  \/ UnknownEncoding \/ EndUpdate
=============================================================================
