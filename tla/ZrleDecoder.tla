---------------------------- MODULE ZrleDecoder ----------------------------
(***************************************************************************)
(* The ZRLE branch of mod_vnc::lib_framebuffer_update (src/mod/vnc/vnc.hpp)*)
(* and the tile decoder lib_framebuffer_update_zrle it drives.            *)
(*                                                                         *)
(* One ZRLE rectangle is decoded at a time.  Its zlib payload is inflated  *)
(* into buffers of at most OutCap bytes; each buffer is handed, prefixed   *)
(* with the bytes left over from the previous call (data_remain), to the   *)
(* tile decoder, which draws every complete tile and saves the bytes of    *)
(* the first incomplete tile, from its subencoding byte on, for the next   *)
(* call.  The decompressed stream of the rectangle is `zdata`; `produced`  *)
(* is how much of it inflate has output so far (the abstraction of        *)
(* zstrm.avail_in: input remains exactly while produced < Len(zdata)).     *)
(*                                                                         *)
(* Bytes are naturals 0..255; a pixel is the sequence of its Bpp bytes.    *)
(***************************************************************************)
EXTENDS Naturals, Sequences

CONSTANTS
  TileSize,      \* ZRLE tile edge (64 in the code)
  Bpp,           \* bytes per pixel, nbbytes(this->bpp) (2: bpp is forced to 16)
  RunContinue,   \* run-length continuation byte (255 in the code)
  TileBufCap,    \* sizeof(tile_data) (16384 in the code)
  RemainCap,     \* capacity of ZRLEUpdateContext::data_remain (16384)
  OutCap,        \* inflate output room per call, HStream endroom (49152)
  CompressedCap  \* largest accepted zlib_compressed_data_length (65536)

ASSUME TileSize \in Nat \ {0} /\ Bpp \in {1, 2, 4} /\ OutCap \in Nat \ {0}
ASSUME RunContinue \in 1..255

VARIABLES
  phase,        \* "idle" (between rectangles), "zrle" (decoding), "failed"
  rect,         \* the rectangle header [x, y, w, h] being decoded
  zdata,        \* decompressed bytes of the rectangle's zlib payload
  produced,     \* bytes of zdata inflate has output so far
  ctx,          \* ZRLEUpdateContext without data_remain
  data_remain,  \* ZRLEUpdateContext::data_remain
  drawn,        \* tiles drawn for this rectangle, in draw_tile order
  nrects        \* rectangles started (bounded by the MC module)

vars == <<phase, rect, zdata, produced, ctx, data_remain, drawn, nrects>>

MinN(a, b) == IF a <= b THEN a ELSE b
U16(n) == n % 65536

(* in_remain() >= n when the read position is i                         *)
Avail(buf, i, n) == Len(buf) - i + 1 >= n
Bytes(buf, i, n) == SubSeq(buf, i, i + n - 1)

NeedMore == [st |-> "more"]
Fail     == [st |-> "error"]
Ok(pix, next) == [st |-> "ok", pix |-> pix, next |-> next]

(* Pixel `idx` of a palette starting at `pal`; the code reads             *)
(* palette + idx * Bpp without comparing idx with the palette size, so an *)
(* index past the palette reads the bytes that follow it, or past the end *)
(* of the buffer (OutOfBuffer, a pixel of no bytes).                      *)
OutOfBuffer == <<>>
PaletteEntry(buf, pal, idx) ==
  IF pal + idx * Bpp + Bpp - 1 <= Len(buf)
  THEN Bytes(buf, pal + idx * Bpp, Bpp) ELSE OutOfBuffer

(* A run length: 1 plus the bytes read, continuing while a byte is        *)
(* RunContinue; run_length is a uint16_t.                                  *)
RECURSIVE RunLength(_, _, _)
RunLength(buf, i, acc) ==
  IF ~Avail(buf, i, 1) THEN NeedMore
  ELSE LET a == U16(acc + buf[i]) IN
       IF buf[i] # RunContinue THEN [st |-> "ok", len |-> a, next |-> i + 1]
       ELSE RunLength(buf, i + 1, a)

(* Subencoding 128: (pixel, run length) pairs until `left` pixels are      *)
(* filled; a run longer than the tile is cut at the tile's end.            *)
RECURSIVE PlainRuns(_, _, _)
PlainRuns(buf, i, left) ==
  IF left = 0 THEN Ok(<<>>, i)
  ELSE IF ~Avail(buf, i, Bpp) THEN NeedMore
  ELSE LET rl == RunLength(buf, i + Bpp, 1) IN
       IF rl.st # "ok" THEN rl
       ELSE LET k    == MinN(rl.len, left)
                rest == PlainRuns(buf, rl.next, left - k)
            IN IF rest.st # "ok" THEN rest
               ELSE Ok([j \in 1..k |-> Bytes(buf, i, Bpp)] \o rest.pix, rest.next)

(* Subencodings 130..255: (index, [run length]) pairs over a palette.      *)
RECURSIVE PaletteRuns(_, _, _, _)
PaletteRuns(buf, pal, i, left) ==
  IF left = 0 THEN Ok(<<>>, i)
  ELSE IF ~Avail(buf, i, 1) THEN NeedMore
  ELSE LET px == PaletteEntry(buf, pal, buf[i] % 128)
           rl == IF buf[i] >= 128 THEN RunLength(buf, i + 1, 1)
                 ELSE [st |-> "ok", len |-> 1, next |-> i + 1]
       IN IF rl.st # "ok" THEN rl
          ELSE LET k    == MinN(rl.len, left)
                   rest == PaletteRuns(buf, pal, rl.next, left - k)
               IN IF rest.st # "ok" THEN rest
                  ELSE Ok([j \in 1..k |-> px] \o rest.pix, rest.next)

(* Subencodings 2..16: a palette of n pixels then packed indices of 1, 2  *)
(* or 4 bits, each row starting on a byte boundary.                        *)
PackedBits(n) == IF n = 2 THEN 1 ELSE IF n <= 4 THEN 2 ELSE 4
PackedLen(n, w, h) ==
  LET ppb == 8 \div PackedBits(n) IN ((w + ppb - 1) \div ppb) * h

(* Mutant: indices read as one bit stream, rows not byte aligned.          *)
PackedIndexUnaligned(buf, at, n, w, k) ==
  LET bits == PackedBits(n)
      ppb  == 8 \div bits
  IN (buf[at + (k - 1) \div ppb] \div (2 ^ (8 - bits * (((k - 1) % ppb) + 1))))
       % (2 ^ bits)

PackedIndex(buf, at, n, w, k) ==
  LET bits == PackedBits(n)
      ppb  == 8 \div bits
      r    == (k - 1) \div w
      c    == (k - 1) % w
      byte == buf[at + r * ((w + ppb - 1) \div ppb) + c \div ppb]
  IN (byte \div (2 ^ (8 - bits * ((c % ppb) + 1)))) % (2 ^ bits)

PackedTile(buf, j, n, w, h) ==
  LET at == j + n * Bpp IN
  IF ~Avail(buf, j, n * Bpp) THEN NeedMore
  ELSE IF ~Avail(buf, at, PackedLen(n, w, h)) THEN NeedMore
  ELSE Ok([k \in 1..(w * h) |-> PaletteEntry(buf, j, PackedIndex(buf, at, n, w, k))],
          at + PackedLen(n, w, h))

(* One tile of w x h pixels whose subencoding byte is buf[i].              *)
DecodeTile(buf, i, w, h) ==
  LET s == buf[i]
      j == i + 1
      n == w * h
  IN CASE s = 0 ->
            IF Avail(buf, j, n * Bpp)
            THEN Ok([k \in 1..n |-> Bytes(buf, j + (k - 1) * Bpp, Bpp)], j + n * Bpp)
            ELSE NeedMore
       [] s = 1 ->
            IF Avail(buf, j, Bpp) THEN Ok([k \in 1..n |-> Bytes(buf, j, Bpp)], j + Bpp)
            ELSE NeedMore
       [] s \in 2..16 -> PackedTile(buf, j, s, w, h)
       [] s \in 17..127 \cup {129} -> Fail
       [] s = 128 -> PlainRuns(buf, j, n)
       [] OTHER ->
            IF Avail(buf, j, (s - 128) * Bpp)
            THEN PaletteRuns(buf, j, j + (s - 128) * Bpp, n)
            ELSE NeedMore

(* Tile cursor advance after a tile of w x h: left to right, then the     *)
(* next row of tiles starting again at the rectangle's x.                 *)
(* Mutant: the row wrap restores cx_remain to the rectangle's right edge.  *)
AdvanceTileRightEdge(c, w, h) ==
  IF c.cx_remain - w = 0
  THEN [c EXCEPT !.cx_remain = c.x + c.cx, !.cy_remain = U16(@ - h),
                 !.tile_x = c.x, !.tile_y = U16(@ + h)]
  ELSE [c EXCEPT !.cx_remain = @ - w, !.tile_x = U16(@ + w)]

AdvanceTile(c, w, h) ==
  IF c.cx_remain - w = 0
  THEN [c EXCEPT !.cx_remain = c.cx, !.cy_remain = U16(@ - h),
                 !.tile_x = c.x, !.tile_y = U16(@ + h)]
  ELSE [c EXCEPT !.cx_remain = @ - w, !.tile_x = U16(@ + w)]

(* The while (in_remain()) loop of lib_framebuffer_update_zrle over the    *)
(* buffer from position i: the tiles it draws, and either the error or    *)
(* the context and leftover bytes it ends with.                            *)
RECURSIVE DecodeLoop(_, _, _, _)
DecodeLoop(buf, i, c, tiles) ==
  IF i > Len(buf) THEN [st |-> "ok", ctx |-> c, tiles |-> tiles, remain |-> <<>>]
  ELSE
    LET w == MinN(c.cx_remain, TileSize)
        h == MinN(c.cy_remain, TileSize)
        t == DecodeTile(buf, i, w, h)
    IN IF w * h * Bpp > TileBufCap THEN [st |-> "error", tiles |-> tiles]
       ELSE IF t.st = "error" THEN [st |-> "error", tiles |-> tiles]
       ELSE IF t.st = "more"
            THEN [st |-> "ok", ctx |-> c, tiles |-> tiles,
                  remain |-> SubSeq(buf, i, Len(buf))]
       ELSE DecodeLoop(buf, t.next, AdvanceTile(c, w, h),
                       Append(tiles, [x |-> c.tile_x, y |-> c.tile_y,
                                      w |-> w, h |-> h, pix |-> t.pix]))

(* Mutant: the leftover prepended twice.                                   *)
ZrleDecodeTwice(chunk) == DecodeLoop(data_remain \o data_remain \o chunk, 1, ctx, <<>>)

(* lib_framebuffer_update_zrle: the leftover is prepended, data_remain is  *)
(* reset, then the loop runs on the joined buffer.                         *)
ZrleDecode(chunk) == DecodeLoop(data_remain \o chunk, 1, ctx, <<>>)
-----------------------------------------------------------------------------
Init ==
  /\ phase = "idle"
  /\ rect = [x |-> 0, y |-> 0, w |-> 0, h |-> 0]
  /\ zdata = <<>>
  /\ produced = 0
  /\ ctx = [x |-> 0, cx |-> 0, cx_remain |-> 0, cy_remain |-> 0,
            tile_x |-> 0, tile_y |-> 0]
  /\ data_remain = <<>>
  /\ drawn = <<>>
  /\ nrects = 0

(* case 16 of lib_framebuffer_update: the rectangle header r has been     *)
(* read, then the 4-byte compressed length zlen and the payload, whose    *)
(* decompression is `bytes`.  A length over CompressedCap is fatal.        *)
StartRect(r, bytes, zlen) ==
  /\ phase = "idle"
  /\ nrects' = nrects + 1
  /\ rect' = r
  /\ zdata' = bytes
  /\ produced' = 0
  /\ drawn' = <<>>
  /\ data_remain' = <<>>
  /\ ctx' = [x |-> r.x, cx |-> r.w, cx_remain |-> r.w, cy_remain |-> r.h,
             tile_x |-> r.x, tile_y |-> r.y]
  /\ phase' = IF zlen > CompressedCap THEN "failed" ELSE "zrle"

(* One iteration of while (zstrm.avail_in > 0): inflate fills the output  *)
(* buffer as far as the rectangle's data goes, and the decoder runs on it.*)
(* A decoding error is fatal to the session.                               *)
InflateStep ==
  /\ phase = "zrle"
  /\ produced < Len(zdata)
  /\ LET k   == MinN(OutCap, Len(zdata) - produced)
         res == ZrleDecode(SubSeq(zdata, produced + 1, produced + k))
     IN /\ produced' = produced + k
        /\ drawn' = drawn \o res.tiles
        /\ IF res.st = "error"
           THEN /\ phase' = "failed"
                /\ UNCHANGED <<ctx, data_remain>>
           ELSE /\ ctx' = res.ctx
                /\ data_remain' = res.remain
                /\ UNCHANGED phase
  /\ UNCHANGED <<rect, zdata, nrects>>

(* inflate returns something other than Z_OK: ERR_VNC_ZLIB_INFLATE.       *)
InflateError ==
  /\ phase = "zrle"
  /\ produced < Len(zdata)
  /\ phase' = "failed"
  /\ UNCHANGED <<rect, zdata, produced, ctx, data_remain, drawn, nrects>>

(* avail_in is 0: the rectangle is over and its context, leftover bytes    *)
(* included, is discarded.                                                 *)
EndRect ==
  /\ phase = "zrle"
  /\ produced = Len(zdata)
  /\ phase' = "idle"
  /\ UNCHANGED <<rect, zdata, produced, ctx, data_remain, drawn, nrects>>
=============================================================================
