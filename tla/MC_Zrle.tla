------------------------------ MODULE MC_Zrle ------------------------------
(***************************************************************************)
(* Model checking the ZRLE decoder against the server's encoder and the   *)
(* abstract promise of ZrleAbstract.  The server picks, for each tile of  *)
(* a rectangle, a colour pattern and a subencoding; inflate then hands    *)
(* the decoder the stream in buffers of OutCap bytes, so the tile         *)
(* boundaries fall at every offset of the buffers across the choices.      *)
(***************************************************************************)
EXTENDS ZrleDecoder

CONSTANTS
  Rects,       \* rectangle headers the server may send
  Colours,     \* pairs of pixels <<p, q>> a tile may be painted with
  TileKinds,   \* subencodings the server may use
  ZLens,       \* compressed lengths the server may announce
  MaxRects,    \* rectangles per behaviour
  OverlongRun

VARIABLE expected   \* the tiles the server encoded (ghost)

Enc == INSTANCE ZrleEncoder

mcvars == <<vars, expected>>

MCInit == Init /\ expected = <<>>

MCStartRect ==
  /\ nrects < MaxRects
  /\ \E r \in Rects, z \in ZLens :
       \E sel \in Enc!Selections(r, Colours, TileKinds) :
         /\ StartRect(r, Enc!Stream(r, sel), z)
         /\ expected' = Enc!Expected(r, sel)

MCNext ==
  \/ MCStartRect
  \/ InflateStep /\ UNCHANGED expected
  \/ InflateError /\ UNCHANGED expected
  \/ EndRect /\ UNCHANGED expected

(* A 3 x 3 rectangle at x = 1: four tiles of 2x2, 1x2, 2x1 and 1x1, so   *)
(* the cursor wraps to a second row and clipped tiles occur.             *)
MCRects == {[x |-> 1, y |-> 0, w |-> 3, h |-> 3]}
(* Tiles of one colour or of two alternating colours.                    *)
MCColours == {<<<<1, 2>>, <<1, 2>>>>, <<<<1, 2>>, <<3, 4>>>>}

MCSpec == MCInit /\ [][MCNext]_mcvars

Pixel == [1..Bpp -> 0..255]
Tile == [x : 0..65535, y : 0..65535, w : 0..TileSize, h : 0..TileSize,
         pix : Seq(Pixel \cup {OutOfBuffer})]

(* Every variable has its type.                                            *)
TypeOK ==
  /\ phase \in {"idle", "zrle", "failed"}
  /\ produced \in 0..Len(zdata)
  /\ zdata \in Seq(0..255)
  /\ data_remain \in Seq(0..255)
  /\ ctx.cx_remain \in 0..ctx.cx /\ ctx.cy_remain \in 0..65535
  /\ \A k \in DOMAIN drawn : drawn[k] \in Tile
  /\ nrects \in 0..MaxRects

(* The bytes saved between two inflate buffers (data_remain, and the head *)
(* room of the next buffer they are copied into) never exceed the         *)
(* buffer's capacity: lib_framebuffer_update_zrle copies the whole        *)
(* unfinished tile into it without checking its size.                      *)
LeftoverWithinCapacity == Len(data_remain) <= RemainCap

(* Decoding is chunk-boundary independent: the decoder implements         *)
(* ZrleAbstract, drawing the encoded tiles in order with their own        *)
(* pixels and ending a rectangle only when all of them are drawn.         *)
Abstract == INSTANCE ZrleAbstract WITH
  want   <- expected,
  shown  <- drawn,
  status <- CASE phase = "zrle" -> "busy"
              [] phase = "idle" -> "idle"
              [] OTHER -> "failed"
ZrleRefinement == Abstract!Spec
=============================================================================
