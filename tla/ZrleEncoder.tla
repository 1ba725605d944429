---------------------------- MODULE ZrleEncoder ----------------------------
(***************************************************************************)
(* The VNC server side of ZRLE, used as the model's environment: it cuts  *)
(* a rectangle into tiles and encodes each tile's pixels with one of the  *)
(* subencodings of RFC 6143 section 7.7.6 (spec.md section 4.3).  It is   *)
(* written from the protocol, not from the decoder, so that the decoder   *)
(* is checked against an independent definition.                          *)
(***************************************************************************)
EXTENDS Naturals, Sequences, SequencesExt
LOCAL INSTANCE FiniteSets

CONSTANTS TileSize, Bpp, RunContinue,
          OverlongRun   \* continuation bytes of an over-long plain RLE run

LOCAL MinOf(a, b) == IF a <= b THEN a ELSE b

(* The tiles of rectangle r, left to right then top to bottom.             *)
TileRects(r) ==
  LET cols == (r.w + TileSize - 1) \div TileSize
      rows == (r.h + TileSize - 1) \div TileSize
  IN [k \in 1..(cols * rows) |->
        LET i == (k - 1) % cols
            j == (k - 1) \div cols
        IN [x |-> r.x + i * TileSize, y |-> r.y + j * TileSize,
            w |-> MinOf(TileSize, r.w - i * TileSize),
            h |-> MinOf(TileSize, r.h - j * TileSize)]]

(* A w x h tile whose pixels alternate p and q like a checkerboard.       *)
Grid(p, q, w, h) ==
  [k \in 1..(w * h) |-> IF (((k - 1) % w) + ((k - 1) \div w)) % 2 = 0 THEN p ELSE q]

Uniform(g) == \A k \in DOMAIN g : g[k] = g[1]

(* A palette of n entries holding the tile's colours (first one repeated  *)
(* as padding) and the index of a colour in it.                            *)
Palette(g, n) ==
  LET cols == IF Uniform(g) THEN <<g[1]>> ELSE <<g[1], g[2]>>
  IN [i \in 1..n |-> IF i <= Len(cols) THEN cols[i] ELSE g[1]]
IndexIn(pal, px) == CHOOSE i \in 0..(Len(pal) - 1) : pal[i + 1] = px

(* Runs of equal pixels, as records [px, len].                            *)
RECURSIVE Runs(_)
Runs(g) ==
  IF g = <<>> THEN <<>>
  ELSE LET rest == Runs(Tail(g)) IN
       IF rest # <<>> /\ rest[1].px = g[1]
       THEN [rest EXCEPT ![1].len = @ + 1]
       ELSE <<[px |-> g[1], len |-> 1]>> \o rest

(* A run length: (len - 1) as continuation bytes plus a final byte.       *)
RunBytes(len) ==
  [k \in 1..((len - 1) \div RunContinue) |-> RunContinue]
    \o <<(len - 1) % RunContinue>>

(* Packed palette indices, each row starting on a byte boundary.          *)
PackedRows(n, pal, g, w, h) ==
  LET bits == IF n = 2 THEN 1 ELSE IF n <= 4 THEN 2 ELSE 4
      ppb  == 8 \div bits
      rb   == (w + ppb - 1) \div ppb
      Part(r, b, t) ==
        LET c == b * ppb + t IN
        IF c < w THEN IndexIn(pal, g[r * w + c + 1]) * 2 ^ (8 - bits * (t + 1))
        ELSE 0
      RECURSIVE ByteOf(_, _, _)
      ByteOf(r, b, t) == IF t = ppb THEN 0 ELSE Part(r, b, t) + ByteOf(r, b, t + 1)
  IN [k \in 1..(rb * h) |-> ByteOf((k - 1) \div rb, (k - 1) % rb, 0)]

Kinds == {"raw", "solid", "packed2", "packed3", "packed5", "plain", "prle2",
          "reserved", "overlong"}

(* Whether kind can encode tile g.                                         *)
Fits(kind, g) == kind \in {"solid", "overlong"} => Uniform(g)

(* The bytes of tile g (w x h) in the given subencoding.                   *)
Encode(kind, g, w, h) ==
  LET runs == Runs(g)
      Pack(n) == LET pal == Palette(g, n) IN
                 <<n>> \o FlattenSeq(pal) \o PackedRows(n, pal, g, w, h)
      pal2 == Palette(g, 2)
  IN CASE kind = "raw"     -> <<0>> \o FlattenSeq(g)
       [] kind = "solid"   -> <<1>> \o g[1]
       [] kind = "packed2" -> Pack(2)
       [] kind = "packed3" -> Pack(3)
       [] kind = "packed5" -> Pack(5)
       [] kind = "plain"   ->
            <<128>> \o FlattenSeq([i \in DOMAIN runs |->
                                     runs[i].px \o RunBytes(runs[i].len)])
       [] kind = "prle2"   ->
            <<130>> \o FlattenSeq(pal2)
              \o FlattenSeq([i \in DOMAIN runs |->
                    IF runs[i].len = 1 THEN <<IndexIn(pal2, runs[i].px)>>
                    ELSE <<IndexIn(pal2, runs[i].px) + 128>> \o RunBytes(runs[i].len)])
       [] kind = "reserved" -> <<17>>
       [] kind = "overlong" ->
            <<128>> \o g[1] \o [k \in 1..OverlongRun |-> RunContinue] \o <<0>>

(* A choice of grid colours and subencoding for every tile of r.           *)
Selections(r, Colours, Ks) ==
  LET T == TileRects(r) IN
  {sel \in [DOMAIN T -> Colours \X Ks] :
     \A k \in DOMAIN T :
       Fits(sel[k][2], Grid(sel[k][1][1], sel[k][1][2], T[k].w, T[k].h))}

TileGrid(r, sel, k) ==
  Grid(sel[k][1][1], sel[k][1][2], TileRects(r)[k].w, TileRects(r)[k].h)

(* The decompressed bytes of rectangle r encoded as sel.                   *)
Stream(r, sel) ==
  FlattenSeq([k \in DOMAIN sel |->
                Encode(sel[k][2], TileGrid(r, sel, k),
                       TileRects(r)[k].w, TileRects(r)[k].h)])

(* The tiles a correct decoder draws: all of them up to the first tile    *)
(* with a reserved subencoding.                                            *)
Expected(r, sel) ==
  LET T    == TileRects(r)
      good == 1..Cardinality({k \in DOMAIN sel :
                                \A m \in 1..k : sel[m][2] # "reserved"})
  IN [k \in good |-> [x |-> T[k].x, y |-> T[k].y, w |-> T[k].w, h |-> T[k].h,
                      pix |-> TileGrid(r, sel, k)]]

(* Whether every tile of sel is well formed.                               *)
WellFormed(sel) == \A k \in DOMAIN sel : sel[k][2] # "reserved"
=============================================================================
