\* Tiles of 2x2 pixels, 2 bytes per pixel, run continuation byte 2: the
\* code's 64, 2 and 255 scaled down; buffers scaled with the tile. zlib
\* hands the payload over one byte per inflate call, so an unfinished tile
\* is saved at every possible length.
CONSTANTS
  TileSize = 2
  Bpp = 2
  RunContinue = 2
  TileBufCap = 16
  RemainCap = 16
  OutCap = 1
  CompressedCap = 64
  ZLens = {10, 65}
  MaxRects = 1
  OverlongRun = 0
  Rects <- MCRects
  Colours <- MCColours
  TileKinds = {"raw", "solid", "packed2", "packed3", "packed5", "plain", "prle2", "reserved"}
INIT MCInit
NEXT MCNext
INVARIANT TypeOK
INVARIANT LeftoverWithinCapacity
PROPERTY ZrleRefinement
CHECK_DEADLOCK FALSE
