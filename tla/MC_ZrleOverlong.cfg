\* A malicious server: a plain RLE tile whose run length is spelled with
\* more continuation bytes than data_remain can hold.
CONSTANTS
  TileSize = 2
  Bpp = 2
  RunContinue = 2
  TileBufCap = 16
  RemainCap = 16
  OutCap = 3
  CompressedCap = 64
  ZLens = {10, 65}
  MaxRects = 1
  OverlongRun = 18
  Rects <- MCRects
  Colours <- MCColours
  TileKinds = {"raw", "solid", "overlong"}
INIT MCInit
NEXT MCNext
INVARIANT LeftoverWithinCapacity
CHECK_DEADLOCK FALSE
