\* A server whose RRE subrectangle lies outside its rectangle, or whose
\* SetColourMapEntries holds more entries than the 8192-byte message buffer
\* (64 bytes here, 32 per entry kept): is a fixed buffer written past its end?
CONSTANTS
  Width = 3
  Height = 2
  Band = 1
  CursorDim = 2
  PalSize = 2
  PalBufCap = 64
  CursorEnc <- MCCursorEnc
  Pixels = {0, 65535}
  Colours <- MCColours
  UpdateOps <- OutOfRectRreOps
  PaletteOps <- LongPaletteOps
SPECIFICATION MCSpec
INVARIANT WritesInBounds
CHECK_DEADLOCK FALSE
