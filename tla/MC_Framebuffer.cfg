\* A 3x2 screen, raw bands of one row, a 2x2 RDP pointer and a palette of
\* two entries (the palette buffer keeps its 32 bytes per entry); the server
\* sends every encoding the module asks for, an empty Hextile rectangle and
\* an unknown encoding, colour maps and Bells.
CONSTANTS
  Width = 3
  Height = 2
  Band = 1
  CursorDim = 2
  PalSize = 2
  PalBufCap = 64
  CursorEnc <- MCCursorEnc
  Pixels = {0, 65535}
  Colours <- MCColours
  UpdateOps <- MCUpdateOps
  PaletteOps <- MCPaletteOps
SPECIFICATION MCFairSpec
INVARIANT TypeOK
INVARIANT DisplayMatchesServer
INVARIANT WritesInBounds
PROPERTY UpdateCompletes
\* An unknown encoding ends the module (draw_event sets BACK_EVENT_NEXT):
\* nothing is enabled afterwards.
CHECK_DEADLOCK FALSE
