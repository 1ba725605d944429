\* The same field with a two-byte character: KEVENT_KEY bounds the field by
\* characters (num_chars < LabelBuf - 5), UTF8InsertOneAtPos by bytes. Does
\* every handler still stay inside label.buffer?
CONSTANTS
  LabelBuf = 9
  Chars <- MultibyteChars
  GlyphWidth <- MCGlyphWidth
  Clicks = {0, 1, 3, 9}
SPECIFICATION PSpec
INVARIANT BufferAccessInBounds
CHECK_DEADLOCK FALSE
