\* A 9-byte label buffer (the code's 256): KEVENT_KEY accepts up to four
\* characters. Two ASCII glyphs of different widths, clicks before, inside
\* and past the text, and any number of rejected passwords.
CONSTANTS
  LabelBuf = 9
  Chars <- AsciiChars
  GlyphWidth <- MCGlyphWidth
  Clicks = {0, 1, 3, 9}
SPECIFICATION PSpec
INVARIANT TypeOK
INVARIANT CountersMatchText
INVARIANT CursorAtPixel
INVARIANT BufferAccessInBounds
PROPERTY PromptRefinement
\* The module stops once the session is up or the user cancelled.
CHECK_DEADLOCK FALSE
