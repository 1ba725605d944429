\* Both directions on or off, with or without the cliprdr channel; texts
\* of up to four units over two symbols, chunks of two symbols (the first
\* holding the header), an accumulator of three units, ServerCutText kept
\* to two units.
CONSTANTS
  Symbols = {"a", "b"}
  MaxText = 4
  MaxClip = 2
  ChunkLen = 2
  AccCap = 3
  MaxEvents = 4
SPECIFICATION Spec
INVARIANT TypeOK
INVARIANT PasteDelivered
PROPERTY ResponseMatchesServerCopy
\* Behaviours stop at the MaxEvents bound or after send_to_vnc throws.
CHECK_DEADLOCK FALSE
