\* Two chunk rotations, three temporary files (so a chunk whose rename
\* failed is written again under a new name), and a clock of three seconds
\* (so data is written before, at and after the second of a rotation).
CONSTANTS
  MaxFiles = 2
  MaxTmps = 3
  MaxSec = 2
SPECIFICATION Spec
INVARIANT TypeOK
INVARIANT IndexConsistent
INVARIANT ChunkTimesIndexed
INVARIANT SeekSkipsNoData
\* After close() or request_full_cleaning() the writer is destroyed: it stops.
CHECK_DEADLOCK FALSE
