\* The EOL id and two attribute ids, the first and the last of the table,
\* so that emit's id order and its final EOL pair both matter; values of
\* zero, one and two bytes, so that replacing a pair changes the length.
CONSTANTS
  AddIds = {0, 1, 9}
  Values <- MCValues
  MISSING = MISSING
SPECIFICATION MCSpec
INVARIANT TypeOK
INVARIANT PacketLengthMatches
INVARIANT RecvInBounds
PROPERTY AvPairsRefinement
