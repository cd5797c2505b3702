SPECIFICATION Spec
CONSTANTS
  MaxLen = 6
  Streams <- MCStreams
  Size = 4
INVARIANTS NothingLost PiecesFit HeaderEndsAtEmptyLine
CHECK_DEADLOCK FALSE
PROPERTIES EndOfClientEndsLoop EmptyLineIsEnough
