SPECIFICATION LineSpec
CONSTANTS
  MaxLine = 7
CHECK_DEADLOCK FALSE
INVARIANT
  LineAsWritten
