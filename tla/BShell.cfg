SPECIFICATION FairSpec
CONSTANTS
  NumCommands = 4
  Items = 3
  Capacity = 2
  MaxFd = 4
  Below = 1
CHECK_DEADLOCK FALSE
INVARIANTS
  RunsWithItsPipes
  ResultInOrder
PROPERTIES
  KilledOnlyByReader
  EveryProcessEnds
