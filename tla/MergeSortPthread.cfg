SPECIFICATION FairSpec
CONSTANTS
  N = 6
  Input <- SomeInputs
  Threshold = 2
  ThreadLimit = 3
CHECK_DEADLOCK FALSE
INVARIANTS
  TypeOK
  NoRace
  SortedAtEnd
PROPERTY
  Ends
