SPECIFICATION FairSpec
CONSTANT
  MaxFd = 5
CHECK_DEADLOCK FALSE
INVARIANTS
  NoDescriptorLeft
  HelloOnce
PROPERTY
  BothEnd
