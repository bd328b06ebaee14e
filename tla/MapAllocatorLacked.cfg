SPECIFICATION Spec
CONSTANTS
  MemSize = 10
  size_info = 2
  MaxCount = 15
  Size = {0, 1, 3}
  Value = {x}
  Junk = Junk
  MaxLive = 3
CHECK_DEADLOCK FALSE
PROPERTY
  ThrowsOnlyIfMemoryLacked
