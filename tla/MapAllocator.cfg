SPECIFICATION Spec
CONSTANTS
  MemSize = 11
  size_info = 2
  MaxCount = 15
  Size = {0, 2}
  Value = {x}
  Junk = Junk
  MaxLive = 2
CHECK_DEADLOCK FALSE
INVARIANT
  TypeOK
PROPERTIES
  DataInMemory
  KeepsContract
