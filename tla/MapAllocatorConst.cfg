SPECIFICATION Spec
CONSTANTS
  MemSize = 12
  size_info = 2
  MaxCount = 17
  Size = {1, 2}
  Value = {x}
  Junk = Junk
  MaxLive = 3
CHECK_DEADLOCK FALSE
PROPERTY
  OtherBlockConst
