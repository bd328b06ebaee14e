SPECIFICATION FairSpec
CONSTANTS
  Node = {n0, n1, n2}
  First = n0
  NULL = NULL
  MemSize = 8
  SIZE_POINTER = 2
  Size = {0, 1, 2}
  Value = {x}
  Junk = Junk
INVARIANTS
  TypeOK
  BlockListOK
  FreeMemoryCoalesced
  HeadersIntact
  NoLeak
  AvailableExact
PROPERTIES
  FailsOnlyWhenNothingFits
  KeepsContract
  CallReturns
