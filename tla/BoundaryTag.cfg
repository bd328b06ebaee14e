SPECIFICATION FairSpec
CONSTANTS
  MemSize = 17
  StartSize = 2
  EndSize = 1
  Size = {0, 2}
  Value = {x}
  Junk = Junk
  Part = Part
INVARIANTS
  TagsAgree
  FreeListOK
  FreeMemoryCoalesced
  NoLeak
PROPERTIES
  FailsOnlyWhenNothingFits
  KeepsContract
  CallReturns
