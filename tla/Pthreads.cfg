SPECIFICATION FairSpec
CONSTANTS
  Programs <- AllPrograms
  Object = {"mutex", "spinlock", "rlock", "wlock", "cond", "barrier"}
  MaxThreads = 4
CHECK_DEADLOCK FALSE
INVARIANTS
  DestroyedUnused
  HoldersGoOn
PROPERTY
  EndsUnlessSignalLost
