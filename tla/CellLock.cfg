SPECIFICATION FairSpec
CONSTANTS
  a = a
  b = b
  c1 = c1
  c2 = c2
  RadioCount = 1
  Cells <- TwoCells
  NoCell = NoCell
  Unreadable = Unreadable
  Clients <- TwoClients
INVARIANTS
  AutoUnlockIsWatched
  RemovedIsGone
  ModuleHoldsSaved
  NoLostWakeup
PROPERTIES
  DueIsDecided
  RemovalIsRetried
