SPECIFICATION FairSpec
CONSTANTS
  a = a
  b = b
  c1 = c1
  Locks <- OneLock
  NoLock = NoLock
  Clients <- OneClient
  MaxGeneration = 2
PROPERTY GuardIsDecided
