SPECIFICATION Spec
CONSTANTS
  a = a
  b = b
  c1 = c1
  Locks <- TwoLocks
  NoLock = NoLock
  Clients <- OneClient
  MaxGeneration = 2
PROPERTY RestoreSendsSaved
