SPECIFICATION Spec
CONSTANTS
  a = a
  b = b
  c1 = c1
  Locks <- TwoLocks
  NoLock = NoLock
  Clients <- OneClient
  MaxGeneration = 2
SYMMETRY Symmetry
INVARIANTS
  UnlockedIsGone
  NoForgottenLock
PROPERTIES
  RevertIsReal
  KeepsPromise
