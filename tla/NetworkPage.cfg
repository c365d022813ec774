SPECIFICATION LiveSpec
CONSTANTS
  ltem = ltem
  sam = sam
  v1 = v1
  v2 = v2
  l1 = l1
  l2 = l2
  n1 = n1
  Modes <- TwoModes
  Values <- TwoValues
  Initially = v1
  Lte <- TwoLte
  Nr <- OneNr
  Scans <- SomeScans
  MaxFlights = 2
  Budget <- Events
INVARIANTS
  ShownIsReal
  SelectionIsShown
PROPERTIES
  LocksConverge
  FollowingEnds
CHECK_DEADLOCK FALSE
