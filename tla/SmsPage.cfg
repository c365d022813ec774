SPECIFICATION LiveSpec
CONSTANTS
  m1 = m1
  m2 = m2
  m3 = m3
  me1 = me1
  me2 = me2
  sm1 = sm1
  Messages <- ThreeMessages
  Slots <- ThreeSlots
  MeSlots <- TwoMe
  Stored <- TwoStored
  HeldPolls = 3
  MaxFlights = 2
  MaxEvents = 3
INVARIANTS
  MarksFollowMessages
  QuietElsewhere
PROPERTIES
  BusyEnds
  InboxConverges
CHECK_DEADLOCK FALSE
