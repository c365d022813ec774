SPECIFICATION LiveSpec
CONSTANTS
  m1 = m1
  m2 = m2
  Modules <- TwoModules
  NoModule = NoModule
  Commands = 2
  MaxPlans = 2
  Uses <- FourUses
PROPERTIES
  OnlyAgreedIsSent
  StopStopsOne
  DialogFollowsPlans
CHECK_DEADLOCK FALSE
