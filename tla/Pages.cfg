SPECIFICATION PageLiveSpec
CONSTANTS
  v1 = v1
  v2 = v2
  Values <- TwoValues
  Initially = v1
  Views <- ThreeViews
  GroupOf <- Groups
  MaxHistory = 4
  MaxFlights = 3
  Budget <- Events
INVARIANTS
  SettingsAreReal
  SamplesAreOfTarget
  AddressIsView
PROPERTIES
  WaitsEnd
  PollingGoesOn
  QuietWhenAway
  EditsSurvive
CHECK_DEADLOCK FALSE
