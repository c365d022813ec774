SPECIFICATION Spec
CONSTANTS
  o1 = o1
  o2 = o2
  o3 = o3
  Choices <- ThreeChoices
  MaxReboots = 2
  Outages <- ThreeOutages
  NoOutage = NoOutage
SYMMETRY Symmetry
INVARIANTS
  OutageSurvives
PROPERTY RebootLimit
