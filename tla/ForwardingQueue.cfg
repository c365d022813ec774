SPECIFICATION Spec
CONSTANTS
  m1 = m1
  m2 = m2
  o1 = o1
  c1 = c1
  c2 = c2
  f1 = f1
  f2 = f2
  Messages <- OneMessage
  Outages <- OneOutage
  Fragments <- TwoFragments
  Channels <- TwoChannels
  Pieces = 1
  Choices <- ThreeChoices
  MaxJobs = 2
  MaxReceipts = 1
  NoJob = NoJob
  NoMessage = NoMessage
INVARIANT QueueBound
SYMMETRY Symmetry
