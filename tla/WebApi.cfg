SPECIFICATION LiveSpec
CONSTANTS
  c1 = c1
  c2 = c2
  c3 = c3
  Calls <- ThreeCalls
  Sockets <- ThreeSockets
  Concurrency = 1
  NoSocket = NoSocket
INVARIANT NobodyForgotten
PROPERTIES
  PromiseKept
  EveryCallSettles
CHECK_DEADLOCK FALSE
