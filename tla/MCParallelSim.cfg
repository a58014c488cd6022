SPECIFICATION FairSpec
CONSTANTS
  Threads = {0, 1, 2}
  simQuantum = 2
  l1 = l1
  g1 = g1
  g2 = g2
  Locals = {l1}
  Globals = {g1}
  GlobalPriority = 100
  Priority <- MCPriority
  Limit = 5
INVARIANTS NotInThePast GlobalIsAlone 
PROPERTY LimitReached
CHECK_DEADLOCK FALSE
