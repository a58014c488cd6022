SPECIFICATION Spec
CONSTANTS
  e1 = e1
  e2 = e2
  e3 = e3
  late = late
  Events <- MCEvents
  Priority <- MCPriority
  Horizon = 2
  NULL = NULL
INVARIANTS ScheduledReachable
PROPERTY OrderSpec
SYMMETRY Symmetry
