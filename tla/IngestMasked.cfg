SPECIFICATION Spec
CONSTANTS
  NCols = 2
  VecSize = 2
  MaxCalls = 3
  Lengths = {3}
  Streams = {2}
  Masks <- MCMasks
  Rows <- MCRows
  Null = Null
  Unwritten = Unwritten
  Before = Before
  Idle = Idle
  Unbound = Unbound
INVARIANTS MissingIsNull
CHECK_DEADLOCK FALSE
