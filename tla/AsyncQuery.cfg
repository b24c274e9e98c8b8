SPECIFICATION Spec
CONSTANTS
  Drives = {d1, d2}
  Udf = {d1}
  Droppable = {d2}
  PoolSize = 1
  Calls = 1
  Loop = Loop
  None = None
INVARIANTS TypeOK OneUserAtATime NothingLeftBehind ConsumedIsNeverSeen
PROPERTIES CancelEnds LoopComesBack FreedInTheEnd
