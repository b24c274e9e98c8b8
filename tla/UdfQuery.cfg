SPECIFICATION Spec
CONSTANTS
  Workers = {w1, w2}
  Batch = 2
  Sizes = {0, 3, 4}
  MaxQueries = 2
  NGroups = 2
  GroupOf <- MCGroupOf
  Null = Null
  Garbage = Garbage
INVARIANTS TypeOK ReleasedOnce EveryRowCounted TableRowsInOrder
CHECK_DEADLOCK FALSE
