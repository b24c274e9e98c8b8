SPECIFICATION Spec
CONSTANTS
  MaxChunks = 2
  MaxRows = 1
  MaxSize = 2
  EngineFails = TRUE
INVARIANTS EndIsTheEnd
