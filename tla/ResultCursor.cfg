SPECIFICATION Spec
CONSTANTS
  MaxChunks = 3
  MaxRows = 2
  MaxSize = 2
  EngineFails = FALSE
INVARIANTS TypeOK EveryRowOnce InOrder EndIsTheEnd
PROPERTIES FetchAllTakesAll
