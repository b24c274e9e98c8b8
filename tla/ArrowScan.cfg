SPECIFICATION Spec
CONSTANTS
  narrow = narrow
  wide = wide
  hollow = hollow
  Scans = {p, c}
  Cached = {c}
  Workers = {w1, w2, w3}
  Sources <- MCSources
  Schema <- MCSchema
  Batches <- MCBatches
  VecSize = 2
  None = None
SYMMETRY Symmetry
INVARIANTS TypeOK WindowsFit NoRowTwice NoRowMissed DrainedAsBound
