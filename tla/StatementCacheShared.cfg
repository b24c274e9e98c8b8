SPECIFICATION Spec
CONSTANTS
  Threads = {t1, t2}
  MainThread = t1
  Queries = {q1, q2, set}
  Flushing = {set}
  Params = {p1}
  Stmts = {h1, h2, h3}
  Options = {"enable_profiling"}
  Elsewhere = {"enable_profiling"}
  Sources = {a1}
  Modes = {"detailed"}
  Samples = {1}
  Capacity = 1
  None = None
SYMMETRY Symmetry
INVARIANTS TypeOK IndexMatchesList WithinCapacity SingleOwner NoParameterLeak AllDestroyed
PROPERTIES RunsAsPromised
