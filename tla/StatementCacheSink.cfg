SPECIFICATION Spec
CONSTANTS
  Threads = {t1}
  MainThread = None
  Queries = {q1, q2, set}
  Flushing = {set}
  Params = {p1}
  Stmts = {h1, h2, h3}
  Options = {"enable_profiling"}
  Elsewhere = {}
  Sources = {a1}
  Modes = {"standard"}
  Samples = {1}
  Capacity = 1
  None = None
INVARIANTS CachedPlansFresh
