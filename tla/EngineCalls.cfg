SPECIFICATION Spec
CONSTANTS
  Threads = {t1, t2}
  MainThread = t1
  Udf = {t1, t2}
  Blockers = {t1, t2}
  Calls = 2
  Rows = 2
  SIGNAL_CHECK_PERIOD = 2
  None = None
CHECK_DEADLOCK FALSE
INVARIANTS TypeOK NoOrphanedUdf
PROPERTIES InterruptLandsUnlessStuck UdfGetsGilUnlessStuck
