SPECIFICATION Spec
CONSTANTS
  Threads = {t1}
  MainThread = t1
  Udf = {t1}
  Blockers = {}
  Calls = 2
  Rows = 0
  SIGNAL_CHECK_PERIOD = 2
  None = None
CHECK_DEADLOCK FALSE
PROPERTIES InterruptLands
