SPECIFICATION Spec
CONSTANTS
  MaxBlocks = 2
  Depth = 2
  Null = Null
PROPERTIES SettingsRestored PollerEnds
CHECK_DEADLOCK FALSE
