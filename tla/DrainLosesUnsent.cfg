SPECIFICATION Spec
CONSTANTS
  InitialBackoff = 2
  MaxBackoff = 5
  Moods <- PlainMoods
  MaxQueueSize = 2
  MaxEventAge = 2
  MaxEvents = 2
  MaxClock = 1
  MaxFaults = 1
  MaxReloads = 0
\* An unloaded entry stops for good.
CHECK_DEADLOCK FALSE
PROPERTY DrainKeepsUnsent
