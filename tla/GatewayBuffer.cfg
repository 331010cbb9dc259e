SPECIFICATION Spec
CONSTANTS
  InitialBackoff = 2
  MaxBackoff = 5
  Moods <- PlainMoods
  MaxQueueSize = 2
  MaxEventAge = 1
  MaxEvents = 4
  MaxClock = 2
  MaxFaults = 2
  MaxReloads = 1
\* An unloaded entry stops for good.
CHECK_DEADLOCK FALSE
INVARIANTS
  AtMostOnce
  ReplayInOrder
  StoppedIsQuiet
PROPERTIES
  LossesAccounted
  ImplementsBuffer
