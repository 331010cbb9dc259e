SPECIFICATION Spec
CONSTANTS
  InitialBackoff = 2
  MaxBackoff = 5
  Moods <- EveryMood
  MaxQueueSize = 1
  MaxEventAge = 0
  MaxEvents = 1
  MaxClock = 1
  MaxFaults = 1
  MaxReloads = 2
\* An unloaded entry stops for good.
CHECK_DEADLOCK FALSE
INVARIANTS
  TypeOK
  OneSocketAtATime
  RejectionRecorded
  PromptClearsInOneRun
PROPERTIES
  BackoffHolds
  PromptOncePerRun
  OnlyTheTokenIsBlamed
  Reconnects
  StopEnds
