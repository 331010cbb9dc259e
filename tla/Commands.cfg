SPECIFICATION Spec
CONSTANTS
  Requests = {r1}
  Entities = {lock}
  States = {"locked", "unlocked"}
  Targets = {"locked"}
  Gone = "unknown"
  None = None
  EventTypes = {"other"}
  MATCH_ALL = "*"
  TypeLists <- SomeLists
  Workers = 2
  MaxCommands = 2
  Limits = {0, 1, 3}
  MaxConcurrency = 2
  Durations = {1, 7}
  MaxDuration = 1
  MaxWanted = 2
  MaxTapEvents = 1
  MaxFired = 2
  ServiceTime = 1
  PollInterval = 2
  PulseInterval = 3
  StateTimeout = 7
  MaxStall = 2
  SilenceLimit = 8
\* The requests are all answered in the end.
CHECK_DEADLOCK FALSE
INVARIANTS
  SlotsAccounted
  TapTells
  TapBounded
  ListenersGone
  QuickRequestsHeard
PROPERTIES
  WaitTellsNow
  RequestsEnd
