SPECIFICATION Spec
CONSTANTS
  Devices = {d1, d2}
  Entities = {lock1, lock2}
  UniqueIds = {u1, u2}
  None = None
  Happens = {"rename", "unregister", "reuse", "remove"}
  MaxRegistry = 2
  MaxEdits = 1
  MaxDrops = 0
\* Nothing need happen once all is settled.
CHECK_DEADLOCK FALSE
INVARIANT SettledTracked
