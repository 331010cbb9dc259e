SPECIFICATION Spec
CONSTANTS
  Devices = {d1, d2}
  Entities = {lock1, lock2, lock3}
  UniqueIds = {u1, u2}
  None = None
  Happens = {"rename", "reuse"}
  MaxRegistry = 2
  MaxEdits = 0
  MaxDrops = 1
\* Nothing need happen once all is settled.
CHECK_DEADLOCK FALSE
INVARIANT SettledRight
