SPECIFICATION Spec
CONSTANTS
  Devices = {d1, d2}
  Entities = {lock1, lock2, lock3}
  UniqueIds = {u1, u2}
  None = None
  Happens = {"rename", "unregister", "register", "reuse", "add", "remove", "update"}
  MaxRegistry = 2
  MaxEdits = 2
  MaxDrops = 1
SYMMETRY Interchangeable
\* Nothing need happen once all is settled.
CHECK_DEADLOCK FALSE
INVARIANTS
  TypeOK
  ReverseSound
PROPERTY SyncIsLoop
