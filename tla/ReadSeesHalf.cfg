SPECIFICATION SpecReads
CONSTANTS
  MaxSlots = 2
  Codes = {c1, c2}
  Users = {1, 2}
  None = None
  Tasks = {t1, t2}
  Readers = {r1}
CHECK_DEADLOCK FALSE
INVARIANT ReadIsSnapshot
