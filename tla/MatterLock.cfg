SPECIFICATION Spec
CONSTANTS
  MaxSlots = 2
  Codes = {c1, c2}
  Users = {1, 2}
  None = None
  Tasks = {t1, t2}
\* Nothing need happen once all calls have ended.
CHECK_DEADLOCK FALSE
INVARIANT TypeOK
PROPERTIES
  AddOnlyToEmpty
  ImplementsCodeStore
  RequestsEnd
