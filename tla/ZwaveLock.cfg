SPECIFICATION Spec
CONSTANTS
  Tasks = {t1}
  Codes = {c1, c2}
  None = None
  MaxRetries = 2
\* Nothing need happen once all calls have ended.
CHECK_DEADLOCK FALSE
INVARIANTS
  TypeOK
  VerifiedWasHeld
PROPERTIES
  UnconfirmedUnchanged
  SetsEnd
