SPECIFICATION Spec
CONSTANTS
  Entries = {e1, e2}
  Forms = {f1, f2}
  Tokens = {k1, k2, k3}
  None = None
  Blank = Blank
INVARIANTS
  TypeOK
  OneEntryPerToken
  ChecksSpareEntries
PROPERTIES
  ReauthTakesEffect
  UniqueFollows
