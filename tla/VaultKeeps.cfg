SPECIFICATION Spec
CONSTANTS
  j1 = j1
  j2 = j2
  c1 = c1
  c2 = c2
  s1 = s1
  Jobs = {j1, j2}
  Changes = {c1, c2}
  Passphrases = {s1}
  Levels = {c2}
  Name = c1
  Words = {1, 2, 3}
  Asked = 2
  Seconds = 1
  Short = Short
  None = None
  MaxSalts = 2
  MaxBoots = 3
INVARIANTS
  PasskeyOpens
  QuietAgrees
  FallbackFollows
  SavedAloneStays
  WordsAreKnown
  CompleteIsStored
PROPERTIES
  IdentityKept
SYMMETRY Symmetry
CHECK_DEADLOCK FALSE
