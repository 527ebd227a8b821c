SPECIFICATION FairSpec
CONSTANTS
  r1 = r1
  e1 = e1
  e2 = e2
  h1 = h1
  h2 = h2
  h3 = h3
  k1 = k1
  Recipients = {r1}
  Envelopes = {e1, e2}
  Handlers = {h1, h2, h3}
  Keys = {k1}
  LockKey <- OneKey
  Free = free
  Limit = 1
INVARIANTS
  SerialsAreGapless
  CursorMissesNothing
PROPERTIES
  StoredIsPulled
CHECK_DEADLOCK FALSE
