SPECIFICATION ClientSpec
CONSTANTS
  t1 = t1
  t2 = t2
  t3 = t3
  d1 = d1
  p1 = p1
  p2 = p2
  v1 = v1
  v2 = v2
  Tokens = {t1, t2, t3}
  Devices = {d1}
  Rotators = {p1, p2}
  Revokers = {v1, v2}
  MaxLogins = 1
  None = None
INVARIANTS
  LineNeverForks
  RevokesWhatItFound
PROPERTIES
  StoreMovesForward
SYMMETRY Symmetry
CHECK_DEADLOCK FALSE
