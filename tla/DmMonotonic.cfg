SPECIFICATION Spec
CONSTANTS
  home = home
  a1 = a1
  a2 = a2
  r1 = r1
  r2 = r2
  Anchors = {home, a1}
  Home = home
  Recipients = {r1}
  Envelopes = {1, 2}
  To <- PairTo
  AnchorLists <- PairLists
  View0 <- PairView
  Receipts <- AllConsent
  Faults = {}
  MaxMoves = 0
  MaxRestarts = 0
PROPERTIES
  StatesAreMonotonic
CHECK_DEADLOCK FALSE
