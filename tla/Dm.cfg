SPECIFICATION FairSpec
CONSTANTS
  home = home
  a1 = a1
  a2 = a2
  r1 = r1
  r2 = r2
  Anchors = {home, a1}
  Home = home
  Recipients = {r1, r2}
  Envelopes = {1}
  To <- OneTo
  AnchorLists <- OneLists
  View0 <- OneView
  Receipts <- OneConsent
  Faults = {"refuse", "db", "loss"}
  MaxMoves = 1
  MaxRestarts = 1
INVARIANTS
  AcceptedIsStored
  ReadIsConsented
PROPERTIES
  KeepsPromise
  SubmissionEnds
CHECK_DEADLOCK FALSE
