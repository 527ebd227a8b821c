CONSTANTS
  Anchors = {a1, a2}
  MaxRuns = 2
  MaxSockets = 2
SPECIFICATION FairLinkSpec
INVARIANTS StatusIsFounded OneChannel
PROPERTIES OutageIsNoticed Connects
CHECK_DEADLOCK FALSE
