CONSTANTS
  Anchors = {a1}
  MaxRuns = 2
  MaxSockets = 2
SPECIFICATION FairLinkSpec
PROPERTIES DegradedIsOutage
CHECK_DEADLOCK FALSE
