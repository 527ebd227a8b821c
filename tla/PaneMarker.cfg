CONSTANTS
  Channels = {c1, c2}
  Own = {1}
  Queries = {q1, q2}
  MaxPosts = 2
  MaxActs = 3
  MaxDrops = 1
SPECIFICATION PaneSpec
PROPERTIES MarkerOnlyAdvances
CHECK_DEADLOCK FALSE
