CONSTANTS
  Channels = {c1, c2}
  Own = {1}
  Queries = {q1, q2}
  MaxPosts = 2
  MaxActs = 3
  MaxDrops = 1
SPECIFICATION FairPaneSpec
INVARIANTS PushesStayInChannel ResultsAreCurrent SheetIsTrue
PROPERTIES ShownIsMarked
CHECK_DEADLOCK FALSE
