CONSTANTS
  a = a
  b = b
  Servers = {a, b}
  Unclaimed = {b}
  Tokens <- MCTokens
  MaxRuns = 2
  MaxStarts = 3
  MaxAttempts = 2
SPECIFICATION Spec
INVARIANTS ListedIsJoined PublishedServes VersionIsStored
CHECK_DEADLOCK FALSE
