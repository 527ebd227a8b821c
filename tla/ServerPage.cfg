CONSTANTS
  s1 = s1
  s2 = s2
  c1 = c1
  c2 = c2
  d1 = d1
  f1 = f1
  Servers <- MCServers
  Channels <- MCChannels
  Folders = {f1}
  HostOf <- MCHostOf
  Made <- MCMade
  MaxActs = 4
  MaxPosts = 1
SPECIFICATION PageSpec
INVARIANTS SettledTreeIsServers UnreadIsOwed
CHECK_DEADLOCK FALSE
