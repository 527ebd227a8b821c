SPECIFICATION FairSpec
CONSTANTS
  me = me
  p1 = p1
  p2 = p2
  m1 = m1
  Me = me
  None = None
  Peers = {p1, p2}
  Mail = {m1}
  Author <- FromP1
  Audience <- ToMe
  Groups = {{p1}, {p1, p2}}
  MaxSends = 1
INVARIANTS
  EarlyStateLands
  ListedOnce
PROPERTIES
  SendingEnds
CHECK_DEADLOCK FALSE
