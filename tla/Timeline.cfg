SPECIFICATION TimelineSpec
CONSTANTS
  m1 = m1
  e1 = e1
  w1 = w1
  w2 = w2
  s1 = s1
  s2 = s2
  e2 = e2
  r1 = r1
  Absent = Absent
  Messages = {m1}
  Edits = {e1, e2}
  Writers = {w1, w2}
  Sweepers = {s1, s2}
  Archiving = TRUE
  None = None
  Readers = {r1}
  MaxWire = 2
INVARIANTS
  NumbersAreGapless
  WipedIsRecorded
  SettledIsComplete
SYMMETRY Symmetry
