SPECIFICATION Spec
CONSTANTS
  ann = ann
  ben = ben
  i1 = i1
  g1 = g1
  c1 = c1
  c2 = c2
  t1 = t1
  t2 = t2
  People = {ann, ben}
  Adopted = {ben}
  ServerInvites = {i1}
  RoomInvites = {g1}
  MultiUse = {i1}
  MaxUses = 1
  MaxWithdrawn = 1
  ClaimTokens = {c1, c2}
  FirstOwner = Nobody
  Flags = {"banned"}
  Tasks = {t1, t2}
  Nobody = Nobody
INVARIANTS
  UsesAddUp
PROPERTIES
  RoomInviteKeepsRow
  ClaimFindsNoOwner
SYMMETRY Symmetry
CHECK_DEADLOCK FALSE
