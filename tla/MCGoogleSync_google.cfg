SPECIFICATION Spec
CONSTANTS
  g1 = g1
  g2 = g2
  v1 = v1
  Email = {e1, e2}
  GoogleGroup = {g1, g2}
  VpnGroup = {v1}
  Mapping <- SomeMappings
  Sync = {s1, s2}
  MaxMoves = 2
  MaxSyncs = 2
SYMMETRY Symmetry
INVARIANTS TypeOK MembersAreIn LeaversAreFlagged
PROPERTIES MembersAreNotFlagged
CHECK_DEADLOCK FALSE
