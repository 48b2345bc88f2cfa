SPECIFICATION Spec
CONSTANTS
  Handler = {h1, h2}
  Modes = {"calm", "bulk", "faulty"}
  MaxRow = 2
  MaxCert = 3
SYMMETRY Symmetry
INVARIANTS RecordIsTrue RevokedIsOut DeletedIsRevoked
CHECK_DEADLOCK FALSE
