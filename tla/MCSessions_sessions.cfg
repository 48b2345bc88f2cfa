SPECIFICATION Spec
CONSTANTS
  Account = {a1}
  Session = {s1, s2}
  Browser = {b1}
  Handler = {h1, h2}
  MaxId = 2
  MaxPassword = 2
  AutoApprove = TRUE
  Workloads = {
    {"directory", "refresh", "signout", "verify", "enrol", "disable", "reset", "onboarding"},
    {"directory", "verify", "enrol", "delete", "onboarding"},
    {"directory", "roleSync", "adminCall", "delete"},
    {"directory", "call", "adminCall", "setRole", "expiry", "delete"},
    {"directory", "call", "setApproved", "fault"},
    {"credentials", "password", "create", "fault"},
    {"credentials", "setPassword", "create", "delete"},
    {"credentials", "password", "create", "delete"}}
  NoSession = NoSession
  NoAccount = NoAccount
  NoBrowser = NoBrowser
SYMMETRY Symmetry
INVARIANTS TypeOK SecondFactor OldPasswordOut
PROPERTIES NoStaleRights
CHECK_DEADLOCK FALSE
