\* Codes of one account, or wrong answers for its email, address and second factor.
SPECIFICATION GuardsSpec
CONSTANTS
  Secret = {s1, s2}
  Handler = {h1, h2}
  MaxStep = 3
  NoSecret = NoSecret
  email = email
  ip = ip
  mfa = mfa
  Key = {email, ip, mfa}
  Limit <- Limits
  Window <- Windows
  Lockout = 2
  Workloads <- Loads
  Forgivable = {email}
  MaxTime = 5
  MaxOver = 1
SYMMETRY Symmetry
INVARIANTS OneUse GoodCodeWorks ActiveSecretProven GuessBound LocksEnd
PROPERTIES LocksAreKept
CHECK_DEADLOCK FALSE
