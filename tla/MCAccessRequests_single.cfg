\* One request, every handler, every fault; the reviews of its account do not overlap.
SPECIFICATION FairSpec
CONSTANTS
  Request = {1}
  Email = {e1}
  Server = {s1}
  Handler = {h1, h2}
  MaxActive = 1
  Operations = {"review", "cancel", "post", "lifecycle", "admin"}
  Faults = {"crash", "database", "transport"}
  ReviewersRace = FALSE
INVARIANTS LiveCertAccounted
PROPERTIES ClaimedSettles
CHECK_DEADLOCK FALSE
