\* Two requests for one account whose reviews do not overlap; everything else does.
SPECIFICATION Spec
CONSTANTS
  Request = {1, 2}
  Email = {e1}
  Server = {s1}
  Handler = {h1, h2}
  MaxActive = 1
  Operations = {"review", "cancel", "post", "lifecycle"}
  Faults = {"crash", "database", "transport"}
  ReviewersRace = FALSE
SYMMETRY Symmetry
INVARIANTS ProcessingOwned
PROPERTIES LifecycleSpec
CHECK_DEADLOCK FALSE
