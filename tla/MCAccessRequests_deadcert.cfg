\* A retry after a failure that came too late, one review at a time.
SPECIFICATION Spec
CONSTANTS
  Request = {1}
  Email = {e1}
  Server = {s1}
  Handler = {h1, h2}
  MaxActive = 3
  Operations = {"review", "post"}
  Faults = {"database"}
  ReviewersRace = FALSE
PROPERTIES ApprovedWithLiveCert
CHECK_DEADLOCK FALSE
