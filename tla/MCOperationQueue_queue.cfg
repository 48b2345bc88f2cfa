\* Calls contend on one server, not on the other.
SPECIFICATION QueueFairSpec
CONSTANTS
  Job = {j1, j2, j3}
  Server = {s1, s2}
  Contended = {s2}
INVARIANTS StatusMatchesRun OrphansAreDead
PROPERTIES LockSpec JobsSettle
CHECK_DEADLOCK FALSE
