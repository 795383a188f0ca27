\* v2: a leaf fails and loads change meanwhile.
CONSTANTS
  l1 = l1  l2 = l2  s1 = s1  s2 = s2
  Leaves = {l1, l2, l3}
  Servers = {s1, s2}
  None = None
  Starts <- McStarts
  Versions = {"v2"}
  MaxCalls = 7
  Paced = TRUE
SPECIFICATION Spec
INVARIANT TrackedLeavesAreAlive
CHECK_DEADLOCK FALSE
