\* A change of the topology waits for the goroutines of the ones before.
CONSTANTS
  l1 = l1  l2 = l2  s1 = s1  s2 = s2
  Leaves = {l1, l2, l3}
  Servers = {s1, s2}
  None = None
  Starts <- McStarts
  Versions = {"v1", "v2"}
  MaxCalls = 7
  Paced = TRUE
SPECIFICATION Spec
INVARIANTS
  TypeOK
  TablesMatchTree
  PendingMatchesTables
  SomeTrackedLeafIsAlive
CHECK_DEADLOCK FALSE
