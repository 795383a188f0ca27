\* Three leaves and three servers below one spine; 0, 2 or 3 workers each.
CONSTANTS
  sp1 = sp1
  l1 = l1  l2 = l2  l3 = l3
  s1 = s1  s2 = s2  s3 = s3
  e1 = e1  e2 = e2  e3 = e3
  None = None
  Spines <- OneSpine
  Leaves = {l1, l2, l3}
  Servers = {s1, s2, s3}
  Endpoints = {e1, e2, e3}
  Counts = {0, 2, 3}
  WordSize = 16
  MaxWorkers = 8
  MaxLeaves = 3
  Confs <- TreeConfs
SPECIFICATION Spec
INVARIANTS
  TypeOK
  MapsMatchTree
  WorkerIDsContiguous
  ReloadKeepsWorkers
PROPERTIES
  MovedNodesAreReported
  SurvivorsKeepWorkers
