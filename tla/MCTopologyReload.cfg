\* A server may have exactly one worker, and a controller fetches the topology.
CONSTANTS
  sp1 = sp1
  l1 = l1  l2 = l2  l3 = l3
  s1 = s1  s2 = s2  s3 = s3
  e1 = e1  e2 = e2  e3 = e3
  None = None
  Spines <- OneSpine
  Leaves = {l1, l2, l3}
  Servers = {s1, s2, s3}
  Endpoints = {e1, e2, e3}
  Counts = {1, 2}
  WordSize = 16
  MaxWorkers = 8
  MaxLeaves = 3
  Confs <- OneServerConfs
SPECIFICATION Spec
INVARIANT ReloadKeepsWorkers
