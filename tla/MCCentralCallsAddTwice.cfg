\* Two calls add one leaf or one server.
CONSTANTS
  l1 = l1  l2 = l2  s1 = s1  s2 = s2  s3 = s3  v1 = v1  v2 = v2 v3 = v3
  Leaves = {l1, l2, l3}
  Servers = {s1, s2, s3, s4}
  VCIds = {v1, v2}
  None = None
  Callers = {c1, c2}
  Workers = 2
  Starts <- McNoVCs
  Overlaps = {"addTwice"}
  MaxCalls = 2
SPECIFICATION Spec
INVARIANT NodesAreListedOnce
CHECK_DEADLOCK FALSE
