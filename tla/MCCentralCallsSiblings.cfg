\* The last two servers of a leaf in a VC fail at once.
CONSTANTS
  l1 = l1  l2 = l2  s1 = s1  s2 = s2  s3 = s3  v1 = v1  v2 = v2 v3 = v3
  Leaves = {l1, l2, l3}
  Servers = {s1, s2, s3, s4}
  VCIds = {v1, v2}
  None = None
  Callers = {c1, c2}
  Workers = 2
  Starts <- McStarts
  Overlaps = {"siblings"}
  MaxCalls = 2
SPECIFICATION Spec
INVARIANT LeavesOfVCsHaveServers
CHECK_DEADLOCK FALSE
