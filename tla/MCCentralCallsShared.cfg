\* FailServer and RemoveVC at once, for VCs that share a server.
CONSTANTS
  l1 = l1  l2 = l2  s1 = s1  s2 = s2  s3 = s3  v1 = v1  v2 = v2 v3 = v3
  Leaves = {l1, l2}
  Servers = {s1, s2, s3}
  VCIds = {v1, v2, v3}
  None = None
  Callers = {c1, c2}
  Workers = 2
  Starts <- McThreeVCs
  Overlaps = {"sharedVC"}
  MaxCalls = 2
SPECIFICATION Spec
INVARIANTS
  FailedServersAreInNoVC
CHECK_DEADLOCK FALSE
