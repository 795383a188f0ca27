\* A client that waits for each call to take effect before the next one.
CONSTANTS
  sp1 = sp1  l1 = l1  l2 = l2  s1 = s1  s2 = s2
  Spines = {sp1}
  Leaves = {l1, l2}
  Servers = {s1, s2, s3}
  VCIds = {v1, v2}
  None = None
  Starts <- McStarts
  MaxCalls = 8
  Paced = TRUE
  OnlyVCServersFail = TRUE
SPECIFICATION PropSpec
INVARIANTS
  MembershipAgrees
  VCsAgree
CHECK_DEADLOCK FALSE
