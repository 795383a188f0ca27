\* A client that makes one call after the other: messages overtake each other.
CONSTANTS
  sp1 = sp1  l1 = l1  l2 = l2  s1 = s1  s2 = s2
  Spines = {sp1}
  Leaves = {l1, l2}
  Servers = {s1, s2}
  VCIds = {v1}
  None = None
  Starts <- McStarts
  MaxCalls = 5
  Paced = FALSE
  OnlyVCServersFail = FALSE
SPECIFICATION PropSpec
INVARIANTS
  SpineBooksConsistent
  LeafVCsOfServers
PROPERTY Settles
CHECK_DEADLOCK FALSE
