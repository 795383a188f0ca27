\* Two spines, two leaves, three servers, two virtual clusters.
CONSTANTS
  Spines = {sp1, sp2}
  Leaves = {l1, l2}
  Servers = {s1, s2, s3}
  VCIds = {v1, v2}
  None = None
SYMMETRY Symmetry
SPECIFICATION Spec
INVARIANTS
  TypeOK
  ServerListsMatchVCs
  LeafListsMatchVCs
  VCServersExist
PROPERTIES
  MembershipFollowsTree
  SpinesOfVCAreTold
