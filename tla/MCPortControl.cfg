\* One leaf with one server to start with; another of each may come.
CONSTANTS
  sp1 = sp1  l1 = l1  l2 = l2  s1 = s1  s2 = s2
  Spines = {sp1}
  Leaves = {l1, l2}
  Servers = {s1, s2}
  VCIds = {v1}
  None = None
  Conf <- McConf
  LeafPorts <- McLeafPorts
  ServerPort <- McServerPort
  DevPort <- McDevPort
  TreeStart <- McStart
  Fetchers = {f1}
  MaxPortCalls = 4
SPECIFICATION PortSpec
INVARIANTS
  PortsTypeOK
  PortsFollowTree
PROPERTIES
  FetchedPortsAreReal
CHECK_DEADLOCK FALSE
