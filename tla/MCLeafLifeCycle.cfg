\* Two leaves run; a third may come.
CONSTANTS
  l1 = l1  l2 = l2  l3 = l3
  Leaves = {l1, l2, l3}
  Nobody = Nobody
  Configured <- TwoLeaves
  MaxCalls = 3
  MaxScans = 1
SPECIFICATION Spec
INVARIANTS
  TypeOK
  ControllersMatchTree
  IndexesAgree
  HealthChannelIsOpen
PROPERTIES
  FailedLeavesStop
CHECK_DEADLOCK FALSE
