\* Calls and failures at any time.
CONSTANTS
  s1 = s1  s2 = s2  s3 = s3
  Servers = {s1, s2}
  None = None
  Workers <- McWorkers
  LeafID = 1
  Indexes = {0, 1}
  Slots = 16
  Starts <- McTwo
  MaxCalls = 3
  Paced = FALSE
SPECIFICATION Spec
PROPERTY CrashedServersLeave
CHECK_DEADLOCK FALSE
