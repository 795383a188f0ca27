\* A change of the servers, the health manager's too, waits for the goroutines
\* of the ones before.
CONSTANTS
  s1 = s1  s2 = s2  s3 = s3
  Servers = {s1, s2, s3}
  None = None
  Workers <- McWorkers
  LeafID = 1
  Indexes = {1}
  Slots = 16
  Starts <- McStarts
  MaxCalls = 3
  Paced = TRUE
SPECIFICATION Spec
INVARIANTS
  TypeOK
  WorkersAreReached
  MovedServersAreTold
CHECK_DEADLOCK FALSE
