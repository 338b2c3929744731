CONSTANTS
  n1 = n1  n2 = n2  n3 = n3
  k1 = k1  k2 = k2
  None = None
  Node = {n1, n2, n3}
  Key = {k1, k2}
  hash_ssn <- HashOf
  Requests <- InsertAll
  MaxConn = 5
  MaxHash = 3
SPECIFICATION FairSpec
CHECK_DEADLOCK FALSE
INVARIANTS TypeOK OneCopy
PROPERTIES SampleFollowsHashRing LostOnlyUnhandled FirstPanic JoinCompletes LeaveCompletes
