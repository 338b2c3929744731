CONSTANTS
  n1 = n1  n2 = n2  n3 = n3  n4 = n4
  k1 = k1  k2 = k2
  None = None
  Node = {n1, n2, n3, n4}
  Key = {k1}
  hash_ssn <- HashOf
  Requests <- InsertAll
  Leavers = {}
  Impatient = {}
  Reconfig = "free"
  MaxConn = 8
  MaxDepth = 10
  MaxHash = 7
SPECIFICATION Spec
SYMMETRY Symmetry
CHECK_DEADLOCK FALSE
INVARIANTS EntriesInRange SocketsPolled SettledRing
PROPERTIES RingImplementsHashRing
