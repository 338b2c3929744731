CONSTANTS
  n1 = n1  n2 = n2  n3 = n3  n4 = n4
  k1 = k1  k2 = k2
  None = None
  Node = {n1, n2, n3, n4}
  Key = {k1}
  hash_ssn <- HashOf
  Requests = {}
  Leavers = {}
  Impatient = {}
  Reconfig = "one_join"
  MaxConn = 6
  MaxDepth = 8
  MaxHash = 3
SPECIFICATION FairSpec
CHECK_DEADLOCK FALSE
PROPERTIES JoinCompletes
