CONSTANTS
  n1 = n1  n2 = n2  n3 = n3  n4 = n4
  k1 = k1  k2 = k2
  None = None
  Node = {n1, n2, n3}
  Key = {k1}
  hash_ssn <- HashOf
  Requests = {}
  Leavers = {n1}
  Impatient = {}
  Reconfig = "settled"
  MaxConn = 4
  MaxDepth = 6
  MaxHash = 3
SPECIFICATION FairSpec
CHECK_DEADLOCK FALSE
PROPERTIES JoinCompletes
