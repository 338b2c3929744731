CONSTANTS
  n1 = n1  n2 = n2  n3 = n3  n4 = n4
  k1 = k1  k2 = k2
  None = None
  Node = {n1, n2, n3}
  Key = {k1}
  hash_ssn <- HashOf
  Requests <- InsertAll
  Leavers = {n1}
  Impatient = {n1}
  Reconfig = "free"
  MaxConn = 4
  MaxDepth = 3
  MaxHash = 3
SPECIFICATION Spec
SYMMETRY OthersSymmetry
CHECK_DEADLOCK FALSE
INVARIANTS TypeOK AtMostOneCopy JoinResponseFirst
