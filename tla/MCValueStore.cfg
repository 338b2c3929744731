SPECIFICATION Spec
CONSTANTS
  k1 = k1
  k2 = k2
  k3 = k3
  d1 = d1
  d2 = d2
  Key = {k1, k2, k3}
  Data = {d1, d2}
  MaxHash = 1
  hash_ssn <- HashOf
  Freed = Freed
  Absent = Absent
  TransferMax = 2
  MaxLength = 3
INVARIANTS TypeOK CountersAgree LookupIsRight TransferIsComplete CrashesOnlyOverwritten
SYMMETRY Symmetry
CHECK_DEADLOCK FALSE
