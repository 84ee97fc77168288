CONSTANTS
  r1 = r1
  r2 = r2
  s1 = s1
  Msg = {r1, r2}
  Scan = {s1}
  ScanOf <- MCScanOf
  Blob = {b1}
  Worker = {g1, g2}
  BatchSize = 1
  MaxDeliver = 2
  MaxAckPending = 2
  Valid = {r1, r2}
  Faults = {}
  CatFiles = 1
  MaxRestarts = 0
SYMMETRY Interchangeable
SPECIFICATION GetterSpec
INVARIANT
  OneGetterPerRequest
CHECK_DEADLOCK FALSE
