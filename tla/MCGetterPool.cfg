CONSTANTS
  r1 = r1
  r2 = r2
  s1 = s1
  Msg = {r1, r2}
  Scan = {s1}
  ScanOf <- MCScanOf
  Blob = {b1, b2}
  Worker = {g1, g2}
  BatchSize = 1
  MaxDeliver = 2
  MaxAckPending = 2
  Valid = {r1}
  Faults = {"clone", "walk", "publish", "status", "cat-file"}
  CatFiles = 1
  MaxRestarts = 1
SYMMETRY Interchangeable
SPECIFICATION GetterSpec
INVARIANTS
  GetterTypeOK
  CleanScanIsWhole
  AckedIsReported
  EndIsReported
CHECK_DEADLOCK FALSE
