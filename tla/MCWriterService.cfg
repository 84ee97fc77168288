CONSTANTS
  s1 = s1
  f1 = f1
  f2 = f2
  Scan = {s1}
  Finding = {f1, f2}
  ScanOf <- MCScanOf
  Formats <- MCFormats
  Worker = {w1, w2}
  Doc = {d1, d2}
  NoScan = NoScan
  NoFinding = NoFinding
  NoDoc = NoDoc
  MaxPerScan = 4
  FinalizedCap = 1
  Faults = {"open", "row", "publish"}
  BatchSize = 2
  MaxDeliver = 2
  MaxAckPending = 2
  Poison = {}
  Filtered = {}
  MaxRestarts = 1
  NDJSONMayFail = TRUE
SYMMETRY Workers
SPECIFICATION WriterSpec
INVARIANTS
  WriterTypeOK
  AckedInNDJSON
  AckedReported
CHECK_DEADLOCK FALSE
