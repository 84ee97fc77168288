CONSTANTS
  s1 = s1
  s2 = s2
  f1 = f1
  f2 = f2
  f3 = f3
  Scan = {s1, s2}
  Finding = {f1, f2, f3}
  ScanOf <- MCScanOf
  Worker = {w1, w2}
  Doc = {d1, d2, d3}
  NoScan = NoScan
  NoFinding = NoFinding
  NoDoc = NoDoc
  MaxPerScan = 1
  FinalizedCap = 1
  Faults = {"open", "row", "publish"}
SPECIFICATION SinkFairSpec
INVARIANTS
  SinkTypeOK
  AckedAccounted
  OneDocumentPerScan
PROPERTIES
  ReportKept
  OpenedIsFinished
CHECK_DEADLOCK FALSE
