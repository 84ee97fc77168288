CONSTANTS
  s1 = s1
  s2 = s2
  f1 = f1
  f2 = f2
  f3 = f3
  Scan = {s1, s2}
  Finding = {f1, f2, f3}
  ScanOf <- MCScanOf
  Worker = {w1}
  Doc = {d1, d2}
  NoScan = NoScan
  NoFinding = NoFinding
  NoDoc = NoDoc
  MaxPerScan = 2
  FinalizedCap = 2
  Faults = {}
SPECIFICATION SinkCrashSpec
PROPERTY
  ReportNeverOverwritten
CHECK_DEADLOCK FALSE
