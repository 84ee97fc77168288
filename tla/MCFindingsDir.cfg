CONSTANTS
  w1 = w1
  w2 = w2
  Finding = {f1, f2}
  Worker = {w1, w2}
  Config <- MCConfig
  NoFinding = NoFinding
  NoFile = NoFile
  Torn = Torn
  MaxPerScan = 3
  MaxTries = 2
  FlushBatch = 2
  Nobody = Nobody
  OtherFile = {o1}
  MaxBytes = 2
  MaxSweeps = 1
SPECIFICATION FairSpec
INVARIANTS
  AckedOnDisk
  PublishedIsWhole
  TempfileInUseIsKept
  OrphansAreSwept
  AckedInPdf
  ReportIsCurrent
  DatabaseIsExact
  RebuildIsComplete
  SweepTellsTheTruth
PROPERTIES
  PendingIsFlushed
CHECK_DEADLOCK FALSE
