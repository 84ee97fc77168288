CONSTANTS
  c1 = c1
  c2 = c2
  s1 = s1
  Msg = {c1, c2}
  Worker = {w1, w2}
  Caller = {w1, w2}
  BatchSize = 1
  MaxDeliver = 2
  MaxAckPending = 2
  Scan = {s1}
  NotRead = NotRead
  ScanOf <- MCScanOf
  Found <- MCFound
  Last = {c2}
  Poison = {}
  MaxRestarts = 1
SPECIFICATION ScannerFairSpec
INVARIANTS
  ScannerTypeOK
  AckedIsPublished
  AckedIsCounted
  RecordedWasSaid
PROPERTIES
  ChunkIsSettled
  CountIsReported
CHECK_DEADLOCK FALSE
