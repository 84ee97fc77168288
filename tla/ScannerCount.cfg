CONSTANTS
  c1 = c1
  c2 = c2
  s1 = s1
  Msg = {c1, c2}
  Worker = {w1, w2}
  Caller = {w1, w2}
  BatchSize = 1
  MaxDeliver = 2
  MaxAckPending = 2
  Scan = {s1}
  NotRead = NotRead
  ScanOf <- MCScanOf
  Found <- MCFound
  Last = {}
  Poison = {}
  MaxRestarts = 0
SPECIFICATION ScannerSpec
INVARIANT
  CountIsCorrect
CHECK_DEADLOCK FALSE
