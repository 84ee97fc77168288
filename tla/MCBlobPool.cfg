CONSTANTS
  Blob = {b1, b2, b3, b4}
  Worker = {w1, w2}
  NoBlob = NoBlob
  Cap = 1
  Faults = {"walk", "spawn", "cat-file", "publish"}
SPECIFICATION PoolSpec
INVARIANTS
  PoolTypeOK
  OnlyHopelessWalkIsCancelled
  CleanWalkIsWhole
PROPERTIES
  NothingIsLeftRunning
  ImplementsRun
