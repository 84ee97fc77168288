CONSTANTS
  TextOrder <- MCText
  Within <- MCWithin
  NoMetrics = NoMetrics
  NoFilter = NoFilter
  NoWord = NoWord
  MaxFleetScans = 2
  Waiter = {"w1", "w2"}
  FetchBatch = 2
  MaxLoads = 2
  Config <- MCConfig
SPECIFICATION Spec
INVARIANTS
  FleetAgrees
  PanelIsSound
PROPERTIES
  WaitEnds
CHECK_DEADLOCK FALSE
