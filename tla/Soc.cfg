SPECIFICATION Spec
CONSTANTS
  Full = 12
  HoldFull = 10
  HoldEmpty = 2
  Near = 3
  Limit = 1
  ConnectWait = 1
  EndLow = 3
  EndHigh = 9
  LowLim = 3
  HighLim = 2
  RefLim = 4
  ShowLim = 6
  Steps <- MCSteps
  SavedSocs <- MCSaved
  SetSocs <- MCSet
  OcvSocs <- MCOcv
  Samples <- MCSamples
INVARIANTS TypeOK LatchesApart
PROPERTIES LatchHolds GapNeverGrows EndReached
