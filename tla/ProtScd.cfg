SPECIFICATION FairSpec
CONSTANTS
  TripDelay <- MCTrip
  ClearDelay <- MCClear
  WaitPeriod = 1
  ScdCooldown = 2
  ScdPdsgCheck = 2
  ScdDsgVerify = 2
  ScdMaxRetries = 2
  PrechargeTicks = 1
  PrechargeTimeout = 2
  CounterMod = 3
  Samples <- ScdSamples
  SettledSamples <- CalmOnly
  Failures <- ScdFailures
  GateFailures <- ScdGates
  Lates <- NoFailures
  Trips <- ScdTrips
  Commands <- ScdCommands
  BootAnswers = {TRUE}
INVARIANTS TypeOK ScdLockout FaultReported
PROPERTIES RecoveryRefined  OffWhileFaulted ProbeEnds DischargeReturns
