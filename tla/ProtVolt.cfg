SPECIFICATION FairSpec
CONSTANTS
  TripDelay <- MCTrip
  ClearDelay <- VoltClear
  WaitPeriod = 1
  ScdCooldown = 2
  ScdPdsgCheck = 2
  ScdDsgVerify = 2
  ScdMaxRetries = 2
  PrechargeTicks = 1
  PrechargeTimeout = 2
  CounterMod = 3
  Samples <- VoltSamples
  SettledSamples <- VoltSamples
  Failures <- VoltFailures
  GateFailures <- NoFailures
  Lates <- VoltLates
  Trips <- VoltTrips
  Commands <- NoCommands
  BootAnswers = {TRUE}
INVARIANTS OvInhibits
PROPERTIES ReleasedInChip
