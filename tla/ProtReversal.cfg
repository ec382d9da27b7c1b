SPECIFICATION FairSpec
CONSTANTS
  TripDelay <- SoftTrip
  ClearDelay <- SoftClear
  WaitPeriod = 1
  ScdCooldown = 2
  ScdPdsgCheck = 2
  ScdDsgVerify = 2
  ScdMaxRetries = 2
  PrechargeTicks = 1
  PrechargeTimeout = 2
  CounterMod = 3
  Samples <- SoftSamples
  SettledSamples <- SoftSamples
  Failures <- NoFailures
  GateFailures <- NoFailures
  Lates <- NoFailures
  Trips <- SoftTrips
  Commands <- NoCommands
  BootAnswers = {TRUE}
PROPERTY ReversalReleases
