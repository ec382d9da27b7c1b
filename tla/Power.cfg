SPECIFICATION Spec
CONSTANTS
  Period = 2
  ShallowWait = 2
  DeepWait = 3
  Wires <- MCWires
  Lines <- MCLines
INVARIANTS TypeOK SleepsAboveUv DeepSleepLasts
PROPERTIES MasterHeard OutputReturns
