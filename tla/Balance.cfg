SPECIFICATION BalSpec
CONSTANTS
  Cells <- MCCells
  Switches <- MCCells
  Volts <- MCVolts
  Gaps <- MCGaps
  Preset = 1
  CmdGap = 1
INVARIANT BalTypeOK
PROPERTIES MaskConfirmed BalanceFollows
