SPECIFICATION ParamSpec
CONSTANTS
  Data = {0, 1}
  Usual = 0
  Torn = Torn
  LevelPages = 2
  SpecPages = 2
  RunPages = 1
  Pages <- PagesOf
  Scaled <- ScaledOf
  MaxFaults = 1
  MaxSaves = 2
INVARIANTS ParamTypeOK LevelsFitType
PROPERTY StoresImplement
