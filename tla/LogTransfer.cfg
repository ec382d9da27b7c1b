SPECIFICATION Spec
CONSTANTS
  PerSector = 2
  Sectors = 3
  IdxRange = 8
  MaxRecords = 10
  Counts <- MCCounts
INVARIANTS CountTracksPointer TearConfined NewestKept OldestFirst FullStaysReadable FirstLapInOrder
PROPERTY TransferEnds
