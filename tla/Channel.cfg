SPECIFICATION UartSpec
CONSTANTS
  ReqLen = 3
  FrameLen <- MCLen
  RxMax = 5
  Need = 2
  PumpMax = 1
  SaveMax = 2
  ResetDelay = 2
  LogInterval = 7
  MaxLog = 8
  Hush = 2
  Nap = 47
  Patience = 37
  MaxNoise = 2
INVARIANTS UartTypeOK OneTalks RepliesSpared
PROPERTIES WholeFrames Answered
