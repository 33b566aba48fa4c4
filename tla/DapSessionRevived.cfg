SPECIFICATION FairSpec
CONSTANTS
  l1 = l1
  Lines <- OneLine
  NFrames = 1
  Sourced <- AllSourced
  Kinds <- ProcessOnly
  MayFail <- StartMayFail
  SaysContinued = TRUE
  MaxSessions = 1
  MaxStops = 1
  MaxOps = 0
PROPERTIES
  EndedStaysEnded
CHECK_DEADLOCK FALSE
