SPECIFICATION FairSpec
CONSTANTS
  l1 = l1
  Lines <- OneLine
  NFrames = 2
  Sourced <- OuterSourced
  Kinds <- BothKinds
  MayFail <- StartMayFail
  SaysContinued = TRUE
  MaxSessions = 2
  MaxStops = 2
  MaxOps = 1
INVARIANTS EndedShowsNothing PanelAgrees
PROPERTIES ClientKeptDuringSession StartSettles
CHECK_DEADLOCK FALSE
