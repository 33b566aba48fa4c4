SPECIFICATION SuiteSpec
CONSTANTS
  Files <- TwoFiles
  MaxRevs = 3
  MaxOps = 3
  ServerFiles <- TwoDocs
  Restarts = 1
  ServerEdits = 2
  ServerOps = 4
INVARIANTS NoSilentDrift ServerKnowsTheText
PROPERTIES RejectRestores ReachesEditor EditsArrive
CHECK_DEADLOCK FALSE
