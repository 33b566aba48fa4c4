SPECIFICATION Spec
CONSTANTS
  Docs <- TwoDocs
  RestartLimit = 1
  MaxEdits = 2
  MaxOps = 4
INVARIANT ActiveIsServed
CHECK_DEADLOCK FALSE
