SPECIFICATION Spec
CONSTANTS
  Files <- OneFile
  MaxRevs = 2
  MaxOps = 2
PROPERTIES UnsavedEditsSurvive
CHECK_DEADLOCK FALSE
