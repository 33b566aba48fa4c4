SPECIFICATION Spec
CONSTANTS
  Files <- OneFile
  MaxRevs = 2
  MaxOps = 2
INVARIANTS OnlyOthersAreReviewed
CHECK_DEADLOCK FALSE
