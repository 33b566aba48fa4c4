SPECIFICATION Spec
CONSTANTS
  Monitors <- TwoMonitors
  Configs <- Ordered
  MaxChecks = 1
  MaxOps = 3
PROPERTIES IdleNeverLights
CHECK_DEADLOCK FALSE
