SPECIFICATION SuiteSpec
CONSTANTS
  Monitors <- TwoMonitors
  Configs <- AllConfigs
  MaxChecks = 2
  MaxOps = 4
  HingeConfigs <- TabletConfigs
  HingeEvents = 3
  Orientations = {"normal", "90"}
  HasHinge = TRUE
  HasAccel = TRUE
  HasTouchscreen = TRUE
  Keys <- SomeKeys
  Keymaps <- SomeKeymaps
  Dead <- DeadKeys
  Codes <- SomeCodes
  Layouts <- OskLayouts
  KeyEvents = 4
  Slots = {1, 2, 3, 4}
  Width = 64
  Height = 64
  Spots <- SomeSpots
  Stride = 16
  Bezel = 2
  Turns = {90}
  TouchConfigs <- SomeTouchConfigs
  TouchReports = 6
  Accounts <- SomeAccounts
  Installed <- SomeSessions
  Command = ""
  Greeters = 1
  Nobody = 2
  Rounds = 2
  Outputs = {"m1", "m2"}
  LoginEvents = 5
INVARIANTS LockIsComplete BusyHasACheck KeptAwake KeyboardFollows InputsFollow GesturesAreRight AttemptsAreClean
PROPERTIES VerifyingEnds InputsReturn AttemptEnds
CHECK_DEADLOCK FALSE
