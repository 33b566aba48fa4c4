SPECIFICATION SuiteSpec
CONSTANTS
  Widgets <- TwoWidgets
  Hidden <- TwoHeights
  MaxOps = 6
  Panels <- PanelLayouts
  KnownWidgets <- ThreeKinds
  Foreign = {3}
  Calls = 4
  NiriWindows <- TwoWindows
  Titles <- TwoTitles
  Spaces <- WorkspaceLists
  Keyboards <- LayoutLists
  Named <- SameName
  Icons = 1
  NiriEvents = 3
  ByHand <- WrittenByHand
  ShippedFile <- ShippedOne
  Addable <- SomeAddable
  Rows = 2
  ConfActs = 3
  ConfStarts = 1
INVARIANTS StaysWhileUsed WillHide NotificationsFollow InSync ConfigurationsAgree
PROPERTIES AwayHides ToastsLeave FollowsAgain
CHECK_DEADLOCK FALSE
