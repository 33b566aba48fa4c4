CONSTANTS
    Keys <- PressedKeys
    Commands <- PaletteCommands
    Movies <- SomeMovies
    Dropped <- SomeDrops
    Presses = 3
    Folders = {"home", "docs", "trash", "locked"}
    Unreadable = {"locked"}
    Unwatched = {"docs"}
    Stored <- StoredFiles
    Media = {7}
    Dots = {2}
    FileActs = 3
    FileWrites = 1
SPECIFICATION SuiteSpec
INVARIANTS ActsOnWhatItNamed
CHECK_DEADLOCK FALSE
