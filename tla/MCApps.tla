------------------------------- MODULE MCApps -------------------------------
(*****************************************************************************)
(* Instances for TLC of the applications: the media player, the file         *)
(* manager and the keyboard of the editor. They are programs of their own,   *)
(* so a behaviour is one of a single part: the states of the parts add up    *)
(* and do not multiply.                                                      *)
(*****************************************************************************)
EXTENDS IdeInput, Applications

VARIABLE part       \* the part of this behaviour

Movie(name, media, hidden, broken, long, subs, chapters) ==
    [name |-> name, media |-> media, hidden |-> hidden, broken |-> broken, long |-> long,
     subs |-> subs, chapters |-> chapters]
SomeMovies == <<Movie(3, TRUE, FALSE, FALSE, 5, 1, 2), Movie(1, TRUE, FALSE, FALSE, 5, 1, 0),
            Movie(4, TRUE, TRUE, FALSE, 9, 0, 0), Movie(2, FALSE, FALSE, TRUE, 0, 0, 0)>>
SomeDrops == {<<1>>, <<4>>, <<2, 3>>}

\* A file of the folder's own, and one in the trash that has the name of another.
InFolder(dir, name, data) ==
    [dir |-> dir, name |-> name, data |-> data, from |-> [dir |-> "", name |-> 0]]
StoredFiles ==
    {InFolder("home", 1, 5), InFolder("home", 2, 7), InFolder("docs", 1, 6),
     [dir |-> "trash", name |-> 2, data |-> 8, from |-> [dir |-> "home", name |-> 2]]}

\* A key of each group that a mode tells apart.
PressedKeys ==
    {"esc", "enter", "Space", "tab", "backspace", "ctrl+w", "ctrl+space", "down", "i", "v", "m",
     "g", "h", "j", "k", "K", "a", "d", "q", "o", "e", "w", "s", "r", "f", "b", "c", "/", "?", "1",
     "odiaeresis"}
PaletteCommands ==
    {"PICKER_OPEN_BUFFERS", "SEARCH_OPEN", "REPLACE_OPEN", "TOGGLE_DRAWER", "TOGGLE_FILE_TREE",
     "TREE_CREATE_FILE", "LSP_HOVER", "LSP_RENAME", "DAP_TOGGLE_VIEW", "HELP_TOGGLE",
     "PANE_CYCLE"}

\* The code reads a key against one row after the other: no key has two.
ASSUME OneRowPerKey ==
    \A table \in {GChords, NormalKeys, InsertKeys, SelectKeys, Chords, ReplaceKeys, DrawerKeys,
                  TreeKeys, PickerKeys, HelpKeys, ReviewKeys, HoverKeys, CompletionKeys,
                  CodeActionKeys, RenameKeys, SearchKeys} :
        \A r, q \in table : r.key = q.key => r = q

suite_vars == <<part, vars, PlayerVars, FilesVars>>

PlayerRests ==
    /\ Player!Init
FilesRests ==
    /\ Files!Init
EditorRests == Init

\* One part moves in a behaviour; the others rest where they begin.
SuiteInit ==
    \/ part = "editor" /\ Init /\ PlayerRests /\ FilesRests
    \/ part = "player" /\ Player!Init /\ EditorRests /\ FilesRests
    \/ part = "files" /\ Files!Init /\ EditorRests /\ PlayerRests

EditorOnly == part = "editor" /\ UNCHANGED <<part, PlayerVars, FilesVars>>
EditorStep == EditorOnly /\ Next
PlayerOnly == part = "player" /\ UNCHANGED <<part, vars, FilesVars>>
PlayerStep == PlayerOnly /\ Player!Next
FilesOnly == part = "files" /\ UNCHANGED <<part, vars, PlayerVars>>
FilesStep == FilesOnly /\ Files!Next

SuiteNext ==
    \/ EditorStep \/ PlayerStep \/ FilesStep

SuiteSpec == SuiteInit /\ [][SuiteNext]_suite_vars

=============================================================================
