------------------------------ MODULE IdeInput ------------------------------
(***************************************************************************)
(* The keyboard of Kajo's editor: the modal state machine that turns keys  *)
(* into actions (src/src/ide/ide_fsm.c), the window that carries the       *)
(* actions out (ide_window.c, ide_actions.c) and the parts that take the   *)
(* keys over and give them back: file tree, drawer, picker with the        *)
(* command palette (ide_tree.c, ide_search.c, ide_picker.c) and the        *)
(* popovers of the language servers (ide_lsp.c), which open when an        *)
(* answer arrives.                                                         *)
(*                                                                         *)
(* The text, the rows of the lists and the files are left out: an action   *)
(* that depends on them has the successors of each case. Every buffer has  *)
(* a view, so there is always a buffer to act on. Remapped keys are left   *)
(* out, nothing in the program sets one.                                   *)
(***************************************************************************)
EXTENDS Naturals, Sequences

CONSTANTS
    Keys,       \* the keys that are pressed, named as the window names them
    Commands    \* the commands of the palette (kHelpCommands)

\* No command of the palette confirms the code action with a number: only a
\* digit does, while the actions are shown.
ASSUME CommandsAssumption == "LSP_SELECT_NUMBER" \notin Commands

VARIABLE ide

vars == <<ide>>

Modes == {"normal", "insert", "select", "leader", "match", "picker", "drawer", "diff_review",
          "tree", "hover", "completion", "code_action", "rename", "search", "help"}

\* prev keeps of the mode before what the code compares it with, and last of
\* the key before whether it starts a pair in the mode of now: "g" or "j".
Init ==
    ide = [mode |-> "normal", prev |-> "normal", chord |-> <<>>, obj |-> "none", last |-> "none",
           dEd |-> FALSE, tEd |-> FALSE, timer |-> FALSE,
           tree |-> TRUE, prompt |-> FALSE, drawer |-> FALSE, page |-> "other",
           picker |-> "closed", query |-> FALSE, ui |-> "closed", asked |-> "none",
           focus |-> "editor"]

-----------------------------------------------------------------------------
(* Keys.                                                                   *)

Pages(up) == IF up THEN {"pgup", "pageup"} ELSE {"pgdown", "pgdn", "pagedown"}
Ctrl == {"ctrl+b", "ctrl+u", "ctrl+f", "ctrl+d", "ctrl+x", "ctrl+c", "ctrl+v", "ctrl+z", "ctrl+y",
         "ctrl+r", "ctrl+shift+z", "ctrl+o", "ctrl+i", "ctrl+w", "ctrl+s", "ctrl+space", "ctrl+n",
         "ctrl+p", "ctrl+j", "ctrl+k", "ctrl+a", "ctrl+home", "ctrl+end", "ctrl+left",
         "ctrl+right", "alt+left", "alt+right", "alt+1", "alt+c", "alt+w", "alt+r", "alt+a",
         "alt+y"}
Named == {"esc", "enter", "tab", "shift+tab", "backspace", "delete", "Space", "left", "right", "up",
          "down", "home", "end", "f1", "f5", "f9", "f10", "f11", "f12", "shift+f5", "shift+f11",
          "shift+left", "shift+right", "shift+up", "shift+down"}
         \cup Ctrl \cup Pages(TRUE) \cup Pages(FALSE)

\* The Nordic letters are glyphs of more than one byte. A comma is "comma" here.
Nordic == {"odiaeresis", "adiaeresis"}
IsGlyph(k) == k \notin Named
IsByte(k) == IsGlyph(k) /\ k \notin Nordic

\* The rows of a table: keys that give an action, and that change the mode
\* first. No key has two rows.
Do(keys, act) == [key : keys, to : {"same"}, act : {act}]
Go(keys, to, act) == [key : keys, to : {to}, act : {act}]
Has(table, k) == \E row \in table : row.key = k
RowOf(table, k) == CHOOSE row \in table : row.key = k

\* What a handler does: the state after it and the action it returns.
Done(s, act) == [s |-> s, act |-> act]
Follow(s, table, k) ==
    IF Has(table, k)
    THEN LET row == RowOf(table, k)
         IN  Done([s EXCEPT !.mode = IF row.to = "same" THEN @ ELSE row.to], row.act)
    ELSE Done(s, "NONE")
OrType(s, table, k, act) ==
    IF ~Has(table, k) /\ IsGlyph(k) THEN Done(s, act) ELSE Follow(s, table, k)

\* The chord of Space starts from here.
Lead(s, from) == Done([s EXCEPT !.mode = "leader", !.prev = from, !.chord = <<>>], "NONE")
Match(s) == Done([s EXCEPT !.mode = "match", !.obj = "none"], "NONE")

GChords == Do({"g"}, "MOVE_BUFFER_START") \cup Do({"h"}, "MOVE_LINE_START") \cup
           Do({"l"}, "MOVE_LINE_END")

NormalModes ==
    Go({"i"}, "insert", "NONE") \cup Go({"I"}, "insert", "MOVE_LINE_START") \cup
    Go({"a"}, "insert", "MOVE_RIGHT") \cup Go({"A"}, "insert", "MOVE_LINE_END") \cup
    Go({"o", "O"}, "insert", "INSERT_NEWLINE") \cup Go({"c"}, "insert", "CHANGE_SELECTION") \cup
    Go({"w"}, "select", "SELECT_WORD") \cup Go({"b"}, "select", "SELECT_WORD_BACKWARD") \cup
    Go({"x"}, "select", "SELECT_LINE") \cup Go({"v"}, "select", "NONE") \cup
    Go({"shift+left", "shift+right", "shift+up", "shift+down"}, "select", "EXTEND_SELECTION") \cup
    Go({"/"}, "search", "SEARCH_OPEN") \cup Do({"n"}, "SEARCH_NEXT") \cup Do({"N"}, "SEARCH_PREV")

NormalMoves ==
    Do({"h", "left"}, "MOVE_LEFT") \cup Do({"l", "right"}, "MOVE_RIGHT") \cup
    Do({"j", "down"}, "MOVE_DOWN") \cup Do({"k", "up"}, "MOVE_UP") \cup
    Do(Pages(TRUE) \cup {"ctrl+b", "ctrl+u"}, "PAGE_UP") \cup
    Do(Pages(FALSE) \cup {"ctrl+f", "ctrl+d"}, "PAGE_DOWN") \cup
    Do({"home", "0"}, "MOVE_LINE_START") \cup Do({"end", "$"}, "MOVE_LINE_END") \cup
    Do({"ctrl+home"}, "MOVE_BUFFER_START") \cup Do({"ctrl+end", "G"}, "MOVE_BUFFER_END") \cup
    Do({"ctrl+right", "alt+right"}, "MOVE_WORD_FORWARD") \cup
    Do({"ctrl+left", "alt+left"}, "MOVE_WORD_BACKWARD")

NormalEdits ==
    Do({"d", "delete", "ctrl+x"}, "DELETE_CHAR") \cup Do({"backspace"}, "MOVE_LEFT") \cup
    Do({"y", "ctrl+c"}, "YANK") \cup Do({"p", "ctrl+v"}, "PASTE_AFTER") \cup
    Do({"P"}, "PASTE_BEFORE") \cup Do({"u", "ctrl+z"}, "UNDO") \cup
    Do({"U", "ctrl+y", "ctrl+r", "ctrl+shift+z"}, "REDO") \cup
    Do({">"}, "INDENT") \cup Do({"<"}, "OUTDENT")

NormalCommands ==
    Do({"H"}, "TAB_PREV") \cup Do({"L"}, "TAB_NEXT") \cup Do({"alt+1"}, "TAB_SWITCH") \cup
    Do({"odiaeresis"}, "STEP_BACKWARD") \cup Do({"adiaeresis"}, "STEP_FORWARD") \cup
    Do({"ctrl+o"}, "JUMPLIST_BACK") \cup Do({"ctrl+i"}, "JUMPLIST_FORWARD") \cup
    Do({"ctrl+w"}, "PANE_CYCLE") \cup Do({"K"}, "LSP_HOVER") \cup Do({"ctrl+s"}, "SAVE") \cup
    Do({"f5"}, "DAP_CONTINUE") \cup Do({"f9"}, "DAP_TOGGLE_BREAKPOINT") \cup
    Do({"f10"}, "DAP_STEP_OVER") \cup Do({"f11"}, "DAP_STEP_INTO") \cup
    Do({"shift+f11", "f12"}, "DAP_STEP_OUT") \cup Do({"shift+f5"}, "DAP_STOP") \cup
    Go({"?", "f1"}, "help", "HELP_TOGGLE")

NormalKeys == NormalModes \cup NormalMoves \cup NormalEdits \cup NormalCommands

HandleNormal(s, k) ==
    CASE s.last = "g" /\ Has(GChords, k) -> Follow(s, GChords, k)
      [] s.last = "g" /\ k = "d" -> Done(s, "LSP_DEFINITION")
      [] k = "Space" -> Lead(s, "normal")
      [] k = "m" -> Match(s)
      [] OTHER -> Follow(s, NormalKeys, k)

InsertEdits ==
    Go({"esc"}, "normal", "MOVE_LEFT") \cup Do({"enter"}, "INSERT_NEWLINE") \cup
    Do({"tab"}, "INSERT_TAB") \cup Do({"shift+tab"}, "OUTDENT") \cup
    Do({"ctrl+space"}, "LSP_COMPLETE") \cup Do({"ctrl+s"}, "SAVE") \cup Do({"ctrl+z"}, "UNDO") \cup
    Do({"ctrl+y", "ctrl+r", "ctrl+shift+z"}, "REDO") \cup Do({"ctrl+c"}, "YANK") \cup
    Do({"ctrl+v"}, "PASTE_AFTER") \cup Do({"ctrl+x"}, "DELETE_SELECTION") \cup
    Do({"ctrl+w"}, "PANE_CYCLE") \cup Do({"backspace"}, "BACKSPACE") \cup
    Do({"delete"}, "DELETE_CHAR") \cup Do({"Space"}, "INSERT_CHAR") \cup Do({"alt+1"}, "TAB_SWITCH")

InsertMoves ==
    Do({"left"}, "MOVE_LEFT") \cup Do({"right"}, "MOVE_RIGHT") \cup
    Do({"up"}, "MOVE_UP") \cup Do({"down"}, "MOVE_DOWN") \cup
    Go({"shift+left", "shift+right", "shift+up", "shift+down"}, "select", "EXTEND_SELECTION") \cup
    Do(Pages(TRUE), "PAGE_UP") \cup Do(Pages(FALSE), "PAGE_DOWN") \cup
    Do({"home"}, "MOVE_LINE_START") \cup Do({"end"}, "MOVE_LINE_END") \cup
    Do({"ctrl+home"}, "MOVE_BUFFER_START") \cup Do({"ctrl+end"}, "MOVE_BUFFER_END") \cup
    Do({"ctrl+right", "alt+right"}, "MOVE_WORD_FORWARD") \cup
    Do({"ctrl+left", "alt+left"}, "MOVE_WORD_BACKWARD")

InsertKeys == InsertEdits \cup InsertMoves

\* j and k within 200 ms leave the mode and take the j back.
HandleInsert(s, k, quick) ==
    IF k = "k" /\ s.last = "j" /\ quick
    THEN Done([s EXCEPT !.mode = "normal"], "BACKSPACE")
    ELSE OrType(s, InsertKeys, k, "INSERT_CHAR")

SelectEdits ==
    Go({"esc", "v"}, "normal", "COLLAPSE_SELECTION") \cup
    Go({"d", "delete", "backspace", "ctrl+x"}, "normal", "DELETE_SELECTION") \cup
    Go({"c", "i"}, "insert", "CHANGE_SELECTION") \cup Go({"y", "ctrl+c"}, "normal", "YANK") \cup
    Go({"p", "ctrl+v"}, "normal", "PASTE_AFTER") \cup Go({"u", "ctrl+z"}, "normal", "UNDO") \cup
    Go({"U", "ctrl+y", "ctrl+r", "ctrl+shift+z"}, "normal", "REDO") \cup
    Do({"ctrl+s"}, "SAVE") \cup Do({">", "tab"}, "INDENT") \cup Do({"<", "shift+tab"}, "OUTDENT")

SelectMoves ==
    Do({"h", "left", "shift+left", "l", "right", "shift+right", "j", "down", "shift+down",
        "k", "up", "shift+up"}, "EXTEND_SELECTION") \cup
    Do(Pages(TRUE) \cup {"ctrl+u"}, "PAGE_UP") \cup Do(Pages(FALSE) \cup {"ctrl+d"}, "PAGE_DOWN") \cup
    Do({"home", "0"}, "MOVE_LINE_START") \cup Do({"end", "$"}, "MOVE_LINE_END") \cup
    Do({"ctrl+home"}, "MOVE_BUFFER_START") \cup Do({"ctrl+end", "G"}, "MOVE_BUFFER_END") \cup
    Do({"w", "ctrl+right"}, "SELECT_WORD") \cup Do({"b", "ctrl+left"}, "SELECT_WORD_BACKWARD") \cup
    Do({"x"}, "SELECT_LINE")

SelectKeys == SelectEdits \cup SelectMoves

HandleSelect(s, k) ==
    CASE s.last = "g" /\ Has(GChords, k) -> Follow(s, GChords, k)
      [] k = "Space" -> Lead(s, "other")
      [] k = "m" -> Match(s)
      [] OTHER -> Follow(s, SelectKeys, k)

\* A mutant: a key that is no object is swallowed.
MatchStays(s, k) ==
    CASE IsByte(k) /\ s.obj = "none" /\ k \in {"i", "a"} -> Done([s EXCEPT !.obj = k], "NONE")
      [] IsByte(k) /\ s.obj # "none" ->
            Done([s EXCEPT !.mode = "select", !.obj = "none"], "SELECT_TEXT_OBJECT")
      [] OTHER -> Done([s EXCEPT !.obj = "none"], "NONE")

\* "i" or "a", then the object: anything else leaves the mode.
HandleMatch(s, k) ==
    CASE IsByte(k) /\ s.obj = "none" /\ k \in {"i", "a"} -> Done([s EXCEPT !.obj = k], "NONE")
      [] IsByte(k) /\ s.obj # "none" ->
            Done([s EXCEPT !.mode = "select", !.obj = "none"], "SELECT_TEXT_OBJECT")
      [] OTHER -> Done([s EXCEPT !.mode = "normal", !.obj = "none"], "NONE")

\* The first keys of the chords of two (kValidLeaderChords).
ChordHeads == {"f", "b", "m", "n", "p", "d", "c", "r", "g", "s", "w"}

Chord1(k) == {<<k>>}
Chord2(a, seconds) == {<<a, k>> : k \in seconds}

ChordsOfFiles ==
    Go(Chord2("f", {"f"}), "picker", "PICKER_OPEN_FILES") \cup
    Go(Chord2("f", {"g"}) \cup Chord1("/"), "picker", "PICKER_OPEN_GREP") \cup
    Go(Chord2("b", {"b"}) \cup Chord1("comma"), "picker", "PICKER_OPEN_BUFFERS") \cup
    Go(Chord2("b", {"d"}) \cup Chord1("q"), "normal", "BUFFER_CLOSE") \cup
    Go(Chord2("b", {"D"}) \cup Chord1("Q") \cup Chord2("w", {"q"}), "normal",
       "BUFFER_FORCE_CLOSE") \cup
    Go(Chord2("f", {"s"}) \cup Chord2("w", {"s"}), "normal", "SAVE") \cup
    Go(Chord2("f", {"a"}) \cup Chord2("w", {"a"}), "normal", "SAVE_ALL")

ChordsOfLayout ==
    Go(Chord1("o"), "drawer", "TOGGLE_DRAWER") \cup
    Go(Chord1("?") \cup Chord1("h"), "help", "HELP_TOGGLE") \cup
    Go(Chord2("m", {"p"}), "normal", "TOGGLE_MARKDOWN_PREVIEW") \cup
    Go(Chord2("m", {"t"}), "normal", "TOGGLE_CHECKLIST") \cup
    Go(Chord2("m", {"d", "m"}), "normal", "TOGGLE_MERMAID_MODE") \cup
    Go(Chord1("a"), "normal", "ALTERNATE_FILE") \cup
    Go(Chord2("n", {"e"}), "normal", "NEXT_ERROR") \cup
    Go(Chord2("p", {"e"}), "normal", "PREV_ERROR") \cup
    Go(Chord2("n", {"d"}), "normal", "NEXT_DIAGNOSTIC") \cup
    Go(Chord2("p", {"d"}), "normal", "PREV_DIAGNOSTIC") \cup
    Go(Chord2("n", {"h"}), "normal", "NEXT_HUNK") \cup
    Go(Chord2("p", {"h"}), "normal", "PREV_HUNK")

ChordsOfTools ==
    Go(Chord2("d", {"s"}), "diff_review", "AGENT_REVIEW_OPEN") \cup
    Go(Chord2("d", {"a"}), "normal", "AGENT_ACCEPT_ALL") \cup
    Go(Chord2("d", {"r"}), "normal", "AGENT_REVERT_ALL") \cup
    Go(Chord2("d", {"b"}), "normal", "DAP_TOGGLE_BREAKPOINT") \cup
    Go(Chord2("d", {"d"}), "normal", "DAP_START") \cup
    Go(Chord2("d", {"c"}), "normal", "DAP_CONTINUE") \cup
    Go(Chord2("d", {"n"}), "normal", "DAP_STEP_OVER") \cup
    Go(Chord2("d", {"i"}), "normal", "DAP_STEP_INTO") \cup
    Go(Chord2("d", {"o"}), "normal", "DAP_STEP_OUT") \cup
    Go(Chord2("d", {"p"}), "normal", "DAP_PAUSE") \cup
    Go(Chord2("d", {"q"}), "normal", "DAP_STOP") \cup
    Go(Chord2("d", {"v"}), "drawer", "DAP_TOGGLE_VIEW")

ChordsOfCode ==
    Go(Chord2("c", {"a"}), "normal", "LSP_CODE_ACTION") \cup
    Go(Chord2("r", {"b"}), "normal", "TASK_BUILD") \cup Go(Chord2("r", {"t"}), "normal", "TASK_TEST") \cup
    Go(Chord2("r", {"r"}), "normal", "TASK_RUN") \cup Go(Chord2("r", {"c"}), "normal", "TASK_CLEAN") \cup
    Go(Chord2("c", {"f"}), "normal", "LSP_FORMAT") \cup Go(Chord2("c", {"r"}), "normal", "LSP_RENAME") \cup
    Go(Chord2("g", {"d"}), "normal", "LSP_DEFINITION") \cup
    Go(Chord2("g", {"i"}), "normal", "LSP_IMPLEMENTATION") \cup
    Go(Chord1("k"), "normal", "LSP_HOVER")

ChordsOfPanes ==
    Go(Chord2("w", {">", "<", "+", "-"}), "normal", "RESIZE") \cup
    Go(Chord2("w", {"w"}), "normal", "PANE_CYCLE") \cup
    Go(Chord2("w", {"h"}), "tree", "PANE_FOCUS_TREE") \cup
    Go(Chord2("w", {"l", "k"}), "normal", "PANE_FOCUS_BUFFER") \cup
    Go(Chord2("w", {"j"}), "drawer", "PANE_FOCUS_DRAWER") \cup
    Go(Chord2("s", {"r"}), "drawer", "REPLACE_OPEN") \cup
    Go(Chord2("s", {"p"}), "drawer", "PROJECT_REPLACE_OPEN") \cup
    Go(Chord2("s", {"f", "/"}), "search", "SEARCH_OPEN") \cup
    Go(Chord2("c", {"h"}), "normal", "SEARCH_CLEAR_HIGHLIGHT") \cup
    Go(Chord2("n", {"s"}), "normal", "SEARCH_NEXT") \cup
    Go(Chord2("p", {"s"}), "normal", "SEARCH_PREV")

Chords == ChordsOfFiles \cup ChordsOfLayout \cup ChordsOfTools \cup ChordsOfCode \cup ChordsOfPanes

HandleLeader(s, k) ==
    LET chord == Append(s.chord, k)
        left  == [s EXCEPT !.chord = <<>>]
    IN  CASE k = "Space" /\ s.chord = <<>> ->
                Done([left EXCEPT !.mode = "picker"], "PICKER_OPEN_FILES")
          [] chord = <<"e">> ->
                Done([left EXCEPT !.mode = IF s.prev = "tree" THEN "normal" ELSE "tree"],
                     "TOGGLE_FILE_TREE")
          [] chord \in {<<"s", "r">>, <<"s", "p">>} ->
                Follow([left EXCEPT !.dEd = TRUE], Chords, chord)
          [] Has(Chords, chord) /\ chord \notin {<<"s", "r">>, <<"s", "p">>} ->
                Follow(left, Chords, chord)
          [] Len(chord) = 1 /\ k \in ChordHeads -> Done([s EXCEPT !.chord = chord], "NONE")
          [] OTHER -> Done([left EXCEPT !.mode = "normal"], "NONE")

ReplaceKeys ==
    Do({"enter", "alt+a", "ctrl+a"}, "REPLACE_APPLY_ALL") \cup
    Do({"tab", "down", "shift+tab", "up"}, "REPLACE_FIELD") \cup
    Do({"alt+c", "alt+w", "alt+r", "ctrl+r"}, "REPLACE_TOGGLE") \cup
    Do({"alt+y", "ctrl+y"}, "REPLACE_APPLY_CURRENT") \cup
    Do(Pages(TRUE), "PAGE_UP") \cup Do(Pages(FALSE), "PAGE_DOWN") \cup
    Do({"backspace"}, "BACKSPACE") \cup Do({"Space"}, "INSERT_CHAR")

DrawerKeys ==
    Go({"esc", "q"}, "normal", "DRAWER_CLOSE") \cup Go({"enter"}, "normal", "DRAWER_JUMP") \cup
    Do({"Z"}, "DRAWER_MAXIMIZE") \cup
    Do({"j", "down"}, "MOVE_DOWN") \cup Do({"k", "up"}, "MOVE_UP") \cup
    Do({"d", "ctrl+d"} \cup Pages(FALSE), "PAGE_DOWN") \cup
    Do({"u", "ctrl+u"} \cup Pages(TRUE), "PAGE_UP") \cup
    Do({"G", "ctrl+end"}, "MOVE_BUFFER_END") \cup Do({"home", "ctrl+home"}, "MOVE_BUFFER_START") \cup
    Do({"f5"}, "DAP_CONTINUE") \cup Do({"f9"}, "DAP_TOGGLE_BREAKPOINT") \cup
    Do({"f10"}, "DAP_STEP_OVER") \cup Do({"f11"}, "DAP_STEP_INTO") \cup
    Do({"shift+f11", "f12"}, "DAP_STEP_OUT") \cup Do({"shift+f5"}, "DAP_STOP") \cup
    Do({"ctrl+w"}, "PANE_CYCLE")

HandleDrawer(s, k) ==
    CASE s.dEd /\ k = "esc" -> Done([s EXCEPT !.mode = "normal", !.dEd = FALSE], "DRAWER_CLOSE")
      [] s.dEd /\ k # "esc" -> OrType(s, ReplaceKeys, k, "INSERT_CHAR")
      [] ~s.dEd /\ k = "Space" -> Lead(s, "other")
      [] OTHER -> Follow(s, DrawerKeys, k)

TreeKeys ==
    Go({"esc", "q"}, "normal", "PANE_FOCUS_BUFFER") \cup
    Do({"j", "down"}, "TREE_DOWN") \cup Do({"k", "up"}, "TREE_UP") \cup
    Do({"enter", "l", "right"}, "TREE_TOGGLE_OR_OPEN") \cup
    Do({"h", "left"}, "TREE_COLLAPSE_OR_PARENT") \cup
    Do(Pages(FALSE) \cup {"ctrl+d"}, "TREE_PAGE_DOWN") \cup
    Do(Pages(TRUE) \cup {"ctrl+u"}, "TREE_PAGE_UP") \cup
    Do({"home"}, "TREE_TOP") \cup Do({"end", "G"}, "TREE_BOTTOM") \cup
    Do({"r"}, "TREE_REFRESH") \cup Do({"d"}, "TREE_DELETE") \cup Do({"ctrl+w"}, "PANE_CYCLE")

\* Typing the name of a file to create.
HandleTreePrompt(s, k) ==
    CASE k = "esc" -> Done([s EXCEPT !.tEd = FALSE], "LSP_CANCEL")
      [] k = "enter" -> Done([s EXCEPT !.tEd = FALSE], "LSP_SELECT_CONFIRM")
      [] k = "backspace" -> Done(s, "BACKSPACE")
      [] k = "Space" \/ IsGlyph(k) -> Done(s, "INSERT_CHAR")
      [] OTHER -> Done(s, "NONE")

HandleTree(s, k) ==
    CASE s.tEd -> HandleTreePrompt(s, k)
      [] ~s.tEd /\ k = "g" -> Done(s, IF s.last = "g" THEN "TREE_TOP" ELSE "NONE")
      [] ~s.tEd /\ k = "a" -> Done([s EXCEPT !.tEd = TRUE], "TREE_CREATE_FILE")
      [] ~s.tEd /\ k = "A" -> Done([s EXCEPT !.tEd = TRUE], "TREE_CREATE_DIR")
      [] ~s.tEd /\ k = "Space" -> Lead(s, "tree")
      [] OTHER -> Follow(s, TreeKeys, k)

PickerKeys ==
    Go({"esc"}, "normal", "PICKER_CANCEL") \cup Go({"enter"}, "normal", "PICKER_SELECT") \cup
    Do({"down", "ctrl+n", "tab", "ctrl+j"}, "PICKER_NEXT") \cup
    Do({"up", "ctrl+p", "shift+tab", "ctrl+k"}, "PICKER_PREV") \cup
    Do(Pages(FALSE) \cup {"ctrl+d"}, "HELP_PAGE_DOWN") \cup
    Do(Pages(TRUE) \cup {"ctrl+u"}, "HELP_PAGE_UP") \cup
    Do({"backspace"}, "PICKER_BACKSPACE") \cup Do({"Space"}, "PICKER_INPUT")

HandlePicker(s, k) == OrType(s, PickerKeys, k, "PICKER_INPUT")

HelpKeys ==
    Go({"esc", "q", "?", "f1"}, "normal", "HELP_CANCEL") \cup
    Go({"enter"}, "normal", "HELP_SELECT") \cup
    Do({"down", "ctrl+n", "tab"}, "HELP_NEXT") \cup Do({"up", "ctrl+p", "shift+tab"}, "HELP_PREV") \cup
    Do(Pages(FALSE) \cup {"ctrl+d"}, "HELP_PAGE_DOWN") \cup
    Do(Pages(TRUE) \cup {"ctrl+u"}, "HELP_PAGE_UP") \cup
    Do({"backspace"}, "HELP_BACKSPACE") \cup Do({"Space"}, "HELP_INPUT")

HandleHelp(s, k) == OrType(s, HelpKeys, k, "HELP_INPUT")

ReviewKeys ==
    Go({"esc", "q"}, "normal", "DRAWER_CLOSE") \cup Do({"j", "down"}, "MOVE_DOWN") \cup
    Do({"k", "up"}, "MOVE_UP") \cup Do({"enter"}, "DRAWER_JUMP")

HoverKeys ==
    Go({"esc", "q"}, "normal", "LSP_CANCEL") \cup Do({"j", "down"}, "MOVE_DOWN") \cup
    Do({"k", "up"}, "MOVE_UP")

CompletionKeys ==
    Do({"down", "ctrl+n"}, "LSP_SELECT_NEXT") \cup Do({"up", "ctrl+p"}, "LSP_SELECT_PREV") \cup
    Do({"backspace"}, "BACKSPACE") \cup Do({"ctrl+space"}, "NONE") \cup
    Go({"Space"}, "insert", "INSERT_CHAR")

HandleCompletion(s, k) ==
    LET back == [s EXCEPT !.mode = IF s.prev = "normal" THEN "normal" ELSE "insert"]
    IN  CASE k = "esc" -> Done(back, "LSP_CANCEL")
          [] k \in {"enter", "tab"} -> Done(back, "LSP_SELECT_CONFIRM")
          [] OTHER -> OrType(s, CompletionKeys, k, "INSERT_CHAR")

\* A digit confirms the action with that number.
CodeActionKeys ==
    Go({"esc", "q"}, "normal", "LSP_CANCEL") \cup Go({"enter"}, "normal", "LSP_SELECT_CONFIRM") \cup
    Do({"j", "down"}, "LSP_SELECT_NEXT") \cup Do({"k", "up"}, "LSP_SELECT_PREV") \cup
    Go({"1", "2", "3", "4", "5", "6", "7", "8", "9"}, "normal", "LSP_SELECT_NUMBER")

RenameKeys ==
    Go({"esc"}, "normal", "LSP_CANCEL") \cup Go({"enter"}, "normal", "LSP_SELECT_CONFIRM") \cup
    Do({"backspace"}, "BACKSPACE") \cup Do({"Space"}, "INSERT_CHAR")

HandleRename(s, k) == OrType(s, RenameKeys, k, "INSERT_CHAR")

SearchKeys ==
    Go({"esc"}, "normal", "SEARCH_CANCEL") \cup Go({"enter"}, "normal", "SEARCH_CONFIRM") \cup
    Do({"backspace"}, "SEARCH_BACKSPACE") \cup Do({"Space"}, "SEARCH_INPUT")

HandleSearch(s, k) == OrType(s, SearchKeys, k, "SEARCH_INPUT")

HandleKey(s, k, quick) ==
    CASE s.mode = "normal"      -> HandleNormal(s, k)
      [] s.mode = "insert"      -> HandleInsert(s, k, quick)
      [] s.mode = "select"      -> HandleSelect(s, k)
      [] s.mode = "leader"      -> HandleLeader(s, k)
      [] s.mode = "match"       -> HandleMatch(s, k)
      [] s.mode = "drawer"      -> HandleDrawer(s, k)
      [] s.mode = "tree"        -> HandleTree(s, k)
      [] s.mode = "picker"      -> HandlePicker(s, k)
      [] s.mode = "help"        -> HandleHelp(s, k)
      [] s.mode = "diff_review" -> Follow(s, ReviewKeys, k)
      [] s.mode = "hover"       -> Follow(s, HoverKeys, k)
      [] s.mode = "completion"  -> HandleCompletion(s, k)
      [] s.mode = "code_action" -> Follow(s, CodeActionKeys, k)
      [] s.mode = "rename"      -> HandleRename(s, k)
      [] s.mode = "search"      -> HandleSearch(s, k)

\* The key is remembered for a pair, but for those of a chord and the end of "gg".
Remembered(before, done, k) ==
    LET after == done.s.mode
    IN  IF {before, after} \cap {"leader", "match"} # {} THEN "none"
        ELSE IF k = "g" /\ after \in {"normal", "select", "tree"}
                /\ done.act \notin {"MOVE_BUFFER_START", "TREE_TOP"} THEN "g"
        ELSE IF k = "j" /\ after = "insert" THEN "j" ELSE "none"

\* ide_fsm_handle_key_at, and the timer of the chord that the window arms again.
Keyed(s, k, quick) ==
    LET done == HandleKey(s, k, quick)
    IN  Done([done.s EXCEPT !.last = Remembered(s.mode, done, k),
                            !.timer = (done.s.mode = "leader")], done.act)

-----------------------------------------------------------------------------
(* The mode as the window sets it.                                         *)

Kept(m) == IF m \in {"normal", "tree"} THEN m ELSE "other"

SetState(s, m) ==
    [s EXCEPT !.mode = m, !.prev = IF s.mode = m THEN @ ELSE Kept(s.mode),
              !.chord = <<>>, !.obj = "none", !.last = "none",
              !.dEd = @ /\ m = "drawer", !.tEd = @ /\ m = "tree"]

\* The chord of Space was not finished in two seconds.
ExpireLeader(s) == [s EXCEPT !.mode = "normal", !.chord = <<>>, !.obj = "none", !.last = "none"]

\* Every handler of the window ends with its status bar, which drops the timer.
StatusBar(s) == [s EXCEPT !.timer = @ /\ s.mode = "leader"]

OnEditor(s) == [s EXCEPT !.focus = "editor"]
Drawer(s, p) == [s EXCEPT !.drawer = TRUE, !.page = p, !.focus = IF p = "dap" THEN @ ELSE "editor"]
NoDrawer(s) == [s EXCEPT !.drawer = FALSE, !.focus = "editor"]
Each(S, Op(_)) == UNION {Op(t) : t \in S}

(* The popovers of the language servers.                                   *)

ModeOf(u) == IF u = "action" THEN "code_action" ELSE u

OnUiState(s, u) ==
    CASE u # "closed" -> SetState(s, ModeOf(u))
      [] u = "closed" /\ s.mode = "completion" ->
            SetState(s, IF s.prev = "normal" THEN "normal" ELSE "insert")
      [] u = "closed" /\ s.mode \in {"hover", "code_action", "rename"} -> SetState(s, "normal")
      [] OTHER -> s

SetUi(s, u) == IF s.ui = u THEN s ELSE OnUiState([s EXCEPT !.ui = u], u)

\* What is asked is forgotten with the popover.
Cancel(s) == SetUi([s EXCEPT !.asked = "none"], "closed")

\* A mutant: the popover that is there is not closed first.
RequestHoverOver(s) == {[s EXCEPT !.asked = "hover"], SetUi(Cancel(s), "hover")}

\* Hover and code action of a server are asked and shown when they arrive;
\* without one the text gives the card, or a search for it, or nothing.
RequestHover(s) == {[Cancel(s) EXCEPT !.asked = "hover"], SetUi(Cancel(s), "hover")}
RequestCompletion(s) ==
    {Cancel(s), [Cancel(s) EXCEPT !.asked = "completion"], SetUi(Cancel(s), "completion")}
RequestCodeActions(s) == {Cancel(s), [Cancel(s) EXCEPT !.asked = "action"]}
RenameBegin(s) == {Cancel(s), SetUi(Cancel(s), "rename")}

\* What arrives is shown if the popover was not closed since.
Answered(s) ==
    LET heard == [s EXCEPT !.asked = "none"]
    IN  CASE s.asked = "hover" -> {SetUi(Cancel(heard), "hover")}
          [] s.asked = "completion" -> {heard, SetUi(heard, "completion")}
          [] s.asked = "action" -> {heard, SetUi(heard, "action")}
          [] OTHER -> {}

(* The text.                                                               *)

\* A hover card goes when the cursor does.
CursorMoves(s) == {s} \cup {t \in {Cancel(s)} : s.mode = "hover"}
OpenPath(s) == CursorMoves(OnEditor(s))
OnOpenFile(s) == {SetState(t, "normal") : t \in OpenPath(s)}

\* Typing goes on with the completion, and a character may start one.
AfterTyping(s, t, act) ==
    IF s.ui = "completion" THEN RequestCompletion(t)
    ELSE {t} \cup UNION {RequestCompletion(u) : u \in {v \in {t} : act = "INSERT_CHAR"}}
Edit(s, act) ==
    LET moved == CursorMoves(s)
    IN  IF act \in {"INSERT_CHAR", "BACKSPACE"}
        THEN UNION {AfterTyping(s, t, act) : t \in moved} ELSE moved

-----------------------------------------------------------------------------
(* Carrying out an action: each operator gives the states that can follow. *)

DropPrompt(s) == IF s.tEd \/ s.prompt THEN [s EXCEPT !.prompt = FALSE, !.tEd = FALSE] ELSE s

PaneCycle(s) ==
    CASE s.mode = "tree" ->
            SetState(DropPrompt(s), IF s.drawer THEN "drawer" ELSE "normal")
      [] s.mode = "drawer" -> SetState(s, "normal")
      [] s.mode \notin {"tree", "drawer"} /\ s.tree -> SetState(s, "tree")
      [] s.mode \notin {"tree", "drawer"} /\ ~s.tree /\ s.drawer -> SetState(s, "drawer")
      [] OTHER -> s

ToggleTree(s) ==
    IF s.mode = "tree" THEN [s EXCEPT !.tree = TRUE] ELSE OnEditor([s EXCEPT !.tree = ~@])

ToggleDrawer(s) ==
    CASE ~s.drawer -> Drawer(s, "other")
      [] s.drawer /\ s.mode # "drawer" -> NoDrawer(s)
      [] OTHER -> s

Panes == {"TOGGLE_FILE_TREE", "PANE_FOCUS_TREE", "PANE_FOCUS_BUFFER", "PANE_FOCUS_DRAWER",
          "PANE_CYCLE", "TOGGLE_DRAWER", "DRAWER_CLOSE", "DRAWER_JUMP"}
OnPane(s, act) ==
    CASE act = "TOGGLE_FILE_TREE"  -> {ToggleTree(s)}
      [] act = "PANE_FOCUS_TREE"   -> {[s EXCEPT !.tree = TRUE]}
      [] act = "PANE_FOCUS_BUFFER" -> {OnEditor(DropPrompt(s))}
      [] act = "PANE_FOCUS_DRAWER" -> {[s EXCEPT !.drawer = TRUE]}
      [] act = "PANE_CYCLE"        -> {OnEditor(PaneCycle(s))}
      [] act = "TOGGLE_DRAWER"     -> {ToggleDrawer(s)}
      [] act = "DRAWER_CLOSE"      -> {NoDrawer(s)}
      [] act = "DRAWER_JUMP"       -> {OnEditor(t) : t \in {s} \cup OnOpenFile(s)}

\* Pages of the drawer that an action shows, and what else it does.
Shows == [TOGGLE_MERMAID_MODE |-> "other", REPLACE_OPEN |-> "other",
          PROJECT_REPLACE_OPEN |-> "other", TASK_BUILD |-> "other", TASK_TEST |-> "other",
          TASK_RUN |-> "other", TASK_CLEAN |-> "other", AGENT_REVIEW_OPEN |-> "other",
          DAP_TOGGLE_VIEW |-> "dap", DAP_START |-> "dap"]

PickerShown(s, p) == [s EXCEPT !.picker = p, !.query = FALSE]
PickerClosed(s) == PickerShown(s, "closed")
HelpToggle(s) ==
    IF s.picker = "help" THEN SetState(PickerClosed(s), "normal")
    ELSE PickerShown(SetState(s, "help"), "help")

Pickers == {"PICKER_OPEN_FILES", "PICKER_OPEN_BUFFERS", "PICKER_OPEN_GREP", "HELP_TOGGLE",
            "PICKER_INPUT", "HELP_INPUT", "PICKER_BACKSPACE", "HELP_BACKSPACE",
            "PICKER_CANCEL", "HELP_CANCEL", "PICKER_NEXT", "PICKER_PREV", "HELP_NEXT",
            "HELP_PREV", "HELP_PAGE_DOWN", "HELP_PAGE_UP"}
OnPicker(s, act) ==
    CASE act = "PICKER_OPEN_FILES"   -> {PickerShown(s, "files")}
      [] act = "PICKER_OPEN_BUFFERS" -> {PickerShown(s, "buffers")}
      [] act = "PICKER_OPEN_GREP"    -> {PickerShown(s, "grep")}
      [] act = "HELP_TOGGLE"         -> {HelpToggle(s)}
      [] act \in {"PICKER_INPUT", "HELP_INPUT"} -> {[s EXCEPT !.query = s.picker = "help"]}
      [] act \in {"PICKER_BACKSPACE", "HELP_BACKSPACE"} -> {s, [s EXCEPT !.query = FALSE]}
      [] act \in {"PICKER_CANCEL", "HELP_CANCEL"} -> {OnEditor(PickerClosed(s))}
      [] OTHER -> {s}

Trees == {"TREE_UP", "TREE_DOWN", "TREE_PAGE_UP", "TREE_PAGE_DOWN", "TREE_TOP", "TREE_BOTTOM",
          "TREE_TOGGLE_OR_OPEN", "TREE_COLLAPSE_OR_PARENT", "TREE_REFRESH", "TREE_DELETE",
          "TREE_CREATE_FILE", "TREE_CREATE_DIR"}
OnTree(s, act) ==
    CASE act = "TREE_TOGGLE_OR_OPEN" -> {s} \cup OnOpenFile(s)
      [] act \in {"TREE_CREATE_FILE", "TREE_CREATE_DIR"} ->
            {[SetState([s EXCEPT !.tree = TRUE], "tree") EXCEPT !.tEd = TRUE, !.prompt = TRUE]}
      [] OTHER -> {s}

\* Another buffer in the view, or a file by its path.
Tabs == {"TAB_NEXT", "TAB_PREV", "TAB_SWITCH", "STEP_FORWARD", "STEP_BACKWARD", "BUFFER_CLOSE",
         "BUFFER_FORCE_CLOSE"}
OnTabs(s) == {s, OnEditor(s)}
Jumps == {"ALTERNATE_FILE", "JUMPLIST_BACK", "JUMPLIST_FORWARD"}

\* Confirms the name typed in the tree, the new name of a symbol, or what is
\* selected in the popover; a number past its end brings its mode back.
SelectConfirm(s, act) ==
    CASE s.mode = "tree" /\ (s.tEd \/ s.prompt) ->
            {[t EXCEPT !.tEd = FALSE] : t \in Each({[s EXCEPT !.prompt = FALSE]},
                                                   LAMBDA u : {u} \cup OnOpenFile(u))}
      [] s.ui # "rename" /\ act = "LSP_SELECT_NUMBER" /\ s.mode # "tree" ->
            {Cancel(s), SetState(s, "code_action")}
      [] OTHER -> {Cancel(s)}

Lsp == {"LSP_HOVER", "LSP_COMPLETE", "LSP_CODE_ACTION", "LSP_RENAME", "LSP_CANCEL",
        "LSP_SELECT_CONFIRM", "LSP_SELECT_NUMBER"}
OnLsp(s, act) ==
    CASE act = "LSP_HOVER"       -> RequestHover(s)
      [] act = "LSP_COMPLETE"    -> RequestCompletion(s)
      [] act = "LSP_CODE_ACTION" -> RequestCodeActions(s)
      [] act = "LSP_RENAME"      -> RenameBegin(s)
      [] act = "LSP_CANCEL"      -> {Cancel(DropPrompt(s))}
      [] OTHER -> SelectConfirm(s, act)

Errors == {"NEXT_ERROR", "PREV_ERROR"}

\* Actions that leave the modes alone: searching for a definition, whose answer
\* comes later, saving, sizes, lists and the debugger.
Quiet == {"NONE", "LSP_DEFINITION", "LSP_IMPLEMENTATION", "LSP_FORMAT", "LSP_SELECT_NEXT",
          "LSP_SELECT_PREV", "RESIZE", "DRAWER_MAXIMIZE", "SAVE", "SAVE_ALL", "SEARCH_OPEN",
          "SEARCH_INPUT", "SEARCH_BACKSPACE", "SEARCH_CANCEL", "REPLACE_FIELD", "REPLACE_TOGGLE", "AGENT_ACCEPT_ALL", "AGENT_REVERT_ALL",
          "DAP_TOGGLE_BREAKPOINT", "DAP_CONTINUE", "DAP_PAUSE", "DAP_STEP_OVER",
          "DAP_STEP_INTO", "DAP_STEP_OUT", "DAP_STOP"}

Perform(s, act) ==
    CASE act \in Quiet -> {s}
      [] act \in Panes -> OnPane(s, act)
      [] act = "TOGGLE_MARKDOWN_PREVIEW" -> {OnEditor(s)}
      [] act \in DOMAIN Shows -> {Drawer(s, Shows[act])}
      [] act \in Pickers -> OnPicker(s, act)
      [] act \in Trees -> OnTree(s, act)
      [] act \in Tabs -> OnTabs(s)
      [] act \in Jumps -> {s} \cup OpenPath(s)
      [] act \in Errors -> {s} \cup OnOpenFile(s)
      [] act \in Lsp -> OnLsp(s, act)
      [] OTHER -> Edit(s, act)

\* What the tree prompt, the drawer and the new name of a symbol take first.
Taken(s, act) ==
    \/ s.ui = "rename" /\ act \in {"INSERT_CHAR", "BACKSPACE"}
    \/ s.mode = "tree" /\ s.tEd /\ act \in {"INSERT_CHAR", "BACKSPACE"}
    \/ s.mode = "drawer" /\ act \in {"MOVE_UP", "MOVE_DOWN"}
    \/ s.mode = "drawer" /\ s.dEd /\ act \in {"INSERT_CHAR", "BACKSPACE"}

Carried(s, act) == IF Taken(s, act) THEN {s} ELSE Perform(s, act)

\* A command of the palette: the mode it needs, then the action.
CommandMode(s, act) ==
    CASE act \in {"PICKER_OPEN_FILES", "PICKER_OPEN_BUFFERS", "PICKER_OPEN_GREP"} ->
            SetState(s, "picker")
      [] act = "SEARCH_OPEN" -> SetState(s, "search")
      [] act \in {"REPLACE_OPEN", "PROJECT_REPLACE_OPEN"} ->
            [SetState(s, "drawer") EXCEPT !.dEd = TRUE]
      [] act \in {"DAP_TOGGLE_VIEW", "AGENT_REVIEW_OPEN"} ->
            [SetState(s, "drawer") EXCEPT !.dEd = FALSE]
      [] act = "TOGGLE_DRAWER" -> SetState(s, IF s.drawer THEN "normal" ELSE "drawer")
      [] act = "TOGGLE_FILE_TREE" -> SetState(s, IF s.tree THEN "normal" ELSE "tree")
      [] act = "PANE_FOCUS_TREE" -> SetState(s, "tree")
      [] act = "PANE_FOCUS_DRAWER" -> SetState(s, "drawer")
      [] act \in {"TREE_CREATE_FILE", "TREE_CREATE_DIR"} ->
            [SetState([s EXCEPT !.tree = TRUE], "tree") EXCEPT !.tEd = TRUE]
      [] OTHER -> SetState(s, "normal")
Command(s, act) == Carried(CommandMode(s, act), act)

\* The row that is chosen; a buffer without a name has no path to open.
Chosen(s) ==
    LET closed == PickerClosed(s)
    IN  IF s.picker = "help" THEN UNION {Command(closed, c) : c \in Commands}
        ELSE {closed} \cup OnOpenFile(closed)

\* By the key there may be no row.
Confirm(s) == {PickerClosed(s)} \cup Chosen(s)

Dispatch(s, act) ==
    IF act \in {"PICKER_SELECT", "HELP_SELECT"} THEN {OnEditor(t) : t \in Confirm(s)}
    ELSE Carried(s, act)

-----------------------------------------------------------------------------
(* What happens to the window.                                             *)

Becomes(states) == \E s \in states : ide' = StatusBar(s)

\* A key that reaches the state machine: in the palette a "q" is text once
\* there is some.
Pressed(s, k, quick) ==
    IF s.mode = "help" /\ s.query /\ k = "q" THEN {s}
    ELSE LET done == Keyed(s, k, quick) IN Dispatch(done.s, done.act)

\* "quick" is a key within 200 ms of the one before, which only matters for jk.
\* The field of the debugger has its keys to itself, but for Esc and F1.
Key(k, quick) == ide.focus = "editor" /\ Becomes(Pressed(ide, k, quick))
ReplEscape == ide.focus = "repl" /\ Becomes({OnEditor(SetState(ide, "normal"))})
HelpKey == Becomes(Dispatch(ide, "HELP_TOGGLE"))

\* The key that comes too late and the timer that fires both end the chord.
LateKey == ide.mode = "leader" /\ ide.focus = "editor" /\ Becomes({ExpireLeader(ide)})
LeaderTimeout == ide.timer /\ Becomes({ExpireLeader([ide EXCEPT !.timer = FALSE])})

LspAnswer == Becomes(Answered(ide))

\* A definition found, a row of the drawer, a link of the preview or a program
\* asks for a file; the debugger shows where it stopped, the preview jumps.
FileOpened == Becomes(OnOpenFile(ide))
FrameShown == Becomes(OpenPath(ide))
PreviewJump == Becomes(CursorMoves(ide))

HeaderTree ==
    Becomes(Dispatch(SetState(ide, IF ide.tree THEN "normal" ELSE "tree"), "TOGGLE_FILE_TREE"))
HeaderFind == Becomes({PickerShown(SetState(ide, "picker"), "files")})
HeaderBuild == Becomes({Drawer(ide, "other")})
HeaderMarkdown == Becomes(Dispatch(ide, "TOGGLE_MARKDOWN_PREVIEW"))

DrawerTab(p) == ide.drawer /\ Becomes({Drawer(ide, p)})
\* A mutant: the drawer keeps the keys.
DrawerCloseAlone == ide.drawer /\ Becomes({OnEditor(NoDrawer(ide))})

DrawerClose ==
    /\ ide.drawer
    /\ Becomes({OnEditor(IF s.mode = "drawer" THEN SetState(s, "normal") ELSE s) :
                    s \in {NoDrawer(ide)}})

\* A press on the text ends a popover and what waits for keys elsewhere.
EditorPress ==
    LET s == IF ide.ui # "closed" /\ ide.mode # "rename" THEN Cancel(OnEditor(ide))
             ELSE OnEditor(ide)
    IN  Becomes(CursorMoves(IF s.mode \in {"tree", "drawer", "leader", "match"}
                            THEN SetState(s, "normal") ELSE s))
EditorRelease(selected) ==
    Becomes({CASE selected /\ ide.mode = "normal"  -> SetState(ide, "select")
               [] ~selected /\ ide.mode = "select" -> SetState(ide, "normal")
               [] OTHER -> ide})
CtrlClick == Becomes(CursorMoves(OnEditor(ide)))
SecondaryPress(selected) ==
    Becomes({IF s.mode = "select" /\ ~selected THEN SetState(s, "normal") ELSE s :
                s \in CursorMoves(OnEditor(ide))})
CodeMenu(act) == Becomes(Dispatch(ide, act))

\* The popover goes with the cursor out of sight, and with the focus.
ScrollAway == ide.ui # "closed" /\ Becomes({Cancel(ide)})
FocusLeaves == ide.focus = "editor" /\ ide.ui # "closed" /\ Becomes({Cancel(ide)})
ReplClick ==
    /\ ide.drawer /\ ide.page = "dap" /\ ide.focus = "editor"
    /\ Becomes({[IF ide.ui = "closed" THEN ide ELSE Cancel(ide) EXCEPT !.focus = "repl"]})

TreeRow == ide.tree /\ Becomes({ide} \cup OnOpenFile(ide))
PickerRow == ide.picker # "closed" /\ Becomes(Chosen(ide))
PickerEsc == ide.picker # "closed" /\ Becomes(Command(PickerClosed(ide), "HELP_CANCEL"))
TabClick == Becomes({OnEditor(ide)})

MenuActions == {"LSP_DEFINITION", "LSP_HOVER", "LSP_RENAME", "LSP_CODE_ACTION"}

Next ==
    \/ \E k \in Keys : Key(k, FALSE)
    \/ Key("k", TRUE)
    \/ ReplEscape
    \/ HelpKey
    \/ LateKey
    \/ LeaderTimeout
    \/ LspAnswer
    \/ FileOpened
    \/ FrameShown
    \/ PreviewJump
    \/ HeaderTree
    \/ HeaderFind
    \/ HeaderBuild
    \/ HeaderMarkdown
    \/ \E p \in {"dap", "other"} : DrawerTab(p)
    \/ DrawerClose
    \/ EditorPress
    \/ \E selected \in BOOLEAN : EditorRelease(selected)
    \/ CtrlClick
    \/ \E selected \in BOOLEAN : SecondaryPress(selected)
    \/ \E act \in MenuActions : CodeMenu(act)
    \/ ScrollAway
    \/ FocusLeaves
    \/ ReplClick
    \/ TreeRow
    \/ PickerRow
    \/ PickerEsc
    \/ TabClick

Spec == Init /\ [][Next]_vars

-----------------------------------------------------------------------------
(* Properties.                                                             *)

\* The keys go to what is on the screen. A mode that gives the keys to the tree,
\* the drawer, the palette or a popover is only there while that is shown, what
\* is typed into a field goes there only in its mode, and a chord is under way
\* only in its mode, with a timer that ends it. The modes and what is shown are
\* set by different functions on different paths: the handlers of the keys set
\* the mode and the window shows (ide_actions.c:463), the buttons do both in
\* their own way (ide_window.c:1025), and a popover closes by itself
\* (ide_window.c:855).
KeysGoToWhatIsShown ==
    /\ ide.mode = "tree" => ide.tree
    /\ ide.mode = "drawer" => ide.drawer
    /\ ide.mode = "help" => ide.picker = "help"
    /\ ide.mode \in {"hover", "completion", "code_action", "rename"} => ide.mode = ModeOf(ide.ui)
    /\ ide.tEd => ide.mode = "tree" /\ ide.prompt
    /\ ide.dEd => ide.mode = "drawer"
    /\ ide.chord # <<>> => ide.mode = "leader"
    /\ ide.timer <=> ide.mode = "leader"

\* Whatever the editor is doing, Esc pressed twice gives NORMAL: no mode keeps
\* the keyboard, not even the field of the debugger (ide_fsm.c:1870).
Escaped(s) == IF s.focus = "repl" THEN {OnEditor(SetState(s, "normal"))} ELSE Pressed(s, "esc", FALSE)
TwoEscapesReachNormal ==
    \A s \in Escaped(ide) : s.mode = "normal" \/ \A t \in Escaped(s) : t.mode = "normal"

\* While an answer is awaited that opens a popover, none is shown: it never
\* opens over another one, whose widget would stay on the screen for good, the
\* manager keeping the last one only (ide_lsp.c:1331).
OnePopover == ide.asked # "none" => ide.ui = "closed"

=============================================================================
