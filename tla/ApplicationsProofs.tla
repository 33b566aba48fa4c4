-------------------------- MODULE ApplicationsProofs --------------------------
(***************************************************************************)
(* The applications: the modal input of the IDE and a window of the file   *)
(* manager.                                                                *)
(*                                                                         *)
(* The keys of the IDE go to what is shown, one popover at a time and two  *)
(* escapes are enough: for any sequence of keys, clicks and late answers,  *)
(* any set of keys and any palette. A key is handled in two halves. The    *)
(* state machine sets the mode and returns an action, and only the action  *)
(* shows what the mode needs: in between the mode may be that of a drawer  *)
(* that is not there yet. Owed says what the second half has to make good, *)
(* the first half is shown to leave no more than that (HandleKeyOwing),    *)
(* row by row of its tables (SafeTables), and each action to make it good  *)
(* (DispatchGood).                                                         *)
(*                                                                         *)
(* A window of the file manager shows the folder that it is in, for any    *)
(* disk that others write to and any operations in threads (FilesInv): it  *)
(* reads the folder it is in, is told of what comes to it and leaves it if *)
(* it can be watched, and lists what it read in the order of the ranks     *)
(* (SortedLists). That needs a file to be the only one at its path, which  *)
(* each operation keeps (Sound).                                           *)
(*                                                                         *)
(* The media player follows mpv (PlayerInv), which runs on its own and is  *)
(* told in one queue what to do and tells in another what it did. What is  *)
(* shown is what is kept, what is kept is so in mpv or will be told of,    *)
(* and the last order of each kind is what the window shows (Agrees): so   *)
(* they agree when the queues are empty (PlayInStep).                      *)
(***************************************************************************)
EXTENDS IdeInput, Applications, SequenceTheorems, FiniteSetTheorems, TLAPS

-----------------------------------------------------------------------------
(* The modal input of the IDE.                                             *)

Popups == {"hover", "completion", "code_action", "rename"}

\* The values of the fields. The chord holds one of the first keys at most.
Starts == {<<>>} \cup {<<h>> : h \in ChordHeads}
Befores == {"normal", "tree", "other"}
Objects == {"none", "i", "a"}
Firsts == {"none", "g", "j"}
DrawerPages == {"dap", "other"}
Lists == {"closed", "files", "buffers", "grep", "help"}
Uis == {"closed", "hover", "completion", "action", "rename"}
Questions == {"none", "hover", "completion", "action"}
Focuses == {"editor", "repl"}
State ==
  [mode : Modes, prev : Befores, chord : Starts, obj : Objects, last : Firsts,
   dEd : BOOLEAN, tEd : BOOLEAN, timer : BOOLEAN, tree : BOOLEAN,
   prompt : BOOLEAN, drawer : BOOLEAN, page : DrawerPages,
   picker : Lists, query : BOOLEAN, ui : Uis, asked : Questions, focus : Focuses]

\* What is asked is not asked over a popover.
OneShown(s) == s.asked # "none" => s.ui = "closed"

\* What the mode m needs is shown.
Seen(s, m) ==
  /\ m = "tree" => s.tree
  /\ m = "drawer" => s.drawer
  /\ m = "help" => s.picker = "help"
  /\ m \in Popups => m = ModeOf(s.ui)

\* The states between two events, but for a timer that StatusBar stops.
Good(s) ==
  /\ s \in State
  /\ Seen(s, s.mode)
  /\ s.tEd => s.mode = "tree" /\ s.prompt
  /\ s.dEd => s.mode = "drawer"
  /\ s.chord # <<>> => s.mode = "leader"
  /\ s.mode = "leader" => s.timer
  /\ OneShown(s)

\* What is left of it while a function of the window is under way: SetState
\* brings the rest back.
Base(s) == s \in State /\ OneShown(s) /\ (s.tEd => s.prompt)

-----------------------------------------------------------------------------
(* The functions that the actions are made of.                             *)

\* The values the functions write.
LEMMA Values ==
  /\ <<>> \in Starts
  /\ \A h \in ChordHeads : <<h>> \in Starts
  /\ "normal" \in Befores /\ "tree" \in Befores /\ "other" \in Befores
  /\ "none" \in Objects /\ "i" \in Objects /\ "a" \in Objects
  /\ "none" \in Firsts /\ "g" \in Firsts /\ "j" \in Firsts
  /\ "dap" \in DrawerPages /\ "other" \in DrawerPages
  /\ "closed" \in Lists /\ "files" \in Lists /\ "buffers" \in Lists /\ "grep" \in Lists /\ "help" \in Lists
  /\ "closed" \in Uis /\ "hover" \in Uis /\ "completion" \in Uis /\ "action" \in Uis /\ "rename" \in Uis
  /\ "none" \in Questions /\ "hover" \in Questions /\ "completion" \in Questions /\ "action" \in Questions
  /\ "editor" \in Focuses /\ "repl" \in Focuses
BY DEF Starts, Befores, Objects, Firsts, DrawerPages, Lists, Uis, Questions, Focuses

\* A state at rest has what a function may rely on.
LEMMA GoodIsBase ==
  ASSUME NEW s, Good(s) PROVE Base(s)
BY DEF Good, Base

\* ide_fsm_set_state keeps the types,
LEMMA SetStateType ==
  ASSUME NEW s \in State, NEW m \in Modes PROVE SetState(s, m) \in State
<1>1. Kept(s.mode) \in Befores BY Values DEF Kept
<1> QED BY <1>1, Values DEF SetState, State

\* sets the mode and ends the chord and the fields of the other modes,
LEMMA SetStateSets ==
  ASSUME NEW s \in State, NEW m
  PROVE  /\ SetState(s, m).mode = m
         /\ SetState(s, m).chord = <<>>
         /\ SetState(s, m).dEd => s.dEd /\ m = "drawer"
         /\ SetState(s, m).tEd => s.tEd /\ m = "tree"
BY DEF SetState, State

\* leaves what is shown as it is,
LEMMA SetStateKeeps ==
  ASSUME NEW s \in State, NEW m
  PROVE  /\ SetState(s, m).tree <=> s.tree
         /\ SetState(s, m).prompt <=> s.prompt
         /\ SetState(s, m).drawer <=> s.drawer
         /\ SetState(s, m).picker = s.picker
         /\ SetState(s, m).ui = s.ui
         /\ SetState(s, m).asked = s.asked
         /\ SetState(s, m).focus = s.focus
BY DEF SetState, State

\* and so brings the invariant back when what the mode needs is there. Not for
\* the leader, whose timer only the keys start.
LEMMA SetStateGood ==
  ASSUME NEW s, Base(s), NEW m \in Modes \ {"leader"}, Seen(s, m)
  PROVE  Good(SetState(s, m))
<1> DEFINE t == SetState(s, m)
<1>0. s \in State BY DEF Base
<1>1. t \in State BY SetStateType DEF Base
<1>a. /\ t.mode = m /\ t.chord = <<>>
      /\ t.dEd => m = "drawer"
      /\ t.tEd => s.tEd /\ m = "tree" BY <1>0, SetStateSets
<1>e. /\ (t.tree <=> s.tree) /\ (t.prompt <=> s.prompt) /\ (t.drawer <=> s.drawer)
      /\ t.picker = s.picker /\ t.ui = s.ui /\ t.asked = s.asked BY <1>0, SetStateKeeps
<1> HIDE DEF t
<1>2. Seen(t, m) BY <1>e DEF Seen
<1>3. Good(t) BY <1>1, <1>2, <1>a, <1>e DEF Good, Base, OneShown
<1> QED BY <1>3 DEF t

\* t differs from s in neither the mode and its fields nor in what is shown.
SameModes(s, t) ==
  /\ t.mode = s.mode /\ t.chord = s.chord
  /\ (t.tEd <=> s.tEd) /\ (t.dEd <=> s.dEd) /\ (t.prompt <=> s.prompt) /\ (t.timer <=> s.timer)
SameShown(s, t) ==
  /\ (t.tree <=> s.tree) /\ (t.drawer <=> s.drawer)
  /\ t.picker = s.picker /\ t.ui = s.ui /\ t.asked = s.asked

\* What a function that leaves the mode alone has to keep.
LEMMA GoodKept ==
  ASSUME NEW s, Good(s), NEW t \in State, t.mode = s.mode, t.chord = s.chord,
         t.tEd => s.tEd /\ t.prompt, t.dEd => s.dEd, t.timer <=> s.timer,
         Seen(t, s.mode), OneShown(t)
  PROVE  Good(t)
BY DEF Good

\* ide_lsp_manager_cancel_popover leaves no mode of a popover behind.
LEMMA CancelGood ==
  ASSUME NEW s, Good(s)
  PROVE  Good(Cancel(s)) /\ Cancel(s).asked = "none" /\ Cancel(s).ui = "closed"
<1> DEFINE t == [s EXCEPT !.asked = "none"]
           u == [t EXCEPT !.ui = "closed"]
<1>0. s \in State BY DEF Good
<1>1. t \in State /\ u \in State BY <1>0, Values DEF State
<1>2. /\ t.ui = s.ui /\ t.asked = "none" /\ t.mode = s.mode /\ t.chord = s.chord
      /\ (t.tEd <=> s.tEd) /\ (t.dEd <=> s.dEd) /\ (t.prompt <=> s.prompt) /\ (t.timer <=> s.timer)
      /\ (t.tree <=> s.tree) /\ (t.drawer <=> s.drawer) /\ t.picker = s.picker
  BY <1>0 DEF State
<1>3. /\ u.ui = "closed" /\ u.asked = "none" /\ u.mode = s.mode /\ u.chord = s.chord /\ u.prev = s.prev
      /\ (u.tEd <=> s.tEd) /\ (u.dEd <=> s.dEd) /\ (u.prompt <=> s.prompt) /\ (u.timer <=> s.timer)
      /\ (u.tree <=> s.tree) /\ (u.drawer <=> s.drawer) /\ u.picker = s.picker
  BY <1>0 DEF State
<1>4. Cancel(s) = IF t.ui = "closed" THEN t ELSE OnUiState(u, "closed") BY DEF Cancel, SetUi
<1>5. s.tEd => s.prompt BY DEF Good
<1>6. Seen(s, s.mode) BY DEF Good
<1> HIDE DEF t, u
<1>7. CASE s.ui = "closed"
  <2>1. Cancel(s) = t BY <1>4, <1>2, <1>7
  <2>2. Seen(t, s.mode) BY <1>2, <1>6 DEF Seen
  <2>3. OneShown(t) BY <1>2 DEF OneShown
  <2>4. Good(t) BY <1>1, <1>2, <1>5, <2>2, <2>3, GoodKept
  <2> QED BY <2>1, <2>4, <1>2, <1>7
<1>8. CASE s.ui # "closed" /\ s.mode \notin Popups
  <2>1. Cancel(s) = u BY <1>2, <1>3, <1>4, <1>8 DEF OnUiState, Popups
  <2>2. Seen(u, s.mode) BY <1>3, <1>6, <1>8 DEF Seen
  <2>3. OneShown(u) BY <1>3 DEF OneShown
  <2>4. Good(u) BY <1>1, <1>3, <1>5, <2>2, <2>3, GoodKept
  <2> QED BY <2>1, <2>4, <1>3
<1>9. CASE s.ui # "closed" /\ s.mode \in Popups
  <2>1. PICK m \in {"normal", "insert"} : Cancel(s) = SetState(u, m)
    BY <1>2, <1>3, <1>4, <1>9 DEF OnUiState, Popups
  <2>2. Base(u) BY <1>1, <1>3, <1>5 DEF Base, OneShown
  <2>3. m \in Modes \ {"leader"} /\ Seen(u, m) BY DEF Seen, Popups, Modes
  <2>4. Good(SetState(u, m)) BY <2>2, <2>3, SetStateGood
  <2>5. SetState(u, m).ui = "closed" /\ SetState(u, m).asked = "none" BY SetStateKeeps, <1>1, <1>3
  <2> QED BY <2>1, <2>4, <2>5
<1> QED BY <1>7, <1>8, <1>9

\* What changes neither keeps the invariant.
LEMMA GoodSame ==
  ASSUME NEW s, Good(s), NEW t \in State, SameModes(s, t), SameShown(s, t)
  PROVE  Good(t)
<1>1. Seen(t, s.mode) BY DEF Good, Seen, SameShown
<1>2. OneShown(t) BY DEF Good, OneShown, SameShown
<1>3. s.tEd => s.prompt BY DEF Good
<1> QED BY <1>1, <1>2, <1>3, GoodKept DEF SameModes

\* The same in the midst of a function.
LEMMA BaseSame ==
  ASSUME NEW s, Base(s), NEW t \in State, SameModes(s, t), SameShown(s, t)
  PROVE  Base(t)
BY DEF Base, OneShown, SameModes, SameShown

\* The focus goes to the text.
LEMMA OnEditorFacts ==
  ASSUME NEW s \in State
  PROVE  OnEditor(s) \in State /\ SameModes(s, OnEditor(s)) /\ SameShown(s, OnEditor(s))
<1>1. OnEditor(s) \in State BY Values DEF OnEditor, State
<1>2. SameModes(s, OnEditor(s)) BY DEF OnEditor, State, SameModes
<1>3. SameShown(s, OnEditor(s)) BY DEF OnEditor, State, SameShown
<1> QED BY <1>1, <1>2, <1>3

\* The focus is not part of what is shown,
LEMMA OnEditorGood ==
  ASSUME NEW s, Good(s) PROVE Good(OnEditor(s)) /\ OnEditor(s).mode = s.mode
<1>1. s \in State BY DEF Good
<1> QED BY <1>1, OnEditorFacts, GoodSame DEF SameModes

\* nor of what a function relies on.
LEMMA OnEditorBase ==
  ASSUME NEW s, Base(s) PROVE Base(OnEditor(s))
<1>1. s \in State BY DEF Base
<1> QED BY <1>1, OnEditorFacts, BaseSame

\* ide_window_show_drawer_page shows the drawer and leaves the mode alone.
LEMMA DrawerFacts ==
  ASSUME NEW s \in State, NEW p \in DrawerPages
  PROVE  /\ Drawer(s, p) \in State
         /\ SameModes(s, Drawer(s, p))
         /\ Drawer(s, p).drawer
         /\ (Drawer(s, p).tree <=> s.tree) /\ Drawer(s, p).picker = s.picker
         /\ Drawer(s, p).ui = s.ui /\ Drawer(s, p).asked = s.asked
<1>1. Drawer(s, p) \in State BY Values DEF Drawer, State
<1>2. SameModes(s, Drawer(s, p)) BY DEF Drawer, State, SameModes
<1>3. /\ Drawer(s, p).drawer
      /\ (Drawer(s, p).tree <=> s.tree) /\ Drawer(s, p).picker = s.picker
      /\ Drawer(s, p).ui = s.ui /\ Drawer(s, p).asked = s.asked BY DEF Drawer, State
<1> QED BY <1>1, <1>2, <1>3

\* The drawer goes, and the mode does not follow:
LEMMA NoDrawerFacts ==
  ASSUME NEW s \in State
  PROVE  /\ NoDrawer(s) \in State
         /\ SameModes(s, NoDrawer(s))
         /\ (NoDrawer(s).tree <=> s.tree) /\ NoDrawer(s).picker = s.picker
         /\ NoDrawer(s).ui = s.ui /\ NoDrawer(s).asked = s.asked
<1>1. NoDrawer(s) \in State BY Values DEF NoDrawer, State
<1>2. SameModes(s, NoDrawer(s)) BY DEF NoDrawer, State, SameModes
<1>3. /\ (NoDrawer(s).tree <=> s.tree) /\ NoDrawer(s).picker = s.picker
      /\ NoDrawer(s).ui = s.ui /\ NoDrawer(s).asked = s.asked BY DEF NoDrawer, State
<1> QED BY <1>1, <1>2, <1>3

\* that is right when the keys are elsewhere,
LEMMA NoDrawerGood ==
  ASSUME NEW s, Good(s), s.mode # "drawer" PROVE Good(NoDrawer(s))
<1>0. s \in State BY DEF Good
<1>1. Seen(NoDrawer(s), s.mode) BY <1>0, NoDrawerFacts DEF Good, Seen
<1>2. OneShown(NoDrawer(s)) BY <1>0, NoDrawerFacts DEF Good, OneShown
<1>3. s.tEd => s.prompt BY DEF Good
<1> QED BY <1>0, <1>1, <1>2, <1>3, NoDrawerFacts, GoodKept DEF SameModes

\* and to be made good otherwise.
LEMMA NoDrawerBase ==
  ASSUME NEW s, Base(s) PROVE Base(NoDrawer(s))
<1>0. s \in State BY DEF Base
<1> QED BY <1>0, NoDrawerFacts DEF SameModes, Base, OneShown

\* Another list in the picker, or none,
LEMMA PickerShownFacts ==
  ASSUME NEW s \in State, NEW p \in Lists
  PROVE  /\ PickerShown(s, p) \in State
         /\ SameModes(s, PickerShown(s, p))
         /\ PickerShown(s, p).picker = p
         /\ (PickerShown(s, p).tree <=> s.tree) /\ (PickerShown(s, p).drawer <=> s.drawer)
         /\ PickerShown(s, p).ui = s.ui /\ PickerShown(s, p).asked = s.asked
<1>1. PickerShown(s, p) \in State BY Values DEF PickerShown, State
<1>2. SameModes(s, PickerShown(s, p)) BY DEF PickerShown, State, SameModes
<1>3. /\ PickerShown(s, p).picker = p
      /\ (PickerShown(s, p).tree <=> s.tree) /\ (PickerShown(s, p).drawer <=> s.drawer)
      /\ PickerShown(s, p).ui = s.ui /\ PickerShown(s, p).asked = s.asked BY DEF PickerShown, State
<1> QED BY <1>1, <1>2, <1>3

\* which is right when the keys are not in the palette,
LEMMA PickerShownGood ==
  ASSUME NEW s, Good(s), NEW p \in Lists, s.mode = "help" => p = "help"
  PROVE  Good(PickerShown(s, p)) /\ PickerShown(s, p).mode = s.mode
<1> DEFINE t == PickerShown(s, p)
<1>0. s \in State BY DEF Good
<1>a. t \in State /\ SameModes(s, t) BY <1>0, PickerShownFacts
<1>b. /\ t.picker = p /\ (t.tree <=> s.tree) /\ (t.drawer <=> s.drawer)
      /\ t.ui = s.ui /\ t.asked = s.asked BY <1>0, PickerShownFacts
<1> HIDE DEF t
<1>1. Seen(t, s.mode) BY <1>b DEF Good, Seen
<1>2. OneShown(t) BY <1>b DEF Good, OneShown
<1>3. s.tEd => s.prompt BY DEF Good
<1>4. Good(t) /\ t.mode = s.mode BY <1>a, <1>1, <1>2, <1>3, GoodKept DEF SameModes
<1> QED BY <1>4 DEF t

\* and to be made good otherwise.
LEMMA PickerShownBase ==
  ASSUME NEW s, Base(s), NEW p \in Lists PROVE Base(PickerShown(s, p))
<1>0. s \in State BY DEF Base
<1>1. PickerShown(s, p) \in State BY <1>0, PickerShownFacts
<1> QED BY <1>0, <1>1, PickerShownFacts DEF SameModes, Base, OneShown

\* ide_tree_prompt_cancel ends typing in the tree.
LEMMA DropPromptGood ==
  ASSUME NEW s, Good(s)
  PROVE  Good(DropPrompt(s)) /\ DropPrompt(s).mode = s.mode /\ ~DropPrompt(s).tEd
<1> DEFINE t == [s EXCEPT !.prompt = FALSE, !.tEd = FALSE]
<1>0. s \in State BY DEF Good
<1>1. t \in State BY <1>0 DEF State
<1>2. /\ t.mode = s.mode /\ t.chord = s.chord /\ ~t.tEd /\ (t.dEd <=> s.dEd) /\ (t.timer <=> s.timer)
      /\ (t.tree <=> s.tree) /\ (t.drawer <=> s.drawer)
      /\ t.picker = s.picker /\ t.ui = s.ui /\ t.asked = s.asked BY <1>0 DEF State
<1> HIDE DEF t
<1>3. Seen(t, s.mode) BY <1>2 DEF Good, Seen
<1>4. OneShown(t) BY <1>2 DEF Good, OneShown
<1>5. Good(t) BY <1>1, <1>2, <1>3, <1>4, GoodKept
<1>6. CASE s.tEd \/ s.prompt
  <2>1. DropPrompt(s) = t BY <1>6 DEF DropPrompt, t
  <2> QED BY <2>1, <1>5, <1>2
<1>7. CASE ~(s.tEd \/ s.prompt) BY <1>7 DEF DropPrompt
<1> QED BY <1>6, <1>7

\* A cursor that moves takes a hover card with it.
LEMMA CursorMovesGood ==
  ASSUME NEW s, Good(s), NEW t \in CursorMoves(s) PROVE Good(t)
BY CancelGood DEF CursorMoves

\* From a state whose mode may have nothing to show, only the popovers matter.
LEMMA CancelBase ==
  ASSUME NEW s, Base(s) PROVE Base(Cancel(s))
<1> DEFINE t == [s EXCEPT !.asked = "none"]
           u == [t EXCEPT !.ui = "closed"]
<1>0. s \in State BY DEF Base
<1>1. t \in State /\ u \in State BY <1>0, Values DEF State
<1>2. /\ t.asked = "none" /\ (t.tEd <=> s.tEd) /\ (t.prompt <=> s.prompt)
      /\ u.asked = "none" /\ (u.tEd <=> s.tEd) /\ (u.prompt <=> s.prompt)
  BY <1>0 DEF State
<1>3. Base(t) /\ Base(u) BY <1>1, <1>2 DEF Base, OneShown
<1>4. Cancel(s) = IF t.ui = "closed" THEN t ELSE OnUiState(u, "closed") BY DEF Cancel, SetUi
<1> HIDE DEF t, u
<1>5. Cancel(s) = t \/ Cancel(s) = u \/ \E m \in {"normal", "insert"} : Cancel(s) = SetState(u, m)
  BY <1>4 DEF OnUiState
<1>6. ASSUME NEW m \in {"normal", "insert"} PROVE Base(SetState(u, m))
  <2>1. m \in Modes \ {"leader"} /\ Seen(u, m) BY DEF Seen, Popups, Modes
  <2>2. Good(SetState(u, m)) BY <2>1, <1>3, SetStateGood
  <2> QED BY <2>2, GoodIsBase
<1> QED BY <1>3, <1>5, <1>6

\* Opening a file ends in NORMAL from wherever it began.
LEMMA OnOpenFileGood ==
  ASSUME NEW s, Base(s), NEW t \in OnOpenFile(s) PROVE Good(t) /\ t.mode = "normal"
<1>1. Base(OnEditor(s)) BY OnEditorBase
<1>2. PICK u \in CursorMoves(OnEditor(s)) : t = SetState(u, "normal") BY DEF OnOpenFile, OpenPath
<1>3. Base(u) BY <1>1, <1>2, CancelBase DEF CursorMoves
<1>4. "normal" \in Modes \ {"leader"} /\ Seen(u, "normal") BY DEF Seen, Popups, Modes
<1>5. u \in State BY <1>3 DEF Base
<1> QED BY <1>2, <1>3, <1>4, <1>5, SetStateGood, SetStateSets

\* A popover opens over none.
LEMMA SetUiGood ==
  ASSUME NEW s, Good(s), s.asked = "none", NEW u \in {"hover", "completion", "action", "rename"}
  PROVE  Good(SetUi(s, u))
<1> DEFINE t == [s EXCEPT !.ui = u]
<1>0. s \in State BY DEF Good
<1>1. t \in State BY <1>0, Values DEF State
<1>2. t.asked = s.asked /\ t.ui = u /\ (t.tEd <=> s.tEd) /\ (t.prompt <=> s.prompt) BY <1>0, Values DEF State
<1>3. SetUi(s, u) = IF s.ui = u THEN s ELSE SetState(t, ModeOf(u)) BY DEF SetUi, OnUiState
<1> HIDE DEF t
<1>4. Base(t) BY <1>1, <1>2 DEF Base, Good, OneShown
<1>5. ModeOf(u) \in Modes \ {"leader"} /\ Seen(t, ModeOf(u)) BY <1>2 DEF ModeOf, Modes, Seen
<1>6. Good(SetState(t, ModeOf(u))) BY <1>4, <1>5, SetStateGood
<1> QED BY <1>3, <1>6

\* A question is asked while no popover is there.
LEMMA AskedGood ==
  ASSUME NEW s, Good(s), s.ui = "closed", NEW a \in Questions
  PROVE  Good([s EXCEPT !.asked = a])
<1> DEFINE t == [s EXCEPT !.asked = a]
<1>0. s \in State BY DEF Good
<1>1. t \in State BY <1>0 DEF State
<1>2. SameModes(s, t) BY <1>0 DEF SameModes, State
<1>3. /\ (t.tree <=> s.tree) /\ (t.drawer <=> s.drawer)
      /\ t.picker = s.picker /\ t.ui = s.ui BY <1>0 DEF State
<1> HIDE DEF t
<1>4. Seen(t, s.mode) BY <1>3 DEF Good, Seen
<1>5. OneShown(t) BY <1>3 DEF OneShown
<1>6. s.tEd => s.prompt BY DEF Good
<1>7. Good(t) BY <1>1, <1>2, <1>4, <1>5, <1>6, GoodKept DEF SameModes
<1> QED BY <1>7 DEF t

\* Each request closes the popover that is there before it asks or shows:
\* that of the hover card,
LEMMA RequestHoverGood ==
  ASSUME NEW s, Good(s), NEW t \in RequestHover(s) PROVE Good(t)
<1> DEFINE c == Cancel(s)
<1>1. Good(c) /\ c.asked = "none" /\ c.ui = "closed" BY CancelGood
<1> HIDE DEF c
<1>2. Good([c EXCEPT !.asked = "hover"]) BY <1>1, AskedGood, Values
<1>3. Good(SetUi(c, "hover")) BY <1>1, SetUiGood
<1> QED BY <1>1, <1>2, <1>3 DEF RequestHover, c

\* of the completion,
LEMMA RequestCompletionGood ==
  ASSUME NEW s, Good(s), NEW t \in RequestCompletion(s) PROVE Good(t)
<1> DEFINE c == Cancel(s)
<1>1. Good(c) /\ c.asked = "none" /\ c.ui = "closed" BY CancelGood
<1> HIDE DEF c
<1>2. Good([c EXCEPT !.asked = "completion"]) BY <1>1, AskedGood, Values
<1>3. Good(SetUi(c, "completion")) BY <1>1, SetUiGood
<1> QED BY <1>1, <1>2, <1>3 DEF RequestCompletion, c

\* of the code actions,
LEMMA RequestCodeActionsGood ==
  ASSUME NEW s, Good(s), NEW t \in RequestCodeActions(s) PROVE Good(t)
<1> DEFINE c == Cancel(s)
<1>1. Good(c) /\ c.ui = "closed" BY CancelGood
<1> HIDE DEF c
<1>2. Good([c EXCEPT !.asked = "action"]) BY <1>1, AskedGood, Values
<1> QED BY <1>1, <1>2 DEF RequestCodeActions, c

\* and the field for a new name.
LEMMA RenameBeginGood ==
  ASSUME NEW s, Good(s), NEW t \in RenameBegin(s) PROVE Good(t)
BY CancelGood, SetUiGood DEF RenameBegin

\* So what arrives late opens over none.
LEMMA AnsweredGood ==
  ASSUME NEW s, Good(s), NEW t \in Answered(s) PROVE Good(t)
<1> DEFINE heard == [s EXCEPT !.asked = "none"]
<1>1. s.asked # "none" BY DEF Answered
<1>2. s.ui = "closed" BY <1>1 DEF Good, OneShown
<1>3. Good(heard) BY <1>2, AskedGood, Values
<1>4. heard.asked = "none" BY DEF Good, State
<1>5. t = SetUi(Cancel(heard), "hover") \/ t = heard \/ t = SetUi(heard, "completion") \/ t = SetUi(heard, "action")
  BY DEF Answered
<1> HIDE DEF heard
<1>6. Good(SetUi(heard, "completion")) /\ Good(SetUi(heard, "action")) BY <1>3, <1>4, SetUiGood
<1>7. Good(SetUi(Cancel(heard), "hover")) BY <1>3, CancelGood, SetUiGood
<1> QED BY <1>3, <1>5, <1>6, <1>7

\* Edits move the cursor and go on with a completion.
LEMMA EditGood ==
  ASSUME NEW s, Good(s), NEW act, NEW t \in Edit(s, act) PROVE Good(t)
<1>1. CASE act \in {"INSERT_CHAR", "BACKSPACE"}
  <2>1. PICK u \in CursorMoves(s) : t \in AfterTyping(s, u, act) BY <1>1 DEF Edit
  <2>2. Good(u) BY CursorMovesGood
  <2>3. t = u \/ t \in RequestCompletion(u) BY <2>1 DEF AfterTyping
  <2> QED BY <2>2, <2>3, RequestCompletionGood
<1>2. CASE act \notin {"INSERT_CHAR", "BACKSPACE"} BY <1>2, CursorMovesGood DEF Edit
<1> QED BY <1>1, <1>2

\* A chord that runs out ends in NORMAL.
LEMMA ExpireLeaderGood ==
  ASSUME NEW s \in State, s.dEd => s.mode = "drawer", s.tEd => s.mode = "tree", OneShown(s), s.mode = "leader"
  PROVE  Good(ExpireLeader(s))
<1> DEFINE t == ExpireLeader(s)
<1>1. t \in State BY Values DEF ExpireLeader, State, Modes
<1>2. t.mode = "normal" /\ t.chord = <<>> /\ t.ui = s.ui /\ t.asked = s.asked BY DEF ExpireLeader, State
<1>3. ~t.dEd /\ ~t.tEd BY DEF ExpireLeader, State
<1> HIDE DEF t
<1>4. Seen(t, t.mode) BY <1>2 DEF Seen, Popups
<1>5. Good(t) BY <1>1, <1>2, <1>3, <1>4 DEF Good, OneShown
<1> QED BY <1>5 DEF t

-----------------------------------------------------------------------------
(* What the first half of a key leaves to the second.                      *)

\* Actions that show what the mode before them needs already.
OpenTree == {"TOGGLE_FILE_TREE", "PANE_FOCUS_TREE"}
OpenDrawer == {"TOGGLE_DRAWER", "PANE_FOCUS_DRAWER", "REPLACE_OPEN", "PROJECT_REPLACE_OPEN",
               "DAP_TOGGLE_VIEW", "AGENT_REVIEW_OPEN"}
Creates == {"TREE_CREATE_FILE", "TREE_CREATE_DIR"}

\* Actions that open or close a list, after the mode has left it.
EndList == {"PICKER_OPEN_FILES", "PICKER_OPEN_BUFFERS", "PICKER_OPEN_GREP", "PICKER_CANCEL",
            "HELP_CANCEL", "PICKER_SELECT", "HELP_SELECT"}

\* What the mode needs is there, or the action is one that shows it.
Promised(s, act) ==
  /\ s.mode = "tree" => s.tree \/ act \in OpenTree
  /\ s.mode = "drawer" => s.drawer \/ act \in OpenDrawer
  /\ s.mode = "help" => s.picker = "help" \/ act = "HELP_TOGGLE"
  /\ s.mode \in Popups => s.mode = ModeOf(s.ui)
  /\ s.tEd => s.mode = "tree" /\ (s.prompt \/ act \in Creates)

\* The action fits the mode: none takes away what the mode needs.
Fitting(s, act) ==
  /\ act = "DRAWER_CLOSE" => s.mode # "drawer"
  /\ act \in EndList => s.mode # "help"
  /\ act = "LSP_SELECT_NUMBER" => s.ui = "action"

\* A state and the action that is carried out in it.
Owed(s, act) ==
  /\ s \in State
  /\ Promised(s, act)
  /\ Fitting(s, act)
  /\ s.dEd => s.mode = "drawer"
  /\ s.chord # <<>> => s.mode = "leader"
  /\ s.mode = "leader" => s.timer
  /\ OneShown(s)

\* Actions that have something to make good.
Openings == OpenTree \cup OpenDrawer \cup Creates \cup {"HELP_TOGGLE"}

\* Before any other action the state is good,
LEMMA OwedGood ==
  ASSUME NEW s, NEW act, act \notin Openings, Owed(s, act) PROVE Good(s)
<1>1. act \notin OpenTree /\ act \notin OpenDrawer /\ act \notin Creates /\ act # "HELP_TOGGLE" BY DEF Openings
<1> QED BY <1>1 DEF Owed, Promised, Good, Seen

\* and in a good state any action may follow that fits.
LEMMA GoodOwed ==
  ASSUME NEW s, Good(s), NEW act, Fitting(s, act) PROVE Owed(s, act)
BY DEF Owed, Promised, Good, Seen

\* An action that brings the pane the mode needs makes good what is owed.
LEMMA OwedKept ==
  ASSUME NEW s, NEW act, Owed(s, act), act \notin Creates, NEW t \in State,
         SameModes(s, t), Seen(t, s.mode), OneShown(t)
  PROVE  Good(t)
BY DEF Owed, Promised, Good, SameModes

-----------------------------------------------------------------------------
(* Each action makes good what is owed.                                    *)

\* The tree is shown.
LEMMA TreeShownFacts ==
  ASSUME NEW s \in State, NEW b \in BOOLEAN
  PROVE  LET t == [s EXCEPT !.tree = b] IN
         /\ t \in State /\ SameModes(s, t) /\ (t.tree <=> b) /\ (t.drawer <=> s.drawer)
         /\ t.picker = s.picker /\ t.ui = s.ui /\ t.asked = s.asked
<1> DEFINE t == [s EXCEPT !.tree = b]
<1>1. t \in State BY DEF State
<1>2. SameModes(s, t) BY DEF State, SameModes
<1>3. (t.tree <=> b) /\ (t.drawer <=> s.drawer)
         /\ t.picker = s.picker /\ t.ui = s.ui /\ t.asked = s.asked BY DEF State
<1> QED BY <1>1, <1>2, <1>3

\* PANE_FOCUS_TREE,
LEMMA OpenTreeGood ==
  ASSUME NEW s, NEW act \in OpenTree, Owed(s, act)
  PROVE  Good([s EXCEPT !.tree = TRUE])
<1> DEFINE t == [s EXCEPT !.tree = TRUE]
<1>0. s \in State BY DEF Owed
<1>1. /\ t \in State /\ SameModes(s, t) /\ t.tree /\ (t.drawer <=> s.drawer)
      /\ t.picker = s.picker /\ t.ui = s.ui /\ t.asked = s.asked BY <1>0, TreeShownFacts
<1> HIDE DEF t
<1>2. act \notin OpenDrawer /\ act # "HELP_TOGGLE" /\ act \notin Creates BY DEF OpenTree, OpenDrawer, Creates
<1>3. Seen(t, s.mode) BY <1>1, <1>2 DEF Owed, Promised, Seen
<1>4. OneShown(t) BY <1>1 DEF Owed, OneShown
<1>5. Good(t) BY <1>1, <1>2, <1>3, <1>4, OwedKept
<1> QED BY <1>5 DEF t

\* TOGGLE_FILE_TREE, which hides the tree only when the keys are elsewhere,
LEMMA ToggleTreeGood ==
  ASSUME NEW s, Owed(s, "TOGGLE_FILE_TREE") PROVE Good(ToggleTree(s))
<1>0. s \in State BY DEF Owed
<1>1. CASE s.mode = "tree" BY <1>1, OpenTreeGood DEF ToggleTree, OpenTree
<1>2. CASE s.mode # "tree"
  <2> DEFINE t == [s EXCEPT !.tree = ~@]
  <2>0. (~s.tree) \in BOOLEAN /\ t = [s EXCEPT !.tree = ~s.tree] BY <1>0 DEF State
  <2>1. /\ t \in State /\ SameModes(s, t) /\ (t.drawer <=> s.drawer)
      /\ t.picker = s.picker /\ t.ui = s.ui /\ t.asked = s.asked BY <1>0, <2>0, TreeShownFacts
  <2>2. ToggleTree(s) = OnEditor(t) BY <1>2 DEF ToggleTree
  <2> HIDE DEF t
  <2>3. Seen(t, s.mode) BY <2>1, <1>2 DEF Owed, Promised, Seen, OpenDrawer
  <2>4. OneShown(t) BY <2>1 DEF Owed, OneShown
  <2>5. Good(t) BY <2>1, <2>3, <2>4, OwedKept DEF Creates
  <2> QED BY <2>2, <2>5, OnEditorGood
<1> QED BY <1>1, <1>2

\* the actions that show a page of the drawer,
LEMMA DrawerGood ==
  ASSUME NEW s, NEW act, act \notin OpenTree \cup Creates \cup {"HELP_TOGGLE"}, Owed(s, act), NEW p \in DrawerPages
  PROVE  Good(Drawer(s, p))
<1> DEFINE t == Drawer(s, p)
<1>0. s \in State BY DEF Owed
<1>1. /\ t \in State /\ SameModes(s, t) /\ t.drawer /\ (t.tree <=> s.tree)
      /\ t.picker = s.picker /\ t.ui = s.ui /\ t.asked = s.asked BY <1>0, DrawerFacts
<1> HIDE DEF t
<1>2. act \notin OpenTree /\ act # "HELP_TOGGLE" /\ act \notin Creates OBVIOUS
<1>3. Seen(t, s.mode) BY <1>1, <1>2 DEF Owed, Promised, Seen
<1>4. OneShown(t) BY <1>1 DEF Owed, OneShown
<1>5. Good(t) BY <1>1, <1>2, <1>3, <1>4, OwedKept
<1> QED BY <1>5 DEF t

\* PANE_FOCUS_DRAWER,
LEMMA FocusDrawerGood ==
  ASSUME NEW s, Owed(s, "PANE_FOCUS_DRAWER")
  PROVE  Good([s EXCEPT !.drawer = TRUE])
<1> DEFINE t == [s EXCEPT !.drawer = TRUE]
<1>0. s \in State BY DEF Owed
<1>1. t \in State BY <1>0 DEF State
<1>a. SameModes(s, t) BY <1>0 DEF State, SameModes
<1>b. /\ t.drawer /\ (t.tree <=> s.tree)
      /\ t.picker = s.picker /\ t.ui = s.ui /\ t.asked = s.asked BY <1>0 DEF State
<1> HIDE DEF t
<1>3. Seen(t, s.mode) BY <1>b DEF Owed, Promised, Seen, OpenTree
<1>4. OneShown(t) BY <1>b DEF Owed, OneShown
<1>5. Good(t) BY <1>1, <1>a, <1>3, <1>4, OwedKept DEF Creates
<1> QED BY <1>5 DEF t

\* and TOGGLE_DRAWER, which hides it only when the keys are elsewhere.
LEMMA ToggleDrawerGood ==
  ASSUME NEW s, Owed(s, "TOGGLE_DRAWER") PROVE Good(ToggleDrawer(s))
<1>1. CASE ~s.drawer
  <2>1. ToggleDrawer(s) = Drawer(s, "other") BY <1>1 DEF ToggleDrawer
  <2> QED BY <2>1, DrawerGood, Values DEF OpenTree, Creates
<1>2. CASE s.drawer
  <2>1. Good(s) BY <1>2 DEF Owed, Promised, Good, Seen, OpenTree, Creates
  <2>2. ToggleDrawer(s) = IF s.mode # "drawer" THEN NoDrawer(s) ELSE s BY <1>2 DEF ToggleDrawer
  <2> QED BY <2>1, <2>2, NoDrawerGood
<1> QED BY <1>1, <1>2

\* ide_fsm_set_state to a mode whose pane is there.
LEMMA SetStateShown ==
  ASSUME NEW s, Good(s), NEW m \in {"normal", "tree", "drawer"}, m = "tree" => s.tree, m = "drawer" => s.drawer
  PROVE  Good(SetState(s, m)) /\ SetState(s, m).mode = m
<1>1. m \in Modes \ {"leader"} /\ Seen(s, m) BY DEF Modes, Seen, Popups
<1>2. Base(s) /\ s \in State BY DEF Base, Good
<1> QED BY <1>1, <1>2, SetStateGood, SetStateSets

\* Ctrl+W goes to panes that are shown,
LEMMA PaneCycleGood ==
  ASSUME NEW s, Good(s) PROVE Good(PaneCycle(s))
<1>0. s \in State BY DEF Good
<1> DEFINE d == DropPrompt(s)
<1>1. Good(d) BY DropPromptGood
<1>2. d.drawer <=> s.drawer BY <1>0 DEF DropPrompt, State
<1> HIDE DEF d
<1>3. Good(SetState(d, IF s.drawer THEN "drawer" ELSE "normal")) BY <1>1, <1>2, SetStateShown
<1>4. Good(SetState(s, "normal")) BY SetStateShown
<1>5. s.tree => Good(SetState(s, "tree")) BY SetStateShown
<1>6. s.drawer => Good(SetState(s, "drawer")) BY SetStateShown
<1>7. PaneCycle(s) \in {SetState(d, IF s.drawer THEN "drawer" ELSE "normal"), SetState(s, "normal"), s}
       \/ (s.tree /\ PaneCycle(s) = SetState(s, "tree"))
       \/ (s.drawer /\ PaneCycle(s) = SetState(s, "drawer"))
  BY DEF PaneCycle, d
<1> QED BY <1>3, <1>4, <1>5, <1>6, <1>7

\* as do all actions of the panes.
LEMMA OnPaneGood ==
  ASSUME NEW s, NEW act \in Panes, Owed(s, act), NEW t \in OnPane(s, act) PROVE Good(t)
<1>1. CASE act = "TOGGLE_FILE_TREE" BY <1>1, ToggleTreeGood DEF OnPane
<1>2. CASE act = "PANE_FOCUS_TREE"
  <2>1. t = [s EXCEPT !.tree = TRUE] BY <1>2 DEF OnPane
  <2> QED BY <1>2, <2>1, OpenTreeGood DEF OpenTree
<1>3. CASE act = "PANE_FOCUS_BUFFER"
  <2>1. Good(s) BY <1>3, OwedGood DEF Openings, OpenTree, OpenDrawer, Creates
  <2>2. t = OnEditor(DropPrompt(s)) BY <1>3 DEF OnPane
  <2> QED BY <2>1, <2>2, OnEditorGood, DropPromptGood
<1>4. CASE act = "PANE_FOCUS_DRAWER"
  <2>1. t = [s EXCEPT !.drawer = TRUE] BY <1>4 DEF OnPane
  <2> QED BY <1>4, <2>1, FocusDrawerGood
<1>5. CASE act = "PANE_CYCLE"
  <2>1. Good(s) BY <1>5, OwedGood DEF Openings, OpenTree, OpenDrawer, Creates
  <2>2. t = OnEditor(PaneCycle(s)) BY <1>5 DEF OnPane
  <2> QED BY <2>1, <2>2, OnEditorGood, PaneCycleGood
<1>6. CASE act = "TOGGLE_DRAWER" BY <1>6, ToggleDrawerGood DEF OnPane
<1>7. CASE act = "DRAWER_CLOSE"
  <2>1. Good(s) BY <1>7, OwedGood DEF Openings, OpenTree, OpenDrawer, Creates
  <2>2. t = NoDrawer(s) BY <1>7 DEF OnPane
  <2>3. s.mode # "drawer" BY <1>7 DEF Owed, Fitting
  <2> QED BY <2>1, <2>2, <2>3, NoDrawerGood
<1>8. CASE act = "DRAWER_JUMP"
  <2>1. Good(s) BY <1>8, OwedGood DEF Openings, OpenTree, OpenDrawer, Creates
  <2>2. PICK u \in {s} \cup OnOpenFile(s) : t = OnEditor(u) BY <1>8 DEF OnPane
  <2> QED BY <2>1, <2>2, GoodIsBase, OnOpenFileGood, OnEditorGood
<1> QED BY <1>1, <1>2, <1>3, <1>4, <1>5, <1>6, <1>7, <1>8 DEF Panes

\* Typing in the palette.
LEMMA QueryGood ==
  ASSUME NEW s, Good(s), NEW b \in BOOLEAN PROVE Good([s EXCEPT !.query = b])
<1> DEFINE t == [s EXCEPT !.query = b]
<1>0. s \in State BY DEF Good
<1>1. t \in State BY <1>0 DEF State
<1>2. SameModes(s, t) BY <1>0 DEF State, SameModes
<1>3. SameShown(s, t) BY <1>0 DEF State, SameShown
<1> QED BY <1>1, <1>2, <1>3, GoodSame

\* F1 opens the palette with its mode, and closes both.
LEMMA HelpToggleGood ==
  ASSUME NEW s, Base(s) PROVE Good(HelpToggle(s))
<1>1. Base(PickerClosed(s)) BY PickerShownBase, Values DEF PickerClosed
<1>2. "normal" \in Modes \ {"leader"} /\ Seen(PickerClosed(s), "normal") BY DEF Modes, Seen, Popups
<1>3. Good(SetState(PickerClosed(s), "normal")) BY <1>1, <1>2, SetStateGood
<1> DEFINE u == SetState(s, "help")
           t == PickerShown(u, "help")
<1>4. s \in State BY DEF Base
<1>5. u \in State BY <1>4, SetStateType DEF Modes
<1>6. t \in State /\ SameModes(u, t) BY <1>5, PickerShownFacts, Values
<1>7. t.picker = "help" /\ t.ui = u.ui /\ t.asked = u.asked BY <1>5, PickerShownFacts, Values
<1>8. /\ u.mode = "help" /\ u.chord = <<>>
      /\ u.dEd => FALSE
      /\ u.tEd => FALSE BY <1>4, SetStateSets
<1>9. u.ui = s.ui /\ u.asked = s.asked BY <1>4, SetStateKeeps
<1> HIDE DEF u, t
<1>10. Seen(t, t.mode) BY <1>6, <1>7, <1>8 DEF Seen, SameModes, Popups
<1>11. OneShown(t) BY <1>7, <1>9 DEF OneShown, Base
<1>12. Good(t) BY <1>6, <1>8, <1>10, <1>11 DEF Good, SameModes
<1> QED BY <1>3, <1>12 DEF HelpToggle, t, u

\* The actions of the lists.
LEMMA OnPickerGood ==
  ASSUME NEW s, NEW act \in Pickers, Owed(s, act), NEW t \in OnPicker(s, act) PROVE Good(t)
<1>1. CASE act \in {"PICKER_OPEN_FILES", "PICKER_OPEN_BUFFERS", "PICKER_OPEN_GREP"}
  <2>1. Good(s) BY <1>1, OwedGood DEF Openings, OpenTree, OpenDrawer, Creates
  <2>2. s.mode # "help" BY <1>1 DEF Owed, Fitting, EndList
  <2>3. PICK p \in Lists : t = PickerShown(s, p) BY <1>1, Values DEF OnPicker
  <2> QED BY <2>1, <2>2, <2>3, PickerShownGood
<1>2. CASE act = "HELP_TOGGLE"
  <2>1. t = HelpToggle(s) BY <1>2 DEF OnPicker
  <2>2. Base(s) BY <1>2 DEF Owed, Promised, Base, Creates
  <2> QED BY <2>1, <2>2, HelpToggleGood
<1>3. CASE act \in {"PICKER_CANCEL", "HELP_CANCEL"}
  <2>1. Good(s) BY <1>3, OwedGood DEF Openings, OpenTree, OpenDrawer, Creates
  <2>2. s.mode # "help" BY <1>3 DEF Owed, Fitting, EndList
  <2>3. t = OnEditor(PickerShown(s, "closed")) BY <1>3 DEF OnPicker, PickerClosed
  <2> QED BY <2>1, <2>2, <2>3, PickerShownGood, OnEditorGood, Values
<1>4. CASE act \notin {"PICKER_OPEN_FILES", "PICKER_OPEN_BUFFERS", "PICKER_OPEN_GREP", "HELP_TOGGLE",
                       "PICKER_CANCEL", "HELP_CANCEL"}
  <2>1. Good(s) BY <1>4, OwedGood DEF Openings, OpenTree, OpenDrawer, Creates, Pickers
  <2>2. t = s \/ t = [s EXCEPT !.query = s.picker = "help"] \/ t = [s EXCEPT !.query = FALSE]
    BY <1>4 DEF OnPicker
  <2>3. (s.picker = "help") \in BOOLEAN OBVIOUS
  <2> QED BY <2>1, <2>2, <2>3, QueryGood
<1> QED BY <1>1, <1>2, <1>3, <1>4

\* A file to create: the tree is shown and has the keys for its name.
LEMMA CreateGood ==
  ASSUME NEW s \in State, OneShown(s)
  PROVE  Good([SetState([s EXCEPT !.tree = TRUE], "tree") EXCEPT !.tEd = TRUE, !.prompt = TRUE])
<1> DEFINE u == [s EXCEPT !.tree = TRUE]
           v == SetState(u, "tree")
           t == [v EXCEPT !.tEd = TRUE, !.prompt = TRUE]
<1>1. u \in State /\ u.tree /\ u.ui = s.ui /\ u.asked = s.asked BY TreeShownFacts
<1> HIDE DEF u
<1>2. v \in State BY <1>1, SetStateType DEF Modes
<1>3. /\ v.mode = "tree" /\ v.chord = <<>>
      /\ v.dEd => FALSE BY <1>1, SetStateSets
<1>4. (v.tree <=> u.tree) /\ v.ui = u.ui /\ v.asked = u.asked BY <1>1, SetStateKeeps
<1> HIDE DEF v
<1>5. t \in State BY <1>2 DEF State
<1>6. /\ t.mode = v.mode /\ t.chord = v.chord /\ (t.dEd <=> v.dEd) /\ t.tEd /\ t.prompt
      /\ (t.tree <=> v.tree) /\ t.ui = v.ui /\ t.asked = v.asked BY <1>2 DEF State
<1> HIDE DEF t
<1>7. Seen(t, t.mode) BY <1>1, <1>3, <1>4, <1>6 DEF Seen, Popups
<1>8. OneShown(t) BY <1>1, <1>4, <1>6 DEF OneShown
<1>9. Good(t) BY <1>3, <1>5, <1>6, <1>7, <1>8 DEF Good
<1> QED BY <1>9 DEF t, v, u

\* The actions of the tree.
LEMMA OnTreeGood ==
  ASSUME NEW s, NEW act \in Trees, Owed(s, act), NEW t \in OnTree(s, act) PROVE Good(t)
<1>1. CASE act \in Creates
  <2>1. t = [SetState([s EXCEPT !.tree = TRUE], "tree") EXCEPT !.tEd = TRUE, !.prompt = TRUE]
    BY <1>1 DEF OnTree, Creates
  <2> QED BY <2>1, CreateGood DEF Owed
<1>2. CASE act \notin Creates
  <2>1. Good(s) BY <1>2, OwedGood DEF Openings, OpenTree, OpenDrawer, Trees
  <2>2. t = s \/ t \in OnOpenFile(s) BY <1>2 DEF OnTree, Creates
  <2> QED BY <2>1, <2>2, OnOpenFileGood, GoodIsBase
<1> QED BY <1>1, <1>2

\* NORMAL needs nothing.
LEMMA ToNormal ==
  ASSUME NEW s \in State, OneShown(s)
  PROVE  Good(SetState(s, "normal")) /\ SetState(s, "normal").mode = "normal"
<1> DEFINE t == SetState(s, "normal")
<1>1. t \in State BY SetStateType DEF Modes
<1>2. /\ t.mode = "normal" /\ t.chord = <<>>
      /\ t.dEd => FALSE
      /\ t.tEd => FALSE BY SetStateSets
<1>3. t.ui = s.ui /\ t.asked = s.asked BY SetStateKeeps
<1> HIDE DEF t
<1>4. Seen(t, "normal") BY DEF Seen, Popups
<1>5. Good(t) BY <1>1, <1>2, <1>3, <1>4 DEF Good, OneShown
<1> QED BY <1>2, <1>5 DEF t

\* Typing in the tree ends,
LEMMA NotTypingGood ==
  ASSUME NEW s, Good(s)
  PROVE  Good([s EXCEPT !.tEd = FALSE]) /\ [s EXCEPT !.tEd = FALSE].mode = s.mode
<1> DEFINE t == [s EXCEPT !.tEd = FALSE]
<1>0. s \in State BY DEF Good
<1>1. t \in State BY <1>0 DEF State
<1>2. /\ t.mode = s.mode /\ t.chord = s.chord /\ ~t.tEd /\ (t.dEd <=> s.dEd) /\ (t.timer <=> s.timer)
      /\ (t.tree <=> s.tree) /\ (t.drawer <=> s.drawer)
      /\ t.picker = s.picker /\ t.ui = s.ui /\ t.asked = s.asked BY <1>0 DEF State
<1> HIDE DEF t
<1>3. Seen(t, s.mode) BY <1>2 DEF Good, Seen
<1>4. OneShown(t) BY <1>2 DEF Good, OneShown
<1>5. Good(t) BY <1>1, <1>2, <1>3, <1>4, GoodKept
<1> QED BY <1>2, <1>5 DEF t

\* whether the file that was named is opened or not.
LEMMA PromptDone ==
  ASSUME NEW s, Good(s), s.mode = "tree",
         NEW u \in {[s EXCEPT !.prompt = FALSE]} \cup OnOpenFile([s EXCEPT !.prompt = FALSE])
  PROVE  Good([u EXCEPT !.tEd = FALSE]) /\ [u EXCEPT !.tEd = FALSE].mode \in {"tree", "normal"}
<1> DEFINE p == [s EXCEPT !.prompt = FALSE]
<1>0. s \in State BY DEF Good
<1>1. p \in State BY <1>0 DEF State
<1>2. /\ p.mode = s.mode /\ p.chord = s.chord /\ (p.tEd <=> s.tEd) /\ (p.dEd <=> s.dEd) /\ (p.timer <=> s.timer)
      /\ (p.tree <=> s.tree) /\ (p.drawer <=> s.drawer)
      /\ p.picker = s.picker /\ p.ui = s.ui /\ p.asked = s.asked BY <1>0 DEF State
<1> HIDE DEF p
<1>3. OneShown(p) BY <1>2 DEF Good, OneShown
<1>4. CASE u = p
  <2> DEFINE t == [p EXCEPT !.tEd = FALSE]
  <2>1. t \in State BY <1>1 DEF State
  <2>2. /\ t.mode = p.mode /\ t.chord = p.chord /\ ~t.tEd /\ (t.dEd <=> p.dEd) /\ (t.timer <=> p.timer)
        /\ (t.tree <=> p.tree) /\ (t.drawer <=> p.drawer)
        /\ t.picker = p.picker /\ t.ui = p.ui /\ t.asked = p.asked BY <1>1 DEF State
  <2> HIDE DEF t
  <2>3. Seen(t, s.mode) BY <1>2, <2>2 DEF Good, Seen
  <2>4. OneShown(t) BY <1>3, <2>2 DEF OneShown
  <2>5. Good(t) BY <1>2, <2>1, <2>2, <2>3, <2>4, GoodKept
  <2> QED BY <1>2, <1>4, <2>2, <2>5 DEF t
<1>5. CASE u \in OnOpenFile(p)
  <2>1. OnEditor(p) \in State /\ SameModes(p, OnEditor(p)) /\ SameShown(p, OnEditor(p)) BY <1>1, OnEditorFacts
  <2>2. OnEditor(p).mode = "tree" BY <1>2, <2>1 DEF SameModes
  <2>3. u = SetState(OnEditor(p), "normal") BY <1>5, <2>2 DEF OnOpenFile, OpenPath, CursorMoves
  <2>4. OneShown(OnEditor(p)) BY <1>3, <2>1 DEF OneShown, SameShown
  <2>5. Good(u) /\ u.mode = "normal" BY <2>1, <2>3, <2>4, ToNormal
  <2> QED BY <2>5, NotTypingGood
<1> QED BY <1>4, <1>5 DEF p

\* What Enter and the digits confirm. A digit past the end brings back the mode
\* of the code actions, which are still there.
LEMMA SelectConfirmGood ==
  ASSUME NEW s, NEW act, Owed(s, act), act \notin Openings, NEW t \in SelectConfirm(s, act) PROVE Good(t)
<1>1. Good(s) BY OwedGood
<1>2. CASE s.mode = "tree" /\ (s.tEd \/ s.prompt)
  <2>1. PICK u \in {[s EXCEPT !.prompt = FALSE]} \cup OnOpenFile([s EXCEPT !.prompt = FALSE]) :
           t = [u EXCEPT !.tEd = FALSE]
    BY <1>2 DEF SelectConfirm, Each
  <2> QED BY <1>1, <1>2, <2>1, PromptDone
<1>3. CASE ~(s.mode = "tree" /\ (s.tEd \/ s.prompt))
  <2>1. t = Cancel(s) \/ (act = "LSP_SELECT_NUMBER" /\ t = SetState(s, "code_action"))
    BY <1>3 DEF SelectConfirm
  <2>2. CASE t = Cancel(s) BY <1>1, <2>2, CancelGood
  <2>3. CASE act = "LSP_SELECT_NUMBER" /\ t = SetState(s, "code_action")
    <3>1. s.ui = "action" BY <2>3 DEF Owed, Fitting
    <3>2. "code_action" \in Modes \ {"leader"} /\ Seen(s, "code_action") BY <3>1 DEF Modes, Seen, ModeOf
    <3> QED BY <1>1, <2>3, <3>2, GoodIsBase, SetStateGood
  <2> QED BY <2>1, <2>2, <2>3
<1> QED BY <1>2, <1>3

\* The actions of the popovers.
LEMMA OnLspGood ==
  ASSUME NEW s, NEW act \in Lsp, Owed(s, act), NEW t \in OnLsp(s, act) PROVE Good(t)
<1>1. act \notin Openings BY DEF Lsp, Openings, OpenTree, OpenDrawer, Creates
<1>2. Good(s) BY <1>1, OwedGood
<1>3. \/ t \in RequestHover(s) \cup RequestCompletion(s) \cup RequestCodeActions(s) \cup RenameBegin(s)
      \/ t = Cancel(DropPrompt(s))
      \/ t \in SelectConfirm(s, act)
  BY DEF OnLsp
<1>4. Good(Cancel(DropPrompt(s))) BY <1>2, DropPromptGood, CancelGood
<1> QED BY <1>1, <1>2, <1>3, <1>4, RequestHoverGood, RequestCompletionGood, RequestCodeActionsGood,
           RenameBeginGood, SelectConfirmGood

\* The parts that carry an action out.
LEMMA PerformCases ==
  ASSUME NEW s, NEW act, NEW t \in Perform(s, act)
  PROVE  \/ act \in Quiet /\ t = s
         \/ act \in Panes /\ t \in OnPane(s, act)
         \/ act = "TOGGLE_MARKDOWN_PREVIEW" /\ t = OnEditor(s)
         \/ act \in DOMAIN Shows /\ t = Drawer(s, Shows[act])
         \/ act \in Pickers /\ t \in OnPicker(s, act)
         \/ act \in Trees /\ t \in OnTree(s, act)
         \/ act \in Tabs /\ t \in OnTabs(s)
         \/ act \in Jumps /\ t \in {s} \cup OpenPath(s)
         \/ act \in Errors /\ t \in {s} \cup OnOpenFile(s)
         \/ act \in Lsp /\ t \in OnLsp(s, act)
         \/ /\ act \notin Quiet \cup Panes \cup DOMAIN Shows \cup Pickers \cup Trees \cup Lsp
            /\ t \in Edit(s, act)
BY DEF Perform

\* The pages are those of the drawer.
LEMMA ShowsFacts ==
  ASSUME NEW act \in DOMAIN Shows
  PROVE  Shows[act] \in DrawerPages /\ act \notin OpenTree \cup Creates \cup {"HELP_TOGGLE"}
BY DEF Shows, DrawerPages, OpenTree, Creates

\* The actions that make something good are those of the panes, of the pages,
\* of the tree and the palette,
LEMMA Opening ==
  /\ OpenTree \subseteq Panes
  /\ OpenDrawer \subseteq Panes \cup DOMAIN Shows
  /\ Creates \subseteq Trees
  /\ "HELP_TOGGLE" \in Pickers
<1>1. OpenTree \subseteq Panes BY DEF OpenTree, Panes
<1>2. OpenDrawer \subseteq Panes \cup DOMAIN Shows BY DEF OpenDrawer, Panes, Shows
<1>3. Creates \subseteq Trees BY DEF Creates, Trees
<1>4. "HELP_TOGGLE" \in Pickers BY DEF Pickers
<1> QED BY <1>1, <1>2, <1>3, <1>4

\* so the others begin in a good state.
LEMMA NoOpening ==
  \A act : act \in Quiet \cup Tabs \cup Jumps \cup Errors \cup {"TOGGLE_MARKDOWN_PREVIEW"} => act \notin Openings
BY DEF Quiet, Tabs, Jumps, Errors, Openings, OpenTree, OpenDrawer, Creates

\* Another buffer.
LEMMA OnTabsGood ==
  ASSUME NEW s, Good(s), NEW t \in OnTabs(s) PROVE Good(t)
BY OnEditorGood DEF OnTabs

\* A file opens where a jump leads.
LEMMA OpenPathGood ==
  ASSUME NEW s, Good(s), NEW t \in OpenPath(s) PROVE Good(t)
BY OnEditorGood, CursorMovesGood DEF OpenPath

\* ide_window_dispatch_action makes good what is owed.
LEMMA PerformGood ==
  ASSUME NEW s, NEW act, Owed(s, act), NEW t \in Perform(s, act) PROVE Good(t)
<1>1. act \notin Openings => Good(s) BY OwedGood
<1>2. act \in Quiet \cup Tabs \cup Jumps \cup Errors \cup {"TOGGLE_MARKDOWN_PREVIEW"} => Good(s)
  BY <1>1, NoOpening
<1>3. CASE act \in Quiet /\ t = s BY <1>2, <1>3
<1>4. CASE act \in Panes /\ t \in OnPane(s, act) BY <1>4, OnPaneGood
<1>5. CASE act = "TOGGLE_MARKDOWN_PREVIEW" /\ t = OnEditor(s) BY <1>2, <1>5, OnEditorGood
<1>6. CASE act \in DOMAIN Shows /\ t = Drawer(s, Shows[act])
  <2>1. Shows[act] \in DrawerPages /\ act \notin OpenTree \cup Creates \cup {"HELP_TOGGLE"} BY <1>6, ShowsFacts
  <2> QED BY <1>6, <2>1, DrawerGood
<1>7. CASE act \in Pickers /\ t \in OnPicker(s, act) BY <1>7, OnPickerGood
<1>8. CASE act \in Trees /\ t \in OnTree(s, act) BY <1>8, OnTreeGood
<1>9. CASE act \in Tabs /\ t \in OnTabs(s) BY <1>2, <1>9, OnTabsGood
<1>10. CASE act \in Jumps /\ t \in {s} \cup OpenPath(s) BY <1>2, <1>10, OpenPathGood
<1>11. CASE act \in Errors /\ t \in {s} \cup OnOpenFile(s)
  <2>1. Good(s) BY <1>2, <1>11
  <2> QED BY <2>1, <1>11, OnOpenFileGood, GoodIsBase
<1>12. CASE act \in Lsp /\ t \in OnLsp(s, act) BY <1>12, OnLspGood
<1>13. CASE /\ act \notin Panes /\ act \notin DOMAIN Shows /\ act \notin Pickers /\ act \notin Trees
            /\ t \in Edit(s, act)
  <2>1. act \notin Openings BY <1>13, Opening DEF Openings
  <2> QED BY <1>1, <1>13, <2>1, EditGood
<1> QED BY <1>3, <1>4, <1>5, <1>6, <1>7, <1>8, <1>9, <1>10, <1>11, <1>12, <1>13, PerformCases

\* It may also be a field that takes the key, which leaves all as it was.
LEMMA CarriedGood ==
  ASSUME NEW s, NEW act, Owed(s, act), NEW t \in Carried(s, act) PROVE Good(t)
<1>1. CASE Taken(s, act)
  <2>1. act \notin Openings BY <1>1 DEF Taken, Openings, OpenTree, OpenDrawer, Creates
  <2>2. t = s BY <1>1 DEF Carried
  <2> QED BY <2>1, <2>2, OwedGood
<1>2. CASE ~Taken(s, act) BY <1>2, PerformGood DEF Carried
<1> QED BY <1>1, <1>2

-----------------------------------------------------------------------------
(* The palette.                                                            *)

\* For each command on_picker_command sets a mode first, which owes what the
\* action shows:
LEMMA SetStateOwed ==
  ASSUME NEW s, Base(s), NEW m \in {"normal", "tree", "drawer", "picker", "search"}, NEW act, act # "LSP_SELECT_NUMBER",
         m = "tree" => s.tree \/ act \in OpenTree, m = "drawer" => act \in OpenDrawer
  PROVE  Owed(SetState(s, m), act)
<1> DEFINE t == SetState(s, m)
<1>0. s \in State /\ m \in Modes BY DEF Base, Modes
<1>1. t \in State BY <1>0, SetStateType
<1>2. /\ t.mode = m /\ t.chord = <<>>
      /\ t.dEd => m = "drawer"
      /\ t.tEd => s.tEd /\ m = "tree" BY <1>0, SetStateSets
<1>3. /\ (t.tree <=> s.tree) /\ (t.prompt <=> s.prompt) /\ (t.drawer <=> s.drawer)
      /\ t.ui = s.ui /\ t.asked = s.asked BY <1>0, SetStateKeeps
<1> HIDE DEF t
<1>4. Promised(t, act) BY <1>2, <1>3 DEF Promised, Base, Popups
<1>5. Fitting(t, act) BY <1>2 DEF Fitting, OpenDrawer
<1>6. Owed(t, act) BY <1>1, <1>2, <1>3, <1>4, <1>5 DEF Owed, Base, OneShown
<1> QED BY <1>6 DEF t

\* that of the fields of the drawer,
LEMMA ReplaceOwed ==
  ASSUME NEW s, NEW act, Owed(s, act), s.mode = "drawer", NEW b \in BOOLEAN
  PROVE  Owed([s EXCEPT !.dEd = b], act)
<1> DEFINE t == [s EXCEPT !.dEd = b]
<1>0. s \in State BY DEF Owed
<1>1. t \in State BY <1>0 DEF State
<1>2. t.mode = s.mode /\ t.chord = s.chord /\ (t.tEd <=> s.tEd) /\ (t.prompt <=> s.prompt) /\ (t.timer <=> s.timer)
  BY <1>0 DEF State
<1>3. SameShown(s, t) BY <1>0 DEF State, SameShown
<1> HIDE DEF t
<1>4. Promised(t, act) BY <1>2, <1>3 DEF Owed, Promised, SameShown
<1>5. Fitting(t, act) BY <1>2, <1>3 DEF Owed, Fitting, SameShown
<1>6. Owed(t, act) BY <1>1, <1>2, <1>3, <1>4, <1>5 DEF Owed, SameShown, OneShown
<1> QED BY <1>6 DEF t

\* that of a name in the tree,
LEMMA CreateOwed ==
  ASSUME NEW s \in State, OneShown(s), NEW act \in Creates
  PROVE  Owed([SetState([s EXCEPT !.tree = TRUE], "tree") EXCEPT !.tEd = TRUE], act)
<1> DEFINE u == [s EXCEPT !.tree = TRUE]
           v == SetState(u, "tree")
           t == [v EXCEPT !.tEd = TRUE]
<1>1. u \in State /\ u.tree /\ u.ui = s.ui /\ u.asked = s.asked BY TreeShownFacts
<1> HIDE DEF u
<1>2. v \in State BY <1>1, SetStateType DEF Modes
<1>3. /\ v.mode = "tree" /\ v.chord = <<>>
      /\ v.dEd => FALSE BY <1>1, SetStateSets
<1>4. (v.tree <=> u.tree) /\ v.ui = u.ui /\ v.asked = u.asked BY <1>1, SetStateKeeps
<1> HIDE DEF v
<1>5. t \in State BY <1>2 DEF State
<1>6. /\ t.mode = v.mode /\ t.chord = v.chord /\ (t.dEd <=> v.dEd)
      /\ (t.tree <=> v.tree) /\ t.ui = v.ui /\ t.asked = v.asked BY <1>2 DEF State
<1> HIDE DEF t
<1>7. Promised(t, act) BY <1>1, <1>3, <1>4, <1>6 DEF Promised, Popups
<1>8. Fitting(t, act) BY <1>3, <1>6 DEF Fitting, Creates
<1>9. OneShown(t) BY <1>1, <1>4, <1>6 DEF OneShown
<1>10. Owed(t, act) BY <1>3, <1>5, <1>6, <1>7, <1>8, <1>9 DEF Owed
<1> QED BY <1>10 DEF t, v, u

\* or a mode alone.
LEMMA CommandModeCases ==
  ASSUME NEW s, NEW act
  PROVE  \/ \E m \in {"picker", "search", "normal"} : CommandMode(s, act) = SetState(s, m)
         \/ act \in OpenDrawer /\ CommandMode(s, act) = SetState(s, "drawer")
         \/ /\ act \in OpenDrawer
            /\ \E b \in BOOLEAN : CommandMode(s, act) = [SetState(s, "drawer") EXCEPT !.dEd = b]
         \/ act \in OpenTree /\ CommandMode(s, act) = SetState(s, "tree")
         \/ /\ act \in Creates
            /\ CommandMode(s, act) = [SetState([s EXCEPT !.tree = TRUE], "tree") EXCEPT !.tEd = TRUE]
BY DEF CommandMode, OpenDrawer, OpenTree, Creates

\* So a command of the palette ends with the keys where the screen says.
LEMMA CommandGood ==
  ASSUME NEW s, Base(s), NEW act, act # "LSP_SELECT_NUMBER", NEW t \in Command(s, act) PROVE Good(t)
<1>0. s \in State /\ OneShown(s) BY DEF Base
<1>1. CASE \E m \in {"picker", "search", "normal"} : CommandMode(s, act) = SetState(s, m)
  <2> PICK m \in {"picker", "search", "normal"} : CommandMode(s, act) = SetState(s, m) BY <1>1
  <2>1. Owed(SetState(s, m), act) BY SetStateOwed
  <2> QED BY <2>1, CarriedGood DEF Command
<1>2. CASE act \in OpenDrawer /\ CommandMode(s, act) = SetState(s, "drawer")
  <2>1. Owed(SetState(s, "drawer"), act) BY <1>2, SetStateOwed
  <2> QED BY <1>2, <2>1, CarriedGood DEF Command
<1>3. CASE /\ act \in OpenDrawer
           /\ \E b \in BOOLEAN : CommandMode(s, act) = [SetState(s, "drawer") EXCEPT !.dEd = b]
  <2> PICK b \in BOOLEAN : CommandMode(s, act) = [SetState(s, "drawer") EXCEPT !.dEd = b] BY <1>3
  <2>1. Owed(SetState(s, "drawer"), act) BY <1>3, SetStateOwed
  <2>2. SetState(s, "drawer").mode = "drawer" BY <1>0, SetStateSets
  <2>3. Owed([SetState(s, "drawer") EXCEPT !.dEd = b], act) BY <2>1, <2>2, ReplaceOwed
  <2> QED BY <2>3, CarriedGood DEF Command
<1>4. CASE act \in OpenTree /\ CommandMode(s, act) = SetState(s, "tree")
  <2>1. Owed(SetState(s, "tree"), act) BY <1>4, SetStateOwed
  <2> QED BY <1>4, <2>1, CarriedGood DEF Command
<1>5. CASE /\ act \in Creates
           /\ CommandMode(s, act) = [SetState([s EXCEPT !.tree = TRUE], "tree") EXCEPT !.tEd = TRUE]
  <2>1. Owed([SetState([s EXCEPT !.tree = TRUE], "tree") EXCEPT !.tEd = TRUE], act) BY <1>0, <1>5, CreateOwed
  <2> QED BY <1>5, <2>1, CarriedGood DEF Command
<1> QED BY <1>1, <1>2, <1>3, <1>4, <1>5, CommandModeCases

\* A row of the palette, or of a list of files.
LEMMA ChosenGood ==
  ASSUME NEW s, Good(s), NEW t \in Chosen(s) PROVE Good(t)
<1>1. Base(PickerClosed(s)) BY GoodIsBase, PickerShownBase, Values DEF PickerClosed
<1>2. CASE s.picker = "help"
  <2>1. PICK c \in Commands : t \in Command(PickerClosed(s), c) BY <1>2 DEF Chosen
  <2> QED BY <1>1, <2>1, CommandGood, CommandsAssumption
<1>3. CASE s.picker # "help"
  <2>1. t = PickerClosed(s) \/ t \in OnOpenFile(PickerClosed(s)) BY <1>3 DEF Chosen
  <2>2. s.mode # "help" BY <1>3 DEF Good, Seen
  <2>3. Good(PickerClosed(s)) BY <2>2, PickerShownGood, Values DEF PickerClosed
  <2> QED BY <1>1, <2>1, <2>3, OnOpenFileGood
<1> QED BY <1>2, <1>3

\* The actions of keys and menus, those that choose a row among them.
LEMMA DispatchGood ==
  ASSUME NEW s, NEW act, Owed(s, act), NEW t \in Dispatch(s, act) PROVE Good(t)
<1>1. CASE act \in {"PICKER_SELECT", "HELP_SELECT"}
  <2>1. act \notin Openings BY <1>1 DEF Openings, OpenTree, OpenDrawer, Creates
  <2>2. Good(s) BY <2>1, OwedGood
  <2>3. s.mode # "help" BY <1>1 DEF Owed, Fitting, EndList
  <2>4. Good(PickerClosed(s)) BY <2>2, <2>3, PickerShownGood, Values DEF PickerClosed
  <2>5. PICK u \in Confirm(s) : t = OnEditor(u) BY <1>1 DEF Dispatch
  <2>6. Good(u) BY <2>2, <2>4, <2>5, ChosenGood DEF Confirm
  <2> QED BY <2>5, <2>6, OnEditorGood
<1>2. CASE act \notin {"PICKER_SELECT", "HELP_SELECT"} BY <1>2, CarriedGood DEF Dispatch
<1> QED BY <1>1, <1>2

-----------------------------------------------------------------------------
(* What the tables of the keys may leave open.                             *)

\* As Owed, before the window has armed the timer of the chord again.
Owing(s, act) ==
  /\ s \in State
  /\ Promised(s, act)
  /\ Fitting(s, act)
  /\ s.dEd => s.mode = "drawer"
  /\ s.chord # <<>> => s.mode = "leader"
  /\ OneShown(s)
OwingDone(done) == Owing(done.s, done.act)

\* The modes a row may lead to, and with what action: none ends in a mode
\* whose pane the action does not show.
Targets == {"normal", "insert", "select", "match", "picker", "drawer", "diff_review", "tree", "search", "help"}
SafeRow(to, act) ==
  /\ to \in Targets \cup {"same"}
  /\ to = "tree" => act \in OpenTree
  /\ to = "drawer" => act \in OpenDrawer
  /\ to = "help" => act = "HELP_TOGGLE"
  /\ act \in EndList \cup {"DRAWER_CLOSE"} => to \in {"normal", "picker"}
  /\ act # "LSP_SELECT_NUMBER"
SafeTable(table) == \A row \in table : SafeRow(row.to, row.act)

\* A good state in which nothing is typed into a field.
Still(s) == Good(s) /\ s.chord = <<>> /\ ~s.tEd /\ ~s.dEd

\* A key that leaves the mode as it is leaves nothing open,
LEMMA StayOwing ==
  ASSUME NEW s, Good(s), NEW act, act \notin EndList \cup {"DRAWER_CLOSE", "LSP_SELECT_NUMBER"}
  PROVE  Owing(s, act)
BY DEF Owing, Promised, Fitting, Good, Seen

\* and one that changes it as a safe row does leaves what its action makes good.
LEMMA MoveOwing ==
  ASSUME NEW s, Still(s), NEW m \in Targets, NEW act, SafeRow(m, act)
  PROVE  Owing([s EXCEPT !.mode = m], act)
<1> DEFINE t == [s EXCEPT !.mode = m]
<1>0. s \in State /\ m \in Modes BY DEF Still, Good, Targets, Modes
<1>1. t \in State BY <1>0 DEF State
<1>2. /\ t.mode = m /\ t.chord = s.chord /\ (t.tEd <=> s.tEd) /\ (t.dEd <=> s.dEd) BY <1>0 DEF State
<1>3. SameShown(s, t) BY <1>0 DEF State, SameShown
<1> HIDE DEF t
<1>4. Promised(t, act) BY <1>2 DEF Promised, SafeRow, Still, Targets, Popups
<1>5. Fitting(t, act) BY <1>2 DEF Fitting, SafeRow
<1>6. OneShown(t) BY <1>3 DEF Still, Good, SameShown, OneShown
<1>7. Owing(t, act) BY <1>1, <1>2, <1>4, <1>5, <1>6 DEF Owing, Still
<1> QED BY <1>7 DEF t

\* A row that keeps the mode changes nothing.
LEMMA SameMode ==
  ASSUME NEW s \in State PROVE [s EXCEPT !.mode = @] = s
BY DEF State

\* So a table of safe rows leaves what is owed,
LEMMA FollowOwing ==
  ASSUME NEW s, Still(s), NEW table, SafeTable(table), NEW k
  PROVE  OwingDone(Follow(s, table, k))
<1>0. s \in State /\ Good(s) BY DEF Still, Good
<1>1. CASE Has(table, k)
  <2> DEFINE row == RowOf(table, k)
  <2>1. row \in table BY <1>1 DEF Has, RowOf
  <2>2. SafeRow(row.to, row.act) BY <2>1 DEF SafeTable
  <2>3. Follow(s, table, k) = Done([s EXCEPT !.mode = IF row.to = "same" THEN @ ELSE row.to], row.act)
    BY <1>1 DEF Follow
  <2> HIDE DEF row
  <2>4. CASE row.to = "same"
    <3>1. Follow(s, table, k) = Done(s, row.act) BY <2>3, <2>4, <1>0, SameMode
    <3>2. row.act \notin EndList \cup {"DRAWER_CLOSE", "LSP_SELECT_NUMBER"} BY <2>2, <2>4 DEF SafeRow
    <3> QED BY <3>1, <3>2, <1>0, StayOwing DEF OwingDone, Done
  <2>5. CASE row.to # "same"
    <3>1. Follow(s, table, k) = Done([s EXCEPT !.mode = row.to], row.act) BY <2>3, <2>5
    <3>2. row.to \in Targets BY <2>2, <2>5 DEF SafeRow
    <3>3. Owing([s EXCEPT !.mode = row.to], row.act) BY <3>2, <2>2, MoveOwing
    <3> QED BY <3>1, <3>3 DEF OwingDone, Done
  <2> QED BY <2>4, <2>5
<1>2. CASE ~Has(table, k)
  <2>1. Follow(s, table, k) = Done(s, "NONE") BY <1>2 DEF Follow
  <2> QED BY <2>1, <1>0, StayOwing DEF OwingDone, Done, EndList
<1> QED BY <1>1, <1>2

\* also when a glyph is typed instead.
LEMMA OrTypeOwing ==
  ASSUME NEW s, Still(s), NEW table, SafeTable(table), NEW k,
         NEW act \in {"INSERT_CHAR", "PICKER_INPUT", "HELP_INPUT", "SEARCH_INPUT"}
  PROVE  OwingDone(OrType(s, table, k, act))
<1>1. Owing(s, act) BY StayOwing DEF Still, EndList
<1> QED BY <1>1, FollowOwing DEF OrType, OwingDone, Done

\* The rows of all tables are safe. (CodeActionKeys are not: a digit confirms.)
LEMMA SafeTables ==
  /\ SafeTable(GChords) /\ SafeTable(NormalKeys) /\ SafeTable(InsertKeys) /\ SafeTable(SelectKeys)
  /\ SafeTable(Chords) /\ SafeTable(ReplaceKeys) /\ SafeTable(DrawerKeys) /\ SafeTable(TreeKeys)
  /\ SafeTable(PickerKeys) /\ SafeTable(HelpKeys) /\ SafeTable(ReviewKeys) /\ SafeTable(HoverKeys)
  /\ SafeTable(CompletionKeys) /\ SafeTable(RenameKeys) /\ SafeTable(SearchKeys)
<1> USE DEF Do, Go, SafeTable, SafeRow, Targets, OpenTree, OpenDrawer, EndList, Chord1, Chord2
<1>1. SafeTable(GChords) BY DEF GChords
<1>2. SafeTable(NormalModes) BY DEF NormalModes
<1>3. SafeTable(NormalMoves) BY DEF NormalMoves
<1>4. SafeTable(NormalEdits) BY DEF NormalEdits
<1>5. SafeTable(NormalCommands) BY DEF NormalCommands
<1>6. SafeTable(InsertEdits) BY DEF InsertEdits
<1>7. SafeTable(InsertMoves) BY DEF InsertMoves
<1>8. SafeTable(SelectEdits) BY DEF SelectEdits
<1>8m. SafeTable(SelectMoves) BY DEF SelectMoves
<1>9. SafeTable(ChordsOfFiles) BY DEF ChordsOfFiles
<1>10. SafeTable(ChordsOfLayout) BY DEF ChordsOfLayout
<1>11. SafeTable(ChordsOfTools) BY DEF ChordsOfTools
<1>12. SafeTable(ChordsOfCode) BY DEF ChordsOfCode
<1>13. SafeTable(ChordsOfPanes) BY DEF ChordsOfPanes
<1>14. SafeTable(ReplaceKeys) BY DEF ReplaceKeys
<1>15. SafeTable(DrawerKeys) BY DEF DrawerKeys
<1>16. SafeTable(TreeKeys) BY DEF TreeKeys
<1>17. SafeTable(PickerKeys) BY DEF PickerKeys
<1>18. SafeTable(HelpKeys) BY DEF HelpKeys
<1>19. SafeTable(ReviewKeys) BY DEF ReviewKeys
<1>20. SafeTable(HoverKeys) BY DEF HoverKeys
<1>21. SafeTable(CompletionKeys) BY DEF CompletionKeys
<1>22. SafeTable(RenameKeys) BY DEF RenameKeys
<1>23. SafeTable(SearchKeys) BY DEF SearchKeys
<1> HIDE DEF Do, Go, SafeTable, SafeRow, Targets, OpenTree, OpenDrawer, EndList, Chord1, Chord2
<1>8k. SafeTable(SelectKeys) BY <1>8, <1>8m DEF SelectKeys, SafeTable
<1>24. SafeTable(NormalKeys) BY <1>2, <1>3, <1>4, <1>5 DEF NormalKeys, SafeTable
<1>25. SafeTable(InsertKeys) BY <1>6, <1>7 DEF InsertKeys, SafeTable
<1>26. SafeTable(Chords) BY <1>9, <1>10, <1>11, <1>12, <1>13 DEF Chords, SafeTable
<1> QED BY <1>1, <1>24, <1>25, <1>8k, <1>26, <1>14, <1>15, <1>16, <1>17, <1>18, <1>19, <1>20, <1>21, <1>22, <1>23

-----------------------------------------------------------------------------
(* Each mode has its handler.                                              *)

\* The chord of Space begins.
LEMMA LeadOwing ==
  ASSUME NEW s, Still(s), NEW from \in Befores PROVE OwingDone(Lead(s, from))
<1> DEFINE t == [s EXCEPT !.mode = "leader", !.prev = from, !.chord = <<>>]
<1>0. s \in State BY DEF Still, Good
<1>1. t \in State BY <1>0, Values DEF State, Modes
<1>2. t.mode = "leader" /\ (t.tEd <=> s.tEd) /\ (t.dEd <=> s.dEd) BY <1>0 DEF State
<1>3. SameShown(s, t) BY <1>0 DEF State, SameShown
<1>4. Lead(s, from) = Done(t, "NONE") BY DEF Lead
<1> HIDE DEF t
<1>5. Promised(t, "NONE") BY <1>2 DEF Promised, Still, Popups
<1>6. OneShown(t) BY <1>3 DEF Still, Good, SameShown, OneShown
<1>7. Owing(t, "NONE") BY <1>1, <1>2, <1>5, <1>6 DEF Owing, Still, Fitting, EndList
<1> QED BY <1>4, <1>7 DEF OwingDone, Done

\* The first key of a text object,
LEMMA ObjectStill ==
  ASSUME NEW s, Still(s), NEW o \in Objects
  PROVE  Still([s EXCEPT !.obj = o]) /\ [s EXCEPT !.obj = o].mode = s.mode
<1> DEFINE t == [s EXCEPT !.obj = o]
<1>0. s \in State /\ Good(s) BY DEF Still, Good
<1>1. t \in State BY <1>0 DEF State
<1>2. SameModes(s, t) BY <1>0 DEF State, SameModes
<1>3. SameShown(s, t) BY <1>0 DEF State, SameShown
<1> HIDE DEF t
<1>4. Good(t) BY <1>0, <1>1, <1>2, <1>3, GoodSame
<1>5. Still(t) /\ t.mode = s.mode BY <1>2, <1>4 DEF Still, SameModes
<1> QED BY <1>5 DEF t

\* the second or a key that is none,
LEMMA ObjectOwing ==
  ASSUME NEW s, Still(s), NEW m \in {"normal", "select", "match"}, NEW o \in Objects,
         NEW act \in {"NONE", "SELECT_TEXT_OBJECT"}
  PROVE  Owing([s EXCEPT !.mode = m, !.obj = o], act)
<1> DEFINE u == [s EXCEPT !.obj = o]
<1>0. s \in State BY DEF Still, Good
<1>1. Still(u) BY ObjectStill
<1>2. [s EXCEPT !.mode = m, !.obj = o] = [u EXCEPT !.mode = m] BY <1>0 DEF State
<1> HIDE DEF u
<1>3. SafeRow(m, act) BY DEF SafeRow, Targets, EndList
<1>4. Owing([u EXCEPT !.mode = m], act) BY <1>1, <1>3, MoveOwing DEF Targets
<1> QED BY <1>2, <1>4

\* and the m before them.
LEMMA MatchOwing ==
  ASSUME NEW s, Still(s) PROVE OwingDone(Match(s))
BY ObjectOwing, Values DEF Match, OwingDone, Done

\* The modes that have neither field nor chord.
LEMMA GoodStill ==
  ASSUME NEW s, Good(s), s.mode \notin {"leader", "tree", "drawer"} PROVE Still(s)
BY DEF Good, Still

\* handle_normal,
LEMMA HandleNormalOwing ==
  ASSUME NEW s, Good(s), s.mode = "normal", NEW k PROVE OwingDone(HandleNormal(s, k))
<1>1. Still(s) BY GoodStill
<1>2. OwingDone(Follow(s, GChords, k)) /\ OwingDone(Follow(s, NormalKeys, k)) BY <1>1, FollowOwing, SafeTables
<1>3. OwingDone(Lead(s, "normal")) /\ OwingDone(Match(s)) BY <1>1, LeadOwing, MatchOwing, Values
<1>4. OwingDone(Done(s, "LSP_DEFINITION")) BY StayOwing DEF EndList, OwingDone, Done
<1> QED BY <1>2, <1>3, <1>4 DEF HandleNormal

\* handle_insert,
LEMMA HandleInsertOwing ==
  ASSUME NEW s, Good(s), s.mode = "insert", NEW k, NEW quick PROVE OwingDone(HandleInsert(s, k, quick))
<1>1. Still(s) BY GoodStill
<1>2. OwingDone(OrType(s, InsertKeys, k, "INSERT_CHAR")) BY <1>1, OrTypeOwing, SafeTables
<1>3. SafeRow("normal", "BACKSPACE") /\ "normal" \in Targets BY DEF SafeRow, Targets, EndList
<1>4. OwingDone(Done([s EXCEPT !.mode = "normal"], "BACKSPACE")) BY <1>1, <1>3, MoveOwing DEF OwingDone, Done
<1> QED BY <1>2, <1>4 DEF HandleInsert

\* handle_select,
LEMMA HandleSelectOwing ==
  ASSUME NEW s, Good(s), s.mode = "select", NEW k PROVE OwingDone(HandleSelect(s, k))
<1>1. Still(s) BY GoodStill
<1>2. OwingDone(Follow(s, GChords, k)) /\ OwingDone(Follow(s, SelectKeys, k)) BY <1>1, FollowOwing, SafeTables
<1>3. OwingDone(Lead(s, "other")) /\ OwingDone(Match(s)) BY <1>1, LeadOwing, MatchOwing, Values
<1> QED BY <1>2, <1>3 DEF HandleSelect

\* and handle_match leave what their actions make good.
LEMMA HandleMatchOwing ==
  ASSUME NEW s, Good(s), s.mode = "match", NEW k PROVE OwingDone(HandleMatch(s, k))
<1>0. Still(s) BY GoodStill
<1>1. ASSUME k \in {"i", "a"} PROVE OwingDone(Done([s EXCEPT !.obj = k], "NONE"))
  <2>1. Still([s EXCEPT !.obj = k]) BY <1>0, <1>1, ObjectStill, Values
  <2> QED BY <2>1, StayOwing DEF Still, OwingDone, Done, EndList
<1>2. /\ OwingDone(Done([s EXCEPT !.mode = "select", !.obj = "none"], "SELECT_TEXT_OBJECT"))
      /\ OwingDone(Done([s EXCEPT !.mode = "normal", !.obj = "none"], "NONE"))
  BY <1>0, ObjectOwing, Values DEF OwingDone, Done
<1> QED BY <1>1, <1>2 DEF HandleMatch

\* A chord has two keys at most.
LEMMA Appended ==
  ASSUME NEW chord \in Starts, NEW k
  PROVE  /\ chord = <<>> => Append(chord, k) = <<k>>
         /\ chord # <<>> => Len(Append(chord, k)) = 2 /\ Append(chord, k)[2] = k
         /\ Len(Append(chord, k)) = 1 => chord = <<>>
<1>1. chord = <<>> \/ \E h \in ChordHeads : chord = <<h>> BY DEF Starts
<1>2. Append(<<>>, k) = <<k>> /\ Len(<<k>>) = 1 OBVIOUS
<1>3. ASSUME NEW h PROVE Len(Append(<<h>>, k)) = 2 /\ Append(<<h>>, k)[2] = k
  <2>1. <<h>> \in Seq({h, k}) /\ Len(<<h>>) = 1 OBVIOUS
  <2> QED BY <2>1, AppendProperties
<1>4. CASE chord = <<>> BY <1>2, <1>4
<1>5. CASE \E h \in ChordHeads : chord = <<h>>
  <2>1. PICK h \in ChordHeads : chord = <<h>> BY <1>5
  <2>2. chord # <<>> BY <2>1
  <2>3. Len(Append(chord, k)) = 2 /\ Append(chord, k)[2] = k BY <1>3, <2>1
  <2> QED BY <2>2, <2>3
<1> QED BY <1>1, <1>4, <1>5

\* A chord that ends is gone,
LEMMA ChordStill ==
  ASSUME NEW s, Good(s), s.mode = "leader"
  PROVE  Still([s EXCEPT !.chord = <<>>]) /\ [s EXCEPT !.chord = <<>>].mode = "leader"
<1> DEFINE t == [s EXCEPT !.chord = <<>>]
<1>0. s \in State BY DEF Good
<1>1. t \in State BY <1>0, Values DEF State
<1>2. t.mode = s.mode /\ t.chord = <<>> /\ (t.tEd <=> s.tEd) /\ (t.dEd <=> s.dEd) /\ (t.timer <=> s.timer)
  BY <1>0 DEF State
<1>3. SameShown(s, t) BY <1>0 DEF State, SameShown
<1> HIDE DEF t
<1>4. Still(t) BY <1>1, <1>2, <1>3 DEF Still, Good, Seen, SameShown, OneShown
<1> QED BY <1>2, <1>4 DEF t

\* and one that goes on has its first key.
LEMMA HeadOwing ==
  ASSUME NEW s, Good(s), s.mode = "leader", NEW h \in ChordHeads
  PROVE  Owing([s EXCEPT !.chord = <<h>>], "NONE")
<1> DEFINE t == [s EXCEPT !.chord = <<h>>]
<1>0. s \in State BY DEF Good
<1>1. t \in State BY <1>0, Values DEF State
<1>2. t.mode = s.mode /\ (t.tEd <=> s.tEd) /\ (t.dEd <=> s.dEd)
  BY <1>0 DEF State
<1>3. SameShown(s, t) BY <1>0 DEF State, SameShown
<1> HIDE DEF t
<1>4. Promised(t, "NONE") BY <1>2 DEF Promised, Good, Popups
<1>5. OneShown(t) BY <1>3 DEF Good, SameShown, OneShown
<1>6. Owing(t, "NONE") BY <1>1, <1>2, <1>4, <1>5 DEF Owing, Good, Fitting, EndList
<1> QED BY <1>6 DEF t

\* The two chords that put the keys into the fields of the drawer.
ReplaceChords == {<<"s", "r">>, <<"s", "p">>}

\* Their rows show the drawer,
LEMMA ReplaceRows ==
  \A chord \in ReplaceChords :
     Has(Chords, chord) /\ RowOf(Chords, chord).to = "drawer" /\ RowOf(Chords, chord).act \in OpenDrawer
<1> USE DEF Do, Go, Chord1, Chord2, ReplaceChords
<1>1. \A row \in ChordsOfFiles : row.key \notin ReplaceChords BY DEF ChordsOfFiles
<1>2. \A row \in ChordsOfLayout : row.key \notin ReplaceChords BY DEF ChordsOfLayout
<1>3. \A row \in ChordsOfTools : row.key \notin ReplaceChords BY DEF ChordsOfTools
<1>4. \A row \in ChordsOfCode : row.key \notin ReplaceChords BY DEF ChordsOfCode
<1>5. \A row \in ChordsOfPanes : row.key \in ReplaceChords => row.to = "drawer" /\ row.act \in OpenDrawer
  BY DEF ChordsOfPanes, OpenDrawer
<1>6. \A chord \in ReplaceChords : \E row \in ChordsOfPanes : row.key = chord
  <2>1. Go(Chord2("s", {"r"}), "drawer", "REPLACE_OPEN") \subseteq ChordsOfPanes BY DEF ChordsOfPanes
  <2>2. Go(Chord2("s", {"p"}), "drawer", "PROJECT_REPLACE_OPEN") \subseteq ChordsOfPanes BY DEF ChordsOfPanes
  <2>3. \E row \in Go(Chord2("s", {"r"}), "drawer", "REPLACE_OPEN") : row.key = <<"s", "r">>
    <3> WITNESS [key |-> <<"s", "r">>, to |-> "drawer", act |-> "REPLACE_OPEN"] \in Go(Chord2("s", {"r"}), "drawer", "REPLACE_OPEN")
    <3> QED OBVIOUS
  <2>4. \E row \in Go(Chord2("s", {"p"}), "drawer", "PROJECT_REPLACE_OPEN") : row.key = <<"s", "p">>
    <3> WITNESS [key |-> <<"s", "p">>, to |-> "drawer", act |-> "PROJECT_REPLACE_OPEN"] \in Go(Chord2("s", {"p"}), "drawer", "PROJECT_REPLACE_OPEN")
    <3> QED OBVIOUS
  <2> HIDE DEF Do, Go, Chord1, Chord2
  <2> QED BY <2>1, <2>2, <2>3, <2>4
<1> HIDE DEF Do, Go, Chord1, Chord2, ReplaceChords
<1>7. TAKE chord \in ReplaceChords
<1>8. Has(Chords, chord) BY <1>6 DEF Has, Chords
<1>9. RowOf(Chords, chord) \in Chords /\ RowOf(Chords, chord).key = chord BY <1>8 DEF Has, RowOf
<1> QED BY <1>1, <1>2, <1>3, <1>4, <1>5, <1>8, <1>9 DEF Chords

\* so the field is in its mode.
LEMMA ReplaceChordOwing ==
  ASSUME NEW s, Still(s), NEW chord \in ReplaceChords
  PROVE  OwingDone(Follow([s EXCEPT !.dEd = TRUE], Chords, chord))
<1> DEFINE row == RowOf(Chords, chord)
           v == [s EXCEPT !.dEd = TRUE]
           t == [v EXCEPT !.mode = "drawer"]
<1>0. s \in State BY DEF Still, Good
<1>1. Has(Chords, chord) /\ row.to = "drawer" /\ row.act \in OpenDrawer BY ReplaceRows
<1>2. v \in State /\ t \in State BY <1>0 DEF State, Modes
<1>3. /\ t.mode = "drawer" /\ t.chord = s.chord /\ (t.tEd <=> s.tEd)
      /\ t.ui = s.ui /\ t.asked = s.asked BY <1>0 DEF State
<1>4. Follow(v, Chords, chord) = Done(t, row.act) BY <1>1 DEF Follow
<1> HIDE DEF row, v, t
<1>5. Promised(t, row.act) BY <1>1, <1>3 DEF Promised, Still, Popups
<1>6. Fitting(t, row.act) BY <1>1, <1>3 DEF Fitting, OpenDrawer
<1>7. OneShown(t) BY <1>3 DEF Still, Good, OneShown
<1>8. Owing(t, row.act) BY <1>2, <1>3, <1>5, <1>6, <1>7 DEF Owing, Still
<1>9. OwingDone(Done(t, row.act)) BY <1>8 DEF OwingDone, Done
<1> QED BY <1>4, <1>9 DEF v

\* handle_leader: a chord, its first key, or the end of it.
LEMMA HandleLeaderOwing ==
  ASSUME NEW s, Good(s), s.mode = "leader", NEW k PROVE OwingDone(HandleLeader(s, k))
<1> DEFINE chord == Append(s.chord, k)
           left == [s EXCEPT !.chord = <<>>]
<1>1. Still(left) /\ left.mode = "leader" BY ChordStill
<1>2. /\ SafeRow("picker", "PICKER_OPEN_FILES") /\ SafeRow("normal", "TOGGLE_FILE_TREE")
      /\ SafeRow("tree", "TOGGLE_FILE_TREE") /\ SafeRow("normal", "NONE")
  BY DEF SafeRow, Targets, OpenTree, EndList
<1>3. Len(chord) = 1 => s.chord = <<>> /\ chord = <<k>>
  <2>1. s.chord \in Starts BY DEF Good, State
  <2> QED BY <2>1, Appended
<1> HIDE DEF chord, left
<1>4. OwingDone(Done([left EXCEPT !.mode = "picker"], "PICKER_OPEN_FILES"))
  BY <1>1, <1>2, MoveOwing DEF Targets, OwingDone, Done
<1>5. OwingDone(Done([left EXCEPT !.mode = IF s.prev = "tree" THEN "normal" ELSE "tree"], "TOGGLE_FILE_TREE"))
  BY <1>1, <1>2, MoveOwing DEF Targets, OwingDone, Done
<1>6. OwingDone(Follow(left, Chords, chord)) BY <1>1, FollowOwing, SafeTables
<1>7. chord \in ReplaceChords => OwingDone(Follow([left EXCEPT !.dEd = TRUE], Chords, chord))
  BY <1>1, ReplaceChordOwing
<1>8. Len(chord) = 1 /\ k \in ChordHeads => OwingDone(Done([s EXCEPT !.chord = chord], "NONE"))
  BY <1>3, HeadOwing DEF OwingDone, Done
<1>9. OwingDone(Done([left EXCEPT !.mode = "normal"], "NONE"))
  BY <1>1, <1>2, MoveOwing DEF Targets, OwingDone, Done
<1> QED BY <1>4, <1>5, <1>6, <1>7, <1>8, <1>9 DEF HandleLeader, ReplaceChords, left, chord

\* Rows of the fields of the drawer leave the mode alone.
LEMMA ReplaceKeysStay ==
  \A row \in ReplaceKeys : row.to = "same"
BY DEF ReplaceKeys, Do

\* A key of the fields of the drawer stays there.
LEMMA ReplaceFieldOwing ==
  ASSUME NEW s, Good(s), NEW k
  PROVE  OwingDone(OrType(s, ReplaceKeys, k, "INSERT_CHAR"))
<1>0. s \in State BY DEF Good
<1>1. OwingDone(Done(s, "INSERT_CHAR")) /\ OwingDone(Done(s, "NONE"))
  BY StayOwing DEF EndList, OwingDone, Done
<1>2. ASSUME Has(ReplaceKeys, k) PROVE OwingDone(Follow(s, ReplaceKeys, k))
  <2> DEFINE row == RowOf(ReplaceKeys, k)
  <2>1. row \in ReplaceKeys BY <1>2 DEF Has, RowOf
  <2>2. row.to = "same" /\ SafeRow(row.to, row.act) BY <2>1, ReplaceKeysStay, SafeTables DEF SafeTable
  <2>3. Follow(s, ReplaceKeys, k) = Done([s EXCEPT !.mode = IF row.to = "same" THEN @ ELSE row.to], row.act)
    BY <1>2 DEF Follow
  <2> HIDE DEF row
  <2>4. Follow(s, ReplaceKeys, k) = Done(s, row.act) BY <2>2, <2>3, <1>0, SameMode
  <2>5. row.act \notin EndList \cup {"DRAWER_CLOSE", "LSP_SELECT_NUMBER"} BY <2>2 DEF SafeRow
  <2> QED BY <2>4, <2>5, StayOwing DEF OwingDone, Done
<1> QED BY <1>1, <1>2 DEF OrType, Follow

\* handle_drawer. Esc in a field leaves it with the drawer.
LEMMA HandleDrawerOwing ==
  ASSUME NEW s, Good(s), s.mode = "drawer", NEW k PROVE OwingDone(HandleDrawer(s, k))
<1> DEFINE t == [s EXCEPT !.mode = "normal", !.dEd = FALSE]
<1>0. s \in State /\ ~s.tEd /\ s.chord = <<>> BY DEF Good
<1>1. OwingDone(Done(t, "DRAWER_CLOSE"))
  <2>1. t \in State BY <1>0 DEF State, Modes
  <2>2. t.mode = "normal" /\ t.chord = s.chord /\ ~t.dEd /\ (t.tEd <=> s.tEd) /\ t.ui = s.ui /\ t.asked = s.asked
    BY <1>0 DEF State
  <2> HIDE DEF t
  <2>3. Promised(t, "DRAWER_CLOSE") BY <1>0, <2>2 DEF Promised, Popups
  <2>4. Owing(t, "DRAWER_CLOSE") BY <1>0, <2>1, <2>2, <2>3 DEF Owing, Fitting, EndList, OneShown, Good
  <2> QED BY <2>4 DEF OwingDone, Done
<1>2. ~s.dEd => Still(s) BY <1>0 DEF Still
<1>3. ~s.dEd => OwingDone(Lead(s, "other")) /\ OwingDone(Follow(s, DrawerKeys, k))
  BY <1>2, LeadOwing, FollowOwing, SafeTables, Values
<1>4. OwingDone(OrType(s, ReplaceKeys, k, "INSERT_CHAR")) BY ReplaceFieldOwing
<1> HIDE DEF t
<1> QED BY <1>1, <1>3, <1>4 DEF HandleDrawer, t

\* A name typed in the tree.
LEMMA TypingTreeOwing ==
  ASSUME NEW s, Good(s), s.mode = "tree", NEW act \in Creates
  PROVE  Owing([s EXCEPT !.tEd = TRUE], act)
<1> DEFINE t == [s EXCEPT !.tEd = TRUE]
<1>0. s \in State BY DEF Good
<1>1. t \in State BY <1>0 DEF State
<1>2. t.mode = s.mode /\ t.chord = s.chord /\ (t.dEd <=> s.dEd) BY <1>0 DEF State
<1>3. SameShown(s, t) BY <1>0 DEF State, SameShown
<1> HIDE DEF t
<1>4. Promised(t, act) BY <1>2, <1>3 DEF Promised, Good, Seen, SameShown, Popups
<1>5. Fitting(t, act) BY <1>2 DEF Fitting, Creates, EndList
<1>6. Owing(t, act) BY <1>1, <1>2, <1>3, <1>4, <1>5 DEF Owing, Good, SameShown, OneShown
<1> QED BY <1>6 DEF t

\* handle_tree. The keys a and A owe the prompt they type into.
LEMMA HandleTreeOwing ==
  ASSUME NEW s, Good(s), s.mode = "tree", NEW k PROVE OwingDone(HandleTree(s, k))
<1>1. ~s.tEd => Still(s) BY DEF Still, Good
<1>2. ~s.tEd => OwingDone(Lead(s, "tree")) /\ OwingDone(Follow(s, TreeKeys, k))
  BY <1>1, LeadOwing, FollowOwing, SafeTables, Values
<1>3. \A act \in {"BACKSPACE", "INSERT_CHAR", "NONE", "TREE_TOP"} : OwingDone(Done(s, act))
  BY StayOwing DEF EndList, OwingDone, Done
<1>4. Good([s EXCEPT !.tEd = FALSE]) BY NotTypingGood
<1>5. /\ OwingDone(Done([s EXCEPT !.tEd = FALSE], "LSP_CANCEL"))
      /\ OwingDone(Done([s EXCEPT !.tEd = FALSE], "LSP_SELECT_CONFIRM"))
  BY <1>4, StayOwing DEF EndList, OwingDone, Done
<1>6. OwingDone(HandleTreePrompt(s, k)) BY <1>3, <1>5 DEF HandleTreePrompt
<1>7. /\ OwingDone(Done([s EXCEPT !.tEd = TRUE], "TREE_CREATE_FILE"))
      /\ OwingDone(Done([s EXCEPT !.tEd = TRUE], "TREE_CREATE_DIR"))
  BY TypingTreeOwing DEF Creates, OwingDone, Done
<1> QED BY <1>2, <1>3, <1>6, <1>7 DEF HandleTree

\* handle_completion.
LEMMA HandleCompletionOwing ==
  ASSUME NEW s, Good(s), s.mode = "completion", NEW k PROVE OwingDone(HandleCompletion(s, k))
<1>1. Still(s) BY GoodStill
<1>2. \A m \in {"normal", "insert"}, act \in {"LSP_CANCEL", "LSP_SELECT_CONFIRM"} : SafeRow(m, act) /\ m \in Targets
  BY DEF SafeRow, Targets, EndList
<1>3. \A m \in {"normal", "insert"}, act \in {"LSP_CANCEL", "LSP_SELECT_CONFIRM"} :
         OwingDone(Done([s EXCEPT !.mode = m], act))
  BY <1>1, <1>2, MoveOwing DEF OwingDone, Done
<1>4. OwingDone(OrType(s, CompletionKeys, k, "INSERT_CHAR")) BY <1>1, OrTypeOwing, SafeTables
<1>5. (IF s.prev = "normal" THEN "normal" ELSE "insert") \in {"normal", "insert"} OBVIOUS
<1> QED BY <1>3, <1>4, <1>5 DEF HandleCompletion

\* handle_code_action: a digit is confirmed while the actions are there.
LEMMA CodeActionOwing ==
  ASSUME NEW s, Good(s), s.mode = "code_action", NEW k PROVE OwingDone(Follow(s, CodeActionKeys, k))
<1>1. Still(s) BY GoodStill
<1>2. \A row \in CodeActionKeys : SafeRow(row.to, row.act) \/ (row.to = "normal" /\ row.act = "LSP_SELECT_NUMBER")
  BY DEF CodeActionKeys, Do, Go, SafeRow, Targets, EndList
<1>3. s.ui = "action" BY DEF Good, Seen, Popups, ModeOf, State, Uis
<1>4. CASE Has(CodeActionKeys, k) /\ RowOf(CodeActionKeys, k).act = "LSP_SELECT_NUMBER"
  <2> DEFINE row == RowOf(CodeActionKeys, k)
             t == [s EXCEPT !.mode = "normal"]
  <2>1. row \in CodeActionKeys BY <1>4 DEF Has, RowOf
  <2>2. row.to = "normal" BY <1>2, <1>4, <2>1 DEF SafeRow
  <2>3. Follow(s, CodeActionKeys, k) = Done(t, "LSP_SELECT_NUMBER") BY <1>4, <2>2 DEF Follow
  <2>a. SafeRow("normal", "NONE") /\ "normal" \in Targets BY DEF SafeRow, Targets, EndList
  <2>4. Owing(t, "NONE") BY <1>1, <2>a, MoveOwing
  <2>5. t.ui = s.ui BY DEF Good, State
  <2> HIDE DEF t, row
  <2>6. Owing(t, "LSP_SELECT_NUMBER") BY <1>3, <2>4, <2>5 DEF Owing, Promised, Fitting, EndList, OpenTree, OpenDrawer, Creates
  <2> QED BY <2>3, <2>6 DEF OwingDone, Done
<1>5. CASE ~(Has(CodeActionKeys, k) /\ RowOf(CodeActionKeys, k).act = "LSP_SELECT_NUMBER")
  <2> DEFINE row == RowOf(CodeActionKeys, k)
  <2>1. CASE Has(CodeActionKeys, k)
    <3>1. row \in CodeActionKeys BY <2>1 DEF Has, RowOf
    <3>2. SafeRow(row.to, row.act) BY <1>2, <1>5, <2>1, <3>1
    <3>3. Follow(s, CodeActionKeys, k) = Done([s EXCEPT !.mode = IF row.to = "same" THEN @ ELSE row.to], row.act)
      BY <2>1 DEF Follow
    <3> HIDE DEF row
    <3>4. CASE row.to = "same"
      <4>1. s \in State BY DEF Good
      <4>2. Follow(s, CodeActionKeys, k) = Done(s, row.act) BY <3>3, <3>4, <4>1, SameMode
      <4>3. row.act \notin EndList \cup {"DRAWER_CLOSE", "LSP_SELECT_NUMBER"} BY <3>2, <3>4 DEF SafeRow
      <4> QED BY <4>2, <4>3, StayOwing DEF OwingDone, Done
    <3>5. CASE row.to # "same"
      <4>1. Follow(s, CodeActionKeys, k) = Done([s EXCEPT !.mode = row.to], row.act) BY <3>3, <3>5
      <4>2. row.to \in Targets BY <3>2, <3>5 DEF SafeRow
      <4>3. Owing([s EXCEPT !.mode = row.to], row.act) BY <1>1, <4>2, <3>2, MoveOwing
      <4> QED BY <4>1, <4>3 DEF OwingDone, Done
    <3> QED BY <3>4, <3>5
  <2>2. CASE ~Has(CodeActionKeys, k)
    <3>1. Follow(s, CodeActionKeys, k) = Done(s, "NONE") BY <2>2 DEF Follow
    <3> QED BY <3>1, StayOwing DEF OwingDone, Done, EndList
  <2> QED BY <2>1, <2>2
<1> QED BY <1>4, <1>5

\* The fields of the lists, the search and the new name.
LEMMA TypingOwing ==
  ASSUME NEW s, Good(s), s.mode \in {"picker", "help", "rename", "search"}, NEW k
  PROVE  /\ OwingDone(HandlePicker(s, k)) /\ OwingDone(HandleHelp(s, k))
         /\ OwingDone(HandleRename(s, k)) /\ OwingDone(HandleSearch(s, k))
<1>1. Still(s) BY GoodStill
<1> QED BY <1>1, OrTypeOwing, SafeTables DEF HandlePicker, HandleHelp, HandleRename, HandleSearch

\* ide_fsm_handle_key_at: whatever the key, the mode owes no more than the
\* action makes good.
LEMMA HandleKeyOwing ==
  ASSUME NEW s, Good(s), NEW k, NEW quick PROVE OwingDone(HandleKey(s, k, quick))
<1>0. s.mode \in Modes BY DEF Good, State
<1>1. CASE s.mode = "normal" BY <1>1, HandleNormalOwing DEF HandleKey
<1>2. CASE s.mode = "insert" BY <1>2, HandleInsertOwing DEF HandleKey
<1>3. CASE s.mode = "select" BY <1>3, HandleSelectOwing DEF HandleKey
<1>4. CASE s.mode = "leader" BY <1>4, HandleLeaderOwing DEF HandleKey
<1>5. CASE s.mode = "match" BY <1>5, HandleMatchOwing DEF HandleKey
<1>6. CASE s.mode = "drawer" BY <1>6, HandleDrawerOwing DEF HandleKey
<1>7. CASE s.mode = "tree" BY <1>7, HandleTreeOwing DEF HandleKey
<1>8. CASE s.mode = "picker" BY <1>8, TypingOwing DEF HandleKey
<1>9. CASE s.mode = "help" BY <1>9, TypingOwing DEF HandleKey
<1>10. CASE s.mode = "diff_review"
  <2>1. OwingDone(Follow(s, ReviewKeys, k)) BY <1>10, GoodStill, FollowOwing, SafeTables
  <2> QED BY <1>10, <2>1 DEF HandleKey
<1>11. CASE s.mode = "hover"
  <2>1. OwingDone(Follow(s, HoverKeys, k)) BY <1>11, GoodStill, FollowOwing, SafeTables
  <2> QED BY <1>11, <2>1 DEF HandleKey
<1>12. CASE s.mode = "completion" BY <1>12, HandleCompletionOwing DEF HandleKey
<1>13. CASE s.mode = "code_action" BY <1>13, CodeActionOwing DEF HandleKey
<1>14. CASE s.mode = "rename" BY <1>14, TypingOwing DEF HandleKey
<1>15. CASE s.mode = "search" BY <1>15, TypingOwing DEF HandleKey
<1> QED BY <1>0, <1>1, <1>2, <1>3, <1>4, <1>5, <1>6, <1>7, <1>8, <1>9, <1>10, <1>11, <1>12, <1>13, <1>14, <1>15
        DEF Modes

\* With the timer armed that is what the window starts from.
LEMMA KeyedOwed ==
  ASSUME NEW s, Good(s), NEW k, NEW quick
  PROVE  Owed(Keyed(s, k, quick).s, Keyed(s, k, quick).act)
<1> DEFINE done == HandleKey(s, k, quick)
           u == done.s
           t == [u EXCEPT !.last = Remembered(s.mode, done, k), !.timer = (u.mode = "leader")]
<1>1. Owing(u, done.act) BY HandleKeyOwing DEF OwingDone
<1>2. Remembered(s.mode, done, k) \in Firsts BY Values DEF Remembered
<1>3. Keyed(s, k, quick) = Done(t, done.act) BY DEF Keyed
<1>4. u \in State BY <1>1 DEF Owing
<1> HIDE DEF done, u
<1>5. (u.mode = "leader") \in BOOLEAN OBVIOUS
<1>6. t \in State BY <1>2, <1>4, <1>5 DEF State
<1>7. /\ t.mode = u.mode /\ t.chord = u.chord /\ (t.tEd <=> u.tEd) /\ (t.dEd <=> u.dEd) /\ (t.prompt <=> u.prompt)
      /\ t.timer <=> u.mode = "leader" BY <1>4 DEF State
<1>8. SameShown(u, t) BY <1>4 DEF State, SameShown
<1> HIDE DEF t
<1>9. Promised(t, done.act) BY <1>1, <1>7, <1>8 DEF Owing, Promised, SameShown
<1>10. Fitting(t, done.act) BY <1>1, <1>7, <1>8 DEF Owing, Fitting, SameShown
<1>11. Owed(t, done.act) BY <1>1, <1>6, <1>7, <1>8, <1>9, <1>10 DEF Owing, Owed, SameShown, OneShown
<1> QED BY <1>3, <1>11 DEF Done

\* A key that is pressed, both halves of it.
LEMMA PressedGood ==
  ASSUME NEW s, Good(s), NEW k, NEW quick, NEW t \in Pressed(s, k, quick) PROVE Good(t)
<1> DEFINE done == Keyed(s, k, quick)
<1>1. Owed(done.s, done.act) BY KeyedOwed
<1> HIDE DEF done
<1>2. t = s \/ t \in Dispatch(done.s, done.act) BY DEF Pressed, done
<1> QED BY <1>1, <1>2, DispatchGood

-----------------------------------------------------------------------------
(* The invariant: a good state, with no timer that outlives its chord.     *)

\* Every event ends with the status bar, which stops the timer.
Inv == Good(ide) /\ (ide.timer => ide.mode = "leader")

\* The status bar brings the second part back.
LEMMA StatusBarGood ==
  ASSUME NEW s, Good(s)
  PROVE  Good(StatusBar(s)) /\ (StatusBar(s).timer => StatusBar(s).mode = "leader")
<1> DEFINE t == StatusBar(s)
<1>0. s \in State BY DEF Good
<1>1. (s.timer /\ s.mode = "leader") \in BOOLEAN OBVIOUS
<1>2. t \in State BY <1>0, <1>1 DEF StatusBar, State
<1>3. t.timer <=> s.timer /\ s.mode = "leader" BY <1>0 DEF StatusBar, State
<1>4. t.mode = s.mode /\ t.chord = s.chord /\ (t.tEd <=> s.tEd) /\ (t.dEd <=> s.dEd) /\ (t.prompt <=> s.prompt)
  BY <1>0 DEF StatusBar, State
<1>5. SameShown(s, t) BY <1>0 DEF StatusBar, State, SameShown
<1> HIDE DEF t
<1>6. Seen(t, s.mode) BY <1>5 DEF Good, Seen, SameShown
<1>7. OneShown(t) BY <1>5 DEF Good, OneShown, SameShown
<1>8. Good(t) BY <1>2, <1>3, <1>4, <1>6, <1>7 DEF Good
<1> QED BY <1>3, <1>4, <1>8 DEF t

\* So an event keeps the invariant when the states it leads to are good.
LEMMA BecomesInv ==
  ASSUME NEW S, \A s \in S : Good(s), Becomes(S) PROVE Inv'
BY StatusBarGood DEF Becomes, Inv

\* The events. A key,
LEMMA KeyInv ==
  ASSUME Inv, NEW k, NEW quick, Key(k, quick) PROVE Inv'
BY PressedGood, BecomesInv DEF Key, Inv

\* NORMAL from a good state.
LEMMA ToNormalGood ==
  ASSUME NEW s, Good(s) PROVE Good(SetState(s, "normal"))
BY ToNormal DEF Good

\* the keys with a path of their own and the two ends of a chord;
LEMMA EscapeInv ==
  ASSUME Inv, ReplEscape \/ LateKey \/ LeaderTimeout PROVE Inv'
<1>1. CASE ReplEscape
  <2>1. Good(OnEditor(SetState(ide, "normal"))) BY ToNormalGood, OnEditorGood DEF Inv
  <2> QED BY <1>1, <2>1, BecomesInv DEF ReplEscape
<1>2. CASE LateKey
  <2>1. Good(ExpireLeader(ide)) BY <1>2, ExpireLeaderGood DEF LateKey, Inv, Good
  <2> QED BY <1>2, <2>1, BecomesInv DEF LateKey
<1>3. CASE LeaderTimeout
  <2> DEFINE s == [ide EXCEPT !.timer = FALSE]
  <2>1. ide.mode = "leader" /\ ide \in State BY <1>3 DEF LeaderTimeout, Inv, Good
  <2>2. s \in State BY <2>1 DEF State
  <2>3. s.mode = ide.mode /\ (s.tEd <=> ide.tEd) /\ (s.dEd <=> ide.dEd) /\ s.ui = ide.ui /\ s.asked = ide.asked
    BY <2>1 DEF State
  <2> HIDE DEF s
  <2>4. Good(ExpireLeader(s)) BY <2>1, <2>2, <2>3, ExpireLeaderGood DEF Inv, Good, OneShown
  <2> QED BY <1>3, <2>4, BecomesInv DEF LeaderTimeout, s
<1> QED BY <1>1, <1>2, <1>3

\* a file, a frame of the debugger or an answer that arrives;
LEMMA FileInv ==
  ASSUME Inv, LspAnswer \/ FileOpened \/ FrameShown \/ PreviewJump PROVE Inv'
<1>1. Good(ide) /\ Base(ide) BY GoodIsBase DEF Inv
<1>2. CASE LspAnswer BY <1>1, <1>2, AnsweredGood, BecomesInv DEF LspAnswer
<1>3. CASE FileOpened BY <1>1, <1>3, OnOpenFileGood, BecomesInv DEF FileOpened
<1>4. CASE FrameShown BY <1>1, <1>4, OpenPathGood, BecomesInv DEF FrameShown
<1>5. CASE PreviewJump BY <1>1, <1>5, CursorMovesGood, BecomesInv DEF PreviewJump
<1> QED BY <1>2, <1>3, <1>4, <1>5

\* the buttons of the header;
LEMMA HeaderInv ==
  ASSUME Inv, HelpKey \/ HeaderTree \/ HeaderFind \/ HeaderBuild \/ HeaderMarkdown PROVE Inv'
<1>0. Good(ide) /\ Base(ide) /\ ide \in State BY GoodIsBase DEF Inv, Good
<1>1. CASE HelpKey
  <2>1. Owed(ide, "HELP_TOGGLE") BY <1>0, GoodOwed DEF Fitting, EndList
  <2> QED BY <1>1, <2>1, DispatchGood, BecomesInv DEF HelpKey
<1>2. CASE HeaderTree
  <2> DEFINE m == IF ide.tree THEN "normal" ELSE "tree"
  <2>1. m \in {"normal", "tree"} /\ "TOGGLE_FILE_TREE" \in OpenTree BY DEF OpenTree
  <2>2. Owed(SetState(ide, m), "TOGGLE_FILE_TREE") BY <1>0, <2>1, SetStateOwed
  <2> QED BY <1>2, <2>2, DispatchGood, BecomesInv DEF HeaderTree
<1>3. CASE HeaderFind
  <2>1. "picker" \in Modes \ {"leader"} /\ Seen(ide, "picker") BY DEF Modes, Seen, Popups
  <2>2. Good(SetState(ide, "picker")) /\ SetState(ide, "picker").mode = "picker"
    BY <1>0, <2>1, SetStateGood, SetStateSets
  <2>3. Good(PickerShown(SetState(ide, "picker"), "files")) BY <2>2, PickerShownGood, Values
  <2> QED BY <1>3, <2>3, BecomesInv DEF HeaderFind
<1>4. CASE HeaderBuild
  <2>1. Owed(ide, "NONE") BY <1>0, GoodOwed DEF Fitting, EndList
  <2>2. Good(Drawer(ide, "other")) BY <2>1, DrawerGood, Values DEF OpenTree, Creates
  <2> QED BY <1>4, <2>2, BecomesInv DEF HeaderBuild
<1>5. CASE HeaderMarkdown
  <2>1. Owed(ide, "TOGGLE_MARKDOWN_PREVIEW") BY <1>0, GoodOwed DEF Fitting, EndList
  <2> QED BY <1>5, <2>1, DispatchGood, BecomesInv DEF HeaderMarkdown
<1> QED BY <1>1, <1>2, <1>3, <1>4, <1>5

\* those of the drawer, whose button to close it also ends its mode;
LEMMA DrawerInv ==
  ASSUME Inv, DrawerClose \/ \E p \in {"dap", "other"} : DrawerTab(p) PROVE Inv'
<1>0. Good(ide) /\ Base(ide) /\ ide \in State BY GoodIsBase DEF Inv, Good
<1>1. ASSUME NEW p \in {"dap", "other"}, DrawerTab(p) PROVE Inv'
  <2>1. Owed(ide, "NONE") BY <1>0, GoodOwed DEF Fitting, EndList
  <2>2. Good(Drawer(ide, p)) BY <2>1, DrawerGood, Values DEF OpenTree, Creates
  <2> QED BY <1>1, <2>2, BecomesInv DEF DrawerTab
<1>2. CASE DrawerClose
  <2> DEFINE s == NoDrawer(ide)
             t == IF s.mode = "drawer" THEN SetState(s, "normal") ELSE s
  <2>1. s.mode = ide.mode BY <1>0, NoDrawerFacts DEF SameModes
  <2>2. Base(s) BY <1>0, NoDrawerBase
  <2>3. Good(SetState(s, "normal")) BY <2>2, ToNormal DEF Base
  <2>4. s.mode # "drawer" => Good(s) BY <1>0, <2>1, NoDrawerGood
  <2>5. Good(OnEditor(t)) BY <2>3, <2>4, OnEditorGood
  <2> HIDE DEF s
  <2>6. Becomes({OnEditor(t)}) BY <1>2 DEF DrawerClose, Becomes, s
  <2> QED BY <2>5, <2>6, BecomesInv
<1> QED BY <1>1, <1>2

\* clicks into the text;
LEMMA EditorInv ==
  ASSUME Inv, \/ EditorPress \/ CtrlClick \/ TabClick
              \/ \E selected \in BOOLEAN : EditorRelease(selected) \/ SecondaryPress(selected)
  PROVE  Inv'
<1>0. Good(ide) BY DEF Inv
<1>1. Good(OnEditor(ide)) BY <1>0, OnEditorGood
<1>2. CASE EditorPress
  <2> DEFINE s == IF ide.ui # "closed" /\ ide.mode # "rename" THEN Cancel(OnEditor(ide)) ELSE OnEditor(ide)
             t == IF s.mode \in {"tree", "drawer", "leader", "match"} THEN SetState(s, "normal") ELSE s
  <2>1. Good(s) BY <1>1, CancelGood
  <2>2. Becomes(CursorMoves(t)) BY <1>2 DEF EditorPress
  <2> HIDE DEF s
  <2>3. Good(t) BY <2>1, ToNormalGood
  <2> HIDE DEF t
  <2> QED BY <2>2, <2>3, CursorMovesGood, BecomesInv
<1>3. CASE CtrlClick BY <1>1, <1>3, CursorMovesGood, BecomesInv DEF CtrlClick
<1>4. CASE TabClick BY <1>1, <1>4, BecomesInv DEF TabClick
<1>5. ASSUME NEW selected \in BOOLEAN, EditorRelease(selected) PROVE Inv'
  <2>1. "select" \in Modes \ {"leader"} /\ Seen(ide, "select") BY DEF Modes, Seen, Popups
  <2>2. Good(SetState(ide, "select")) BY <1>0, <2>1, GoodIsBase, SetStateGood
  <2>3. Good(SetState(ide, "normal")) BY <1>0, ToNormalGood
  <2>4. PICK t \in {SetState(ide, "select"), SetState(ide, "normal"), ide} : Becomes({t})
    BY <1>5 DEF EditorRelease
  <2> QED BY <1>0, <2>2, <2>3, <2>4, BecomesInv
<1>6. ASSUME NEW selected \in BOOLEAN, SecondaryPress(selected) PROVE Inv'
  <2>1. PICK s \in CursorMoves(OnEditor(ide)) : Becomes({s}) \/ Becomes({SetState(s, "normal")})
    BY <1>6 DEF SecondaryPress, Becomes
  <2>2. Good(s) BY <1>1, CursorMovesGood
  <2> QED BY <2>1, <2>2, ToNormalGood, BecomesInv
<1> QED BY <1>2, <1>3, <1>4, <1>5, <1>6

\* The field of the debugger takes the focus, not the mode.
LEMMA ReplGood ==
  ASSUME NEW s, Good(s) PROVE Good([s EXCEPT !.focus = "repl"])
<1> DEFINE t == [s EXCEPT !.focus = "repl"]
<1>0. s \in State BY DEF Good
<1>1. t \in State BY <1>0, Values DEF State
<1>2. SameModes(s, t) BY <1>0 DEF State, SameModes
<1>3. SameShown(s, t) BY <1>0 DEF State, SameShown
<1> QED BY <1>1, <1>2, <1>3, GoodSame

\* what closes a popover under the keys;
LEMMA PopoverInv ==
  ASSUME Inv, ScrollAway \/ FocusLeaves \/ ReplClick PROVE Inv'
<1>1. Good(ide) /\ Good(Cancel(ide)) BY CancelGood DEF Inv
<1>2. CASE ScrollAway BY <1>1, <1>2, BecomesInv DEF ScrollAway
<1>3. CASE FocusLeaves BY <1>1, <1>3, BecomesInv DEF FocusLeaves
<1>4. CASE ReplClick
  <2>1. PICK s \in {ide, Cancel(ide)} : Becomes({[s EXCEPT !.focus = "repl"]}) BY <1>4 DEF ReplClick
  <2> QED BY <1>1, <2>1, ReplGood, BecomesInv
<1> QED BY <1>2, <1>3, <1>4

\* rows of the tree and the lists, and the menu of the code.
LEMMA ListInv ==
  ASSUME Inv, \/ TreeRow \/ PickerRow \/ PickerEsc
              \/ \E act \in MenuActions : CodeMenu(act)
  PROVE  Inv'
<1>0. Good(ide) /\ Base(ide) BY GoodIsBase DEF Inv
<1>1. CASE TreeRow BY <1>0, <1>1, OnOpenFileGood, BecomesInv DEF TreeRow
<1>2. CASE PickerRow BY <1>0, <1>2, ChosenGood, BecomesInv DEF PickerRow
<1>3. CASE PickerEsc
  <2>1. Base(PickerClosed(ide)) BY <1>0, PickerShownBase, Values DEF PickerClosed
  <2> QED BY <1>3, <2>1, CommandGood, BecomesInv DEF PickerEsc
<1>4. ASSUME NEW act \in MenuActions, CodeMenu(act) PROVE Inv'
  <2>1. Owed(ide, act) BY <1>0, GoodOwed DEF MenuActions, Fitting, EndList
  <2> QED BY <1>4, <2>1, DispatchGood, BecomesInv DEF CodeMenu
<1> QED BY <1>1, <1>2, <1>3, <1>4

\* The window opens in NORMAL.
LEMMA InitInv == Init => Inv
<1> SUFFICES ASSUME Init PROVE Inv OBVIOUS
<1>1. ide \in State BY Values DEF Init, State, Modes
<1> QED BY <1>1 DEF Init, Inv, Good, Seen, OneShown, Popups

\* Every event keeps the invariant.
LEMMA NextInv == Inv /\ [Next]_vars => Inv'
<1> SUFFICES ASSUME Inv, [Next]_vars PROVE Inv' OBVIOUS
<1>1. CASE UNCHANGED vars BY <1>1 DEF Inv, vars
<1>2. CASE Next BY <1>2, KeyInv, EscapeInv, FileInv, HeaderInv, DrawerInv, EditorInv, PopoverInv, ListInv DEF Next
<1> QED BY <1>1, <1>2

\* The keys go to what is on the screen: a mode of the tree, the drawer, the
\* palette or a popover is there only while that is shown, a field has the keys
\* only in its mode, and a chord has its timer (ide_fsm.c:1870,
\* ide_actions.c:398, ide_window.c:713-855).
THEOREM KeysGoToWhatIsShownAlways == Spec => []KeysGoToWhatIsShown
<1>1. Inv => KeysGoToWhatIsShown BY DEF Inv, Good, Seen, Popups, KeysGoToWhatIsShown
<1> QED BY <1>1, InitInv, NextInv, PTL DEF Spec

\* While an answer is awaited that opens a popover none is shown, so it never
\* opens over another one (ide_lsp.c:1331).
THEOREM OnePopoverAlways == Spec => []OnePopover
<1>1. Inv => OnePopover BY DEF Inv, Good, OneShown, OnePopover
<1> QED BY <1>1, InitInv, NextInv, PTL DEF Spec

-----------------------------------------------------------------------------
(* Esc.                                                                    *)

\* What an Esc does besides leaving its mode, and the tables that have it.
EscActions == {"NONE", "MOVE_LEFT", "COLLAPSE_SELECTION", "DRAWER_CLOSE", "PANE_FOCUS_BUFFER",
               "PICKER_CANCEL", "HELP_CANCEL", "LSP_CANCEL", "SEARCH_CANCEL"}
EscRows(table) == \A row \in table : row.key = "esc" => row.to = "normal" /\ row.act \in EscActions
EscTable(table) == Has(table, "esc") /\ EscRows(table)

\* An Esc that gives NORMAL.
Leaves(done) == done.s.mode = "normal" /\ done.act \in EscActions

\* A key that is named among others has a row.
LEMMA HasGo ==
  ASSUME NEW table, NEW keys, NEW to, NEW act, Go(keys, to, act) \subseteq table, "esc" \in keys
  PROVE  Has(table, "esc")
<1>1. [key |-> "esc", to |-> to, act |-> act] \in Go(keys, to, act) BY DEF Go
<1> QED BY <1>1 DEF Has

\* In these modes Esc has a row, and each of its rows leads to NORMAL.
LEMMA EscTables ==
  /\ EscTable(InsertKeys) /\ EscTable(SelectKeys) /\ EscTable(DrawerKeys) /\ EscTable(TreeKeys)
  /\ EscTable(PickerKeys) /\ EscTable(HelpKeys) /\ EscTable(ReviewKeys) /\ EscTable(HoverKeys)
  /\ EscTable(CodeActionKeys) /\ EscTable(RenameKeys) /\ EscTable(SearchKeys)
<1> USE DEF Do, EscRows, EscActions, Pages
<1>1. EscRows(InsertEdits) BY DEF InsertEdits, Go
<1>2. EscRows(InsertMoves) BY DEF InsertMoves, Go
<1>3. EscRows(SelectEdits) BY DEF SelectEdits, Go
<1>3m. EscRows(SelectMoves) BY DEF SelectMoves, Go
<1>4. EscRows(DrawerKeys) BY DEF DrawerKeys, Go
<1>5. EscRows(TreeKeys) BY DEF TreeKeys, Go
<1>6. EscRows(PickerKeys) BY DEF PickerKeys, Go
<1>7. EscRows(HelpKeys) BY DEF HelpKeys, Go
<1>8. EscRows(ReviewKeys) BY DEF ReviewKeys, Go
<1>9. EscRows(HoverKeys) BY DEF HoverKeys, Go
<1>10. EscRows(CodeActionKeys) BY DEF CodeActionKeys, Go
<1>11. EscRows(RenameKeys) BY DEF RenameKeys, Go
<1>12. EscRows(SearchKeys) BY DEF SearchKeys, Go
<1> HIDE DEF Do, EscRows, EscActions, Pages
<1>13. EscRows(InsertKeys) BY <1>1, <1>2 DEF InsertKeys, EscRows
<1>3k. EscRows(SelectKeys) BY <1>3, <1>3m DEF SelectKeys, EscRows
<1>14. Go({"esc"}, "normal", "MOVE_LEFT") \subseteq InsertKeys BY DEF InsertKeys, InsertEdits
<1>15. Go({"esc", "v"}, "normal", "COLLAPSE_SELECTION") \subseteq SelectKeys BY DEF SelectKeys, SelectEdits
<1>16. Go({"esc", "q"}, "normal", "DRAWER_CLOSE") \subseteq DrawerKeys BY DEF DrawerKeys
<1>17. Go({"esc", "q"}, "normal", "PANE_FOCUS_BUFFER") \subseteq TreeKeys BY DEF TreeKeys
<1>18. Go({"esc"}, "normal", "PICKER_CANCEL") \subseteq PickerKeys BY DEF PickerKeys
<1>19. Go({"esc", "q", "?", "f1"}, "normal", "HELP_CANCEL") \subseteq HelpKeys BY DEF HelpKeys
<1>20. Go({"esc", "q"}, "normal", "DRAWER_CLOSE") \subseteq ReviewKeys BY DEF ReviewKeys
<1>21. Go({"esc", "q"}, "normal", "LSP_CANCEL") \subseteq HoverKeys BY DEF HoverKeys
<1>22. Go({"esc", "q"}, "normal", "LSP_CANCEL") \subseteq CodeActionKeys BY DEF CodeActionKeys
<1>23. Go({"esc"}, "normal", "LSP_CANCEL") \subseteq RenameKeys BY DEF RenameKeys
<1>24. Go({"esc"}, "normal", "SEARCH_CANCEL") \subseteq SearchKeys BY DEF SearchKeys
<1>25. EscTable(InsertKeys) BY <1>13, <1>14, HasGo DEF EscTable
<1>26. EscTable(SelectKeys) BY <1>3k, <1>15, HasGo DEF EscTable
<1>27. EscTable(DrawerKeys) BY <1>4, <1>16, HasGo DEF EscTable
<1>28. EscTable(TreeKeys) BY <1>5, <1>17, HasGo DEF EscTable
<1>29. EscTable(PickerKeys) BY <1>6, <1>18, HasGo DEF EscTable
<1>30. EscTable(HelpKeys) BY <1>7, <1>19, HasGo DEF EscTable
<1>31. EscTable(ReviewKeys) BY <1>8, <1>20, HasGo DEF EscTable
<1>32. EscTable(HoverKeys) BY <1>9, <1>21, HasGo DEF EscTable
<1>33. EscTable(CodeActionKeys) BY <1>10, <1>22, HasGo DEF EscTable
<1>34. EscTable(RenameKeys) BY <1>11, <1>23, HasGo DEF EscTable
<1>35. EscTable(SearchKeys) BY <1>12, <1>24, HasGo DEF EscTable
<1> QED BY <1>25, <1>26, <1>27, <1>28, <1>29, <1>30, <1>31, <1>32, <1>33, <1>34, <1>35

\* NORMAL has none, and so does the second key after g.
LEMMA EscHasNoRow == ~Has(GChords, "esc") /\ ~Has(NormalKeys, "esc")
<1> USE DEF Do, Go, Pages
<1>1. \A row \in GChords : row.key # "esc" BY DEF GChords
<1>2. \A row \in NormalModes : row.key # "esc" BY DEF NormalModes
<1>3. \A row \in NormalMoves : row.key # "esc" BY DEF NormalMoves
<1>4. \A row \in NormalEdits : row.key # "esc" BY DEF NormalEdits
<1>5. \A row \in NormalCommands : row.key # "esc" BY DEF NormalCommands
<1> HIDE DEF Do, Go, Pages
<1> QED BY <1>1, <1>2, <1>3, <1>4, <1>5 DEF Has, NormalKeys

\* No chord ends with Esc.
Others(table) == \A row \in table : row.key # <<"esc">> /\ (Len(row.key) = 2 => row.key[2] # "esc")

\* An Esc in a chord is the end of it.
LEMMA EscEndsNoChord ==
  ASSUME NEW chord \in Starts
  PROVE  /\ ~Has(Chords, Append(chord, "esc"))
         /\ Append(chord, "esc") # <<"e">> /\ Append(chord, "esc") \notin ReplaceChords
<1> USE DEF Go, Chord1, Chord2, Others
<1>1. Others(ChordsOfFiles) BY DEF ChordsOfFiles
<1>2. Others(ChordsOfLayout) BY DEF ChordsOfLayout
<1>3. Others(ChordsOfTools) BY DEF ChordsOfTools
<1>4. Others(ChordsOfCode) BY DEF ChordsOfCode
<1>5. Others(ChordsOfPanes) BY DEF ChordsOfPanes
<1> HIDE DEF Go, Chord1, Chord2
<1>6. Others(Chords) BY <1>1, <1>2, <1>3, <1>4, <1>5 DEF Chords
<1> DEFINE c == Append(chord, "esc")
<1>7. c = <<"esc">> \/ (Len(c) = 2 /\ c[2] = "esc") BY Appended
<1> HIDE DEF c
<1>8. c # <<"e">> BY <1>7
<1>9. c # <<"s", "r">> /\ c # <<"s", "p">> BY <1>7
<1>10. ~Has(Chords, c) BY <1>6, <1>7 DEF Has
<1> QED BY <1>8, <1>9, <1>10 DEF c, ReplaceChords

\* Following such a table leaves the mode,
LEMMA EscFollow ==
  ASSUME NEW s \in State, NEW table, EscTable(table) PROVE Leaves(Follow(s, table, "esc"))
<1> DEFINE row == RowOf(table, "esc")
           t == [s EXCEPT !.mode = "normal"]
<1>1. Has(table, "esc") /\ row \in table /\ row.key = "esc" BY DEF EscTable, Has, RowOf
<1>2. row.to = "normal" /\ row.act \in EscActions BY <1>1 DEF EscTable, EscRows
<1>3. Follow(s, table, "esc") = Done(t, row.act) BY <1>1, <1>2 DEF Follow
<1>4. t.mode = "normal" BY DEF State
<1> HIDE DEF row, t
<1> QED BY <1>2, <1>3, <1>4 DEF Leaves, Done

\* also where other keys are typed: Esc is no glyph.
LEMMA EscOrType ==
  ASSUME NEW s \in State, NEW table, EscTable(table), NEW act PROVE Leaves(OrType(s, table, "esc", act))
BY EscFollow DEF OrType, EscTable

\* Only a completion and the prompt of the tree keep the keys after one Esc.
LEMMA EscHandled ==
  ASSUME NEW s, Good(s), NEW done, done = HandleKey(s, "esc", FALSE)
  PROVE  \/ Leaves(done)
         \/ s.mode = "completion" /\ done.s.mode = "insert" /\ done.act = "LSP_CANCEL"
         \/ s.mode = "tree" /\ s.tEd /\ done.s.mode = "tree" /\ done.act = "LSP_CANCEL"
<1>0. s \in State /\ s.mode \in Modes BY DEF Good, State
<1>a. \A m \in Modes : [s EXCEPT !.mode = m].mode = m BY <1>0 DEF State
<1>b. "NONE" \in EscActions /\ "LSP_CANCEL" \in EscActions /\ "DRAWER_CLOSE" \in EscActions BY DEF EscActions
<1>c. "normal" \in Modes /\ "insert" \in Modes BY DEF Modes
<1>1. CASE s.mode = "normal"
  <2>1. Follow(s, NormalKeys, "esc") = Done(s, "NONE") BY EscHasNoRow DEF Follow
  <2>2. done = Done(s, "NONE") BY <1>1, <2>1, EscHasNoRow DEF HandleKey, HandleNormal
  <2>3. Leaves(Done(s, "NONE")) BY <1>1, <1>b DEF Leaves, Done
  <2> QED BY <2>2, <2>3
<1>2. CASE s.mode = "insert"
  <2>1. done = OrType(s, InsertKeys, "esc", "INSERT_CHAR") BY <1>2 DEF HandleKey, HandleInsert
  <2> QED BY <1>0, <2>1, EscOrType, EscTables
<1>3. CASE s.mode = "select"
  <2>1. done = Follow(s, SelectKeys, "esc") BY <1>3, EscHasNoRow DEF HandleKey, HandleSelect
  <2> QED BY <1>0, <2>1, EscFollow, EscTables
<1>4. CASE s.mode = "leader"
  <2> DEFINE chord == Append(s.chord, "esc")
             left == [s EXCEPT !.chord = <<>>]
             t == [left EXCEPT !.mode = "normal"]
  <2>1. s.chord \in Starts BY <1>0 DEF State
  <2>2. ~Has(Chords, chord) /\ chord # <<"e">> /\ chord \notin {<<"s", "r">>, <<"s", "p">>}
    BY <2>1, EscEndsNoChord DEF ReplaceChords
  <2>3. "esc" \notin ChordHeads BY DEF ChordHeads
  <2>4. t.mode = "normal" BY <1>0 DEF State
  <2> HIDE DEF chord, left, t
  <2>5. HandleLeader(s, "esc") = Done(t, "NONE") BY <2>2, <2>3 DEF HandleLeader, chord, left, t
  <2>6. done = Done(t, "NONE") BY <1>4, <2>5 DEF HandleKey
  <2>7. Leaves(Done(t, "NONE")) BY <1>b, <2>4 DEF Leaves, Done
  <2> QED BY <2>6, <2>7
<1>5. CASE s.mode = "match"
  <2> DEFINE t == [s EXCEPT !.mode = "normal", !.obj = "none"]
  <2>1. ~IsByte("esc") BY DEF IsByte, IsGlyph, Named
  <2>2. t.mode = "normal" BY <1>0 DEF State
  <2>3. HandleMatch(s, "esc") = Done(t, "NONE") BY <2>1 DEF HandleMatch
  <2> HIDE DEF t
  <2>4. done = Done(t, "NONE") BY <1>5, <2>3 DEF HandleKey
  <2>5. Leaves(Done(t, "NONE")) BY <1>b, <2>2 DEF Leaves, Done
  <2> QED BY <2>4, <2>5
<1>6. CASE s.mode = "drawer"
  <2> DEFINE t == [s EXCEPT !.mode = "normal", !.dEd = FALSE]
  <2>1. t.mode = "normal" BY <1>0 DEF State
  <2>2. HandleDrawer(s, "esc") = IF s.dEd THEN Done(t, "DRAWER_CLOSE") ELSE Follow(s, DrawerKeys, "esc")
    BY DEF HandleDrawer
  <2> HIDE DEF t
  <2>3. done = HandleDrawer(s, "esc") BY <1>6 DEF HandleKey
  <2>4. Leaves(Done(t, "DRAWER_CLOSE")) BY <1>b, <2>1 DEF Leaves, Done
  <2>5. Leaves(Follow(s, DrawerKeys, "esc")) BY <1>0, EscFollow, EscTables
  <2> QED BY <2>2, <2>3, <2>4, <2>5
<1>7. CASE s.mode = "tree"
  <2> DEFINE t == [s EXCEPT !.tEd = FALSE]
  <2>1. t.mode = "tree" BY <1>0, <1>7 DEF State
  <2>a. HandleTreePrompt(s, "esc") = Done(t, "LSP_CANCEL") BY DEF HandleTreePrompt, IsGlyph, Named
  <2>2. HandleTree(s, "esc") = IF s.tEd THEN HandleTreePrompt(s, "esc") ELSE Follow(s, TreeKeys, "esc")
    BY DEF HandleTree
  <2> HIDE DEF t
  <2>3. done = HandleTree(s, "esc") BY <1>7 DEF HandleKey
  <2>4. Leaves(Follow(s, TreeKeys, "esc")) BY <1>0, EscFollow, EscTables
  <2>5. Done(t, "LSP_CANCEL").s.mode = "tree" /\ Done(t, "LSP_CANCEL").act = "LSP_CANCEL" BY <2>1 DEF Done
  <2> QED BY <1>7, <2>a, <2>2, <2>3, <2>4, <2>5
<1>8. CASE s.mode = "picker"
  <2>1. done = OrType(s, PickerKeys, "esc", "PICKER_INPUT") BY <1>8 DEF HandleKey, HandlePicker
  <2> QED BY <1>0, <2>1, EscOrType, EscTables
<1>9. CASE s.mode = "help"
  <2>1. done = OrType(s, HelpKeys, "esc", "HELP_INPUT") BY <1>9 DEF HandleKey, HandleHelp
  <2> QED BY <1>0, <2>1, EscOrType, EscTables
<1>10. CASE s.mode = "diff_review"
  <2>1. done = Follow(s, ReviewKeys, "esc") BY <1>10 DEF HandleKey
  <2> QED BY <1>0, <2>1, EscFollow, EscTables
<1>11. CASE s.mode = "hover"
  <2>1. done = Follow(s, HoverKeys, "esc") BY <1>11 DEF HandleKey
  <2> QED BY <1>0, <2>1, EscFollow, EscTables
<1>12. CASE s.mode = "completion"
  <2> DEFINE m == IF s.prev = "normal" THEN "normal" ELSE "insert"
             t == [s EXCEPT !.mode = m]
  <2>1. m \in {"normal", "insert"} OBVIOUS
  <2>2. t.mode = m BY <1>a, <1>c, <2>1
  <2>3. HandleCompletion(s, "esc") = Done(t, "LSP_CANCEL") BY DEF HandleCompletion
  <2> HIDE DEF m, t
  <2>4. done = Done(t, "LSP_CANCEL") BY <1>12, <2>3 DEF HandleKey
  <2>5. Done(t, "LSP_CANCEL").s.mode = m /\ Done(t, "LSP_CANCEL").act = "LSP_CANCEL" BY <2>2 DEF Done
  <2>6. m = "normal" => Leaves(Done(t, "LSP_CANCEL")) BY <1>b, <2>5 DEF Leaves
  <2> QED BY <1>12, <2>1, <2>4, <2>5, <2>6
<1>13. CASE s.mode = "code_action"
  <2>1. done = Follow(s, CodeActionKeys, "esc") BY <1>13 DEF HandleKey
  <2> QED BY <1>0, <2>1, EscFollow, EscTables
<1>14. CASE s.mode = "rename"
  <2>1. done = OrType(s, RenameKeys, "esc", "INSERT_CHAR") BY <1>14 DEF HandleKey, HandleRename
  <2> QED BY <1>0, <2>1, EscOrType, EscTables
<1>15. CASE s.mode = "search"
  <2>1. done = OrType(s, SearchKeys, "esc", "SEARCH_INPUT") BY <1>15 DEF HandleKey, HandleSearch
  <2> QED BY <1>0, <2>1, EscOrType, EscTables
<1> QED BY <1>0, <1>1, <1>2, <1>3, <1>4, <1>5, <1>6, <1>7, <1>8, <1>9, <1>10, <1>11, <1>12, <1>13, <1>14, <1>15
        DEF Modes

\* The window adds the timer only.
LEMMA KeyedKeeps ==
  ASSUME NEW s, Good(s), NEW k, NEW quick
  PROVE  /\ Keyed(s, k, quick).s.mode = HandleKey(s, k, quick).s.mode
         /\ Keyed(s, k, quick).act = HandleKey(s, k, quick).act
<1> DEFINE done == HandleKey(s, k, quick)
           u == done.s
           t == [u EXCEPT !.last = Remembered(s.mode, done, k), !.timer = (u.mode = "leader")]
<1>1. u \in State BY HandleKeyOwing DEF OwingDone, Owing
<1>2. Keyed(s, k, quick) = Done(t, done.act) BY DEF Keyed
<1> HIDE DEF done, u
<1>3. t.mode = u.mode BY <1>1 DEF State
<1> HIDE DEF t
<1>4. Done(t, done.act).s = t /\ Done(t, done.act).act = done.act BY DEF Done
<1> QED BY <1>2, <1>3, <1>4 DEF done, u

\* What an Esc does leaves the mode the key has set.
LEMMA CancelKeepsMode ==
  ASSUME NEW s \in State, s.mode \notin Popups
  PROVE  Cancel(s).mode = s.mode /\ (Cancel(s).tEd <=> s.tEd)
<1> DEFINE t == [s EXCEPT !.asked = "none"]
           u == [t EXCEPT !.ui = "closed"]
<1>1. t.mode = s.mode /\ u.mode = s.mode /\ (t.tEd <=> s.tEd) /\ (u.tEd <=> s.tEd) BY DEF State
<1>2. Cancel(s) = IF t.ui = "closed" THEN t ELSE OnUiState(u, "closed") BY DEF Cancel, SetUi
<1> HIDE DEF t, u
<1>3. OnUiState(u, "closed") = u BY <1>1 DEF OnUiState, Popups
<1> QED BY <1>1, <1>2, <1>3

\* What the action of an Esc does leaves the mode as the key has set it.
LEMMA EscDispatched ==
  ASSUME NEW u, NEW act \in EscActions, Owed(u, act), u.mode \notin Popups, u.mode # "normal" => act = "LSP_CANCEL",
         NEW t \in Dispatch(u, act)
  PROVE  t.mode = u.mode /\ (u.mode = "tree" => ~t.tEd)
<1>0. u \in State BY DEF Owed
<1>1. Good(u) BY OwedGood DEF EscActions, Openings, OpenTree, OpenDrawer, Creates
<1>2. ~Taken(u, act) BY DEF Taken, EscActions
<1>3. t \in Perform(u, act) BY <1>2 DEF Dispatch, Carried, EscActions
<1>4. CASE act \in {"NONE", "SEARCH_CANCEL"}
  <2>a. act \in Quiet BY <1>4 DEF Quiet
  <2>b. act \notin Panes \cup DOMAIN Shows \cup Pickers \cup Trees \cup Tabs \cup Jumps \cup Errors \cup Lsp
        /\ act # "TOGGLE_MARKDOWN_PREVIEW"
    BY <1>4 DEF Panes, Shows, Pickers, Trees, Tabs, Jumps, Errors, Lsp
  <2>1. t = u BY <1>3, <2>a, <2>b, PerformCases
  <2>2. u.mode # "tree" BY <1>4
  <2> QED BY <2>1, <2>2
<1>5. CASE act \in {"MOVE_LEFT", "COLLAPSE_SELECTION"}
  <2>1. u.mode # "hover" BY DEF Popups
  <2>2. act \notin Quiet \cup Panes \cup DOMAIN Shows \cup Pickers \cup Trees \cup Tabs \cup Jumps \cup Errors \cup Lsp
        /\ act # "TOGGLE_MARKDOWN_PREVIEW"
    BY <1>5 DEF Quiet, Panes, Shows, Pickers, Trees, Tabs, Jumps, Errors, Lsp
  <2>3. t \in Edit(u, act) BY <1>3, <2>2, PerformCases
  <2>4. t = u BY <1>5, <2>1, <2>3 DEF Edit, CursorMoves
  <2> QED BY <1>5, <2>4
<1>6. CASE act = "DRAWER_CLOSE"
  <2>a. act \notin Quiet \cup DOMAIN Shows \cup Pickers \cup Trees \cup Tabs \cup Jumps \cup Errors \cup Lsp
        /\ act # "TOGGLE_MARKDOWN_PREVIEW"
    BY <1>6 DEF Quiet, Shows, Pickers, Trees, Tabs, Jumps, Errors, Lsp
  <2>b. act \in Panes BY <1>6 DEF Panes
  <2>1. t \in OnPane(u, act) BY <1>3, <2>a, <2>b, PerformCases
  <2>2. t = NoDrawer(u) BY <1>6, <2>1 DEF OnPane
  <2> QED BY <1>0, <1>6, <2>2, NoDrawerFacts DEF SameModes
<1>7. CASE act = "PANE_FOCUS_BUFFER"
  <2>a. act \notin Quiet \cup DOMAIN Shows \cup Pickers \cup Trees \cup Tabs \cup Jumps \cup Errors \cup Lsp
        /\ act # "TOGGLE_MARKDOWN_PREVIEW"
    BY <1>7 DEF Quiet, Shows, Pickers, Trees, Tabs, Jumps, Errors, Lsp
  <2>b. act \in Panes BY <1>7 DEF Panes
  <2>1. t \in OnPane(u, act) BY <1>3, <2>a, <2>b, PerformCases
  <2>2. t = OnEditor(DropPrompt(u)) BY <1>7, <2>1 DEF OnPane
  <2> QED BY <1>1, <1>7, <2>2, DropPromptGood, OnEditorGood
<1>8. CASE act \in {"PICKER_CANCEL", "HELP_CANCEL"}
  <2>a. act \notin Quiet \cup Panes \cup DOMAIN Shows \cup Trees \cup Tabs \cup Jumps \cup Errors \cup Lsp
        /\ act # "TOGGLE_MARKDOWN_PREVIEW"
    BY <1>8 DEF Quiet, Panes, Shows, Trees, Tabs, Jumps, Errors, Lsp
  <2>b. act \in Pickers BY <1>8 DEF Pickers
  <2>1. t \in OnPicker(u, act) BY <1>3, <2>a, <2>b, PerformCases
  <2>2. t = OnEditor(PickerShown(u, "closed")) BY <1>8, <2>1 DEF OnPicker, PickerClosed
  <2>3. PickerShown(u, "closed") \in State /\ PickerShown(u, "closed").mode = u.mode
    BY <1>0, PickerShownFacts, Values DEF SameModes
  <2> QED BY <1>8, <2>2, <2>3, OnEditorFacts DEF SameModes
<1>9. CASE act = "LSP_CANCEL"
  <2>a. act \notin Quiet \cup Panes \cup DOMAIN Shows \cup Pickers \cup Trees \cup Tabs \cup Jumps \cup Errors
        /\ act # "TOGGLE_MARKDOWN_PREVIEW"
    BY <1>9 DEF Quiet, Panes, Shows, Pickers, Trees, Tabs, Jumps, Errors
  <2>b. act \in Lsp BY <1>9 DEF Lsp
  <2>1. t \in OnLsp(u, act) BY <1>3, <2>a, <2>b, PerformCases
  <2>2. t = Cancel(DropPrompt(u)) BY <1>9, <2>1 DEF OnLsp
  <2>3. DropPrompt(u) \in State /\ DropPrompt(u).mode = u.mode /\ ~DropPrompt(u).tEd BY <1>1, DropPromptGood DEF Good
  <2> QED BY <2>2, <2>3, CancelKeepsMode
<1> QED BY <1>4, <1>5, <1>6, <1>7, <1>8, <1>9 DEF EscActions

\* So one Esc gives NORMAL, but for a completion, which leaves to INSERT, and a
\* name in the tree, which leaves to the tree,
LEMMA EscPressed ==
  ASSUME NEW s, Good(s), NEW t \in Pressed(s, "esc", FALSE)
  PROVE  \/ t.mode = "normal"
         \/ s.mode = "completion" /\ t.mode = "insert"
         \/ s.mode = "tree" /\ s.tEd /\ t.mode = "tree" /\ ~t.tEd
<1> DEFINE done == HandleKey(s, "esc", FALSE)
           u == Keyed(s, "esc", FALSE).s
           act == Keyed(s, "esc", FALSE).act
<1>1. "esc" # "q" OBVIOUS
<1>2. t \in Dispatch(u, act) BY <1>1 DEF Pressed
<1>3. u.mode = done.s.mode /\ act = done.act BY KeyedKeeps
<1>4. \/ Leaves(done)
      \/ s.mode = "completion" /\ done.s.mode = "insert" /\ done.act = "LSP_CANCEL"
      \/ s.mode = "tree" /\ s.tEd /\ done.s.mode = "tree" /\ done.act = "LSP_CANCEL"
  BY EscHandled
<1>5. Owed(u, act) BY KeyedOwed
<1> HIDE DEF done, u, act
<1>6. /\ act \in EscActions /\ u.mode \notin Popups
      /\ u.mode # "normal" => act = "LSP_CANCEL" BY <1>3, <1>4 DEF Leaves, EscActions, Popups
<1>7. t.mode = u.mode /\ (u.mode = "tree" => ~t.tEd) BY <1>2, <1>5, <1>6, EscDispatched
<1> QED BY <1>3, <1>4, <1>7 DEF Leaves

\* The states after it are good,
LEMMA EscapedGood ==
  ASSUME NEW s, Good(s), NEW t \in Escaped(s) PROVE Good(t)
<1>1. CASE s.focus = "repl"
  <2>1. t = OnEditor(SetState(s, "normal")) BY <1>1 DEF Escaped
  <2> QED BY <2>1, ToNormalGood, OnEditorGood
<1>2. CASE s.focus # "repl" BY <1>2, PressedGood DEF Escaped
<1> QED BY <1>1, <1>2

\* and the field of the debugger is left to NORMAL.
LEMMA EscapedMode ==
  ASSUME NEW s, Good(s), NEW t \in Escaped(s)
  PROVE  \/ t.mode = "normal"
         \/ s.mode = "completion" /\ t.mode = "insert"
         \/ s.mode = "tree" /\ s.tEd /\ t.mode = "tree" /\ ~t.tEd
<1>1. CASE s.focus = "repl"
  <2>1. t = OnEditor(SetState(s, "normal")) BY <1>1 DEF Escaped
  <2>2. SetState(s, "normal").mode = "normal" BY SetStateSets DEF Good
  <2> QED BY <2>1, <2>2, ToNormalGood, OnEditorGood
<1>2. CASE s.focus # "repl" BY <1>2, EscPressed DEF Escaped
<1> QED BY <1>1, <1>2

\* Whatever the editor is doing, Esc pressed twice gives NORMAL: neither a mode
\* nor a field keeps the keyboard (ide_fsm.c:1870).
THEOREM TwoEscapesAlways == Spec => []TwoEscapesReachNormal
<1>1. Inv => TwoEscapesReachNormal
  <2> SUFFICES ASSUME Inv, NEW s \in Escaped(ide), s.mode # "normal", NEW t \in Escaped(s)
               PROVE  t.mode = "normal"
    BY DEF TwoEscapesReachNormal
  <2>1. Good(ide) /\ Good(s) BY EscapedGood DEF Inv
  <2>2. s.mode = "insert" \/ (s.mode = "tree" /\ ~s.tEd) BY <2>1, EscapedMode
  <2> QED BY <2>1, <2>2, EscapedMode
<1> QED BY <1>1, InitInv, NextInv, PTL DEF Spec

-----------------------------------------------------------------------------
(* The window of the file manager.                                         *)

Places  == Folders \cup {Files!Nowhere}
Paths   == [dir : Places, name : Int]
Entries == [dir : Places, name : Int, data : Int]
OnDisk  == [dir : Places, name : Int, data : Int, from : Paths]

WindowType ==
  [open : BOOLEAN, dir : Folders, of : Places, page : {"empty", "items", "error"},
   all : SUBSET Entries, view : Seq(Entries), sel : Entries, hidden : BOOLEAN, query : Int,
   by : {"name", "size"}, asc : BOOLEAN, timer : BOOLEAN, failed : BOOLEAN,
   history : Seq(Folders), pos : Nat, prompt : {"none", "mkdir", "rename", "delete"},
   says : Paths, menu : Paths]
ReadingType ==
  [step : {"none", "started", "read", "failed"}, dir : Places, got : SUBSET Entries]
LookType ==
  [open : BOOLEAN, shows : Entries, loads : SUBSET Entries, text : Entries, plays : Int]
JobType ==
  [do : {"trash", "delete", "restore", "rename", "mkdir", "extract", "move", "copy", "empty"},
   file : Paths, to : Paths, named : Paths, step : {"queued", "resolved", "done"}]

WritesType == [count : Nat, inplace : SUBSET Paths]

FilesType ==
  /\ disk \subseteq OnDisk
  /\ files_win \in WindowType
  /\ reading \in ReadingType
  /\ look \in LookType
  /\ clip \in [file : Paths, cut : BOOLEAN]
  /\ jobs \in Seq(JobType)
  /\ acts \in Nat /\ writes \in WritesType

\* What a folder has on the disk d.
Contents(d, folder) ==
  {[dir |-> r.dir, name |-> r.name, data |-> r.data] : r \in {x \in d : x.dir = folder}}

\* Entries that a name tells apart.
Orderly(es) == IsFiniteSet(es) /\ \A a, b \in es : a.name = b.name => a = b

OneAtAPath(d) == IsFiniteSet(d) /\ \A r, s \in d : Files!Path(r) = Files!Path(s) => r = s

\* The view lists what passes the filter, and the selection is in it.
Listed(w) ==
  /\ Files!ToSet(w.view) = {e \in w.all : Files!Matches(w, e)}
  /\ IF w.view = <<>> THEN w.sel = Files!Nothing ELSE w.sel \in Files!ToSet(w.view)

\* The same files; each is the same but for those that were rewritten in place.
PathsOf(es) == {Files!Path(e) : e \in es}
ToldOf(es, over) == {e \in es : Files!Path(e) \notin over}
SameFiles(es, c, over) == PathsOf(es) = PathsOf(c) /\ ToldOf(es, over) = ToldOf(c, over)

\* The entries are of the folder f and, if it can be watched, those it has.
ListOf(es, d, f, over) ==
  /\ \A e \in es : e.dir = f
  /\ f \notin Unwatched => SameFiles(es, Contents(d, f), over)

\* The enumeration is of the folder the window is in, and what it read is the folder as
\* it is unless the window was told of a change since.
Reads(w, r, d, over) ==
  /\ r.step = "none" => r = Files!NotReading
  /\ ~w.open => r = Files!NotReading
  /\ w.open /\ r.step # "none" => r.dir = w.dir
  /\ w.open /\ r.step = "read" /\ ~w.timer => ListOf(r.got, d, w.dir, over)

IsShown(w, r, d, over) ==
  w.open /\ r = Files!NotReading /\ ~w.timer /\ ~w.failed =>
    w.of = w.dir /\ ListOf(w.all, d, w.dir, over)

\* Quick Look is about the selection, and reads nothing else.
Looks(l, sel) ==
  /\ l.open /\ sel # Files!Nothing =>
       /\ l.shows = sel /\ l.text \in {Files!Nothing, sel} /\ l.loads \subseteq {sel}
       /\ l.plays = IF sel.data \in Media THEN sel.data ELSE 0
  /\ ~l.open => l.loads = {} /\ l.plays = 0

Visited(w) == w.pos \in 1..Len(w.history) /\ w.history[w.pos] = w.dir

FilesInv ==
  /\ FilesType
  /\ OneAtAPath(disk)
  /\ Orderly(files_win.all) /\ Orderly(reading.got)
  /\ Visited(files_win)
  /\ Listed(files_win)
  /\ Reads(files_win, reading, disk, writes.inplace)
  /\ IsShown(files_win, reading, disk, writes.inplace)
  /\ Looks(look, files_win.sel)

-----------------------------------------------------------------------------
(* The sorted view.                                                        *)

Order(w) == w.by \in {"name", "size"} /\ w.asc \in BOOLEAN

\* Of two entries one comes first, whatever the order.
LEMMA BeforeIsAnOrder ==
  ASSUME NEW w, Order(w), NEW es, es \subseteq Entries, Orderly(es)
  PROVE  /\ \A a \in es : ~Files!Before(w, a, a)
         /\ \A a, b \in es : a # b => Files!Before(w, a, b) \/ Files!Before(w, b, a)
         /\ \A a, b, c \in es :
              Files!Before(w, a, b) /\ Files!Before(w, b, c) => Files!Before(w, a, c)
<1>1. \A a \in es : a.name \in Int /\ a.data \in Int
  BY DEF Entries
<1>2. \A a, b \in es : a # b => a.name # b.name
  BY DEF Orderly
<1>3. \A a \in es : ~Files!Before(w, a, a)
  BY <1>1 DEF Files!Before
<1>4. \A a, b \in es : a # b => Files!Before(w, a, b) \/ Files!Before(w, b, a)
  BY <1>1, <1>2 DEF Files!Before, Order
<1>5. \A a, b, c \in es :
        Files!Before(w, a, b) /\ Files!Before(w, b, c) => Files!Before(w, a, c)
  BY <1>1 DEF Files!Before, Order
<1> QED
  BY <1>3, <1>4, <1>5

\* In a finite set that R orders each has a rank of its own, and the sequence by ranks
\* lists them all.
Ranked(P, R) ==
  [i \in 1..Cardinality(P) |->
     CHOOSE a \in P : Cardinality({b \in P : <<b, a>> \in R}) = i - 1]

LEMMA RankedLists ==
  ASSUME NEW P, IsFiniteSet(P), NEW R,
         \A a \in P : <<a, a>> \notin R,
         \A a, b \in P : a # b => <<a, b>> \in R \/ <<b, a>> \in R,
         \A a, b, c \in P : <<a, b>> \in R /\ <<b, c>> \in R => <<a, c>> \in R
  PROVE  /\ Ranked(P, R) \in Seq(P)
         /\ {Ranked(P, R)[i] : i \in DOMAIN Ranked(P, R)} = P
         /\ Ranked(P, R) = <<>> <=> P = {}
<1> DEFINE s == Ranked(P, R)
           n == Cardinality(P)
           First(a) == {b \in P : <<b, a>> \in R}
           rank == [a \in P |-> Cardinality(First(a))]
<1>1. n \in Nat
  BY FS_CardinalityType
<1>2. \A a \in P : IsFiniteSet(First(a)) /\ rank[a] \in 0..(n - 1)
  <2> SUFFICES ASSUME NEW a \in P
               PROVE  IsFiniteSet(First(a)) /\ rank[a] \in 0..(n - 1)
    OBVIOUS
  <2>1. First(a) \subseteq P \ {a}
    OBVIOUS
  <2>2. IsFiniteSet(P \ {a}) /\ Cardinality(P \ {a}) = n - 1
    BY <1>1, FS_RemoveElement
  <2>3. IsFiniteSet(First(a)) /\ Cardinality(First(a)) <= n - 1
    <3> HIDE DEF First, n
    <3> QED
      BY <2>1, <2>2, FS_Subset
  <2>4. Cardinality(First(a)) \in Nat
    BY <2>3, FS_CardinalityType
  <2> QED
    BY <2>3, <2>4, <1>1
<1>3. \A a, b \in P : rank[a] = rank[b] => a = b
  <2>1. ASSUME NEW a \in P, NEW b \in P, <<a, b>> \in R
        PROVE  rank[a] # rank[b]
    <3>1. First(a) \subseteq First(b) /\ a \in First(b) /\ a \notin First(a)
      BY <2>1
    <3>2. First(a) # First(b) /\ First(a) \in SUBSET First(b)
      BY <3>1
    <3>3. IsFiniteSet(First(b))
      BY <1>2
    <3> HIDE DEF First
    <3>4. Cardinality(First(a)) # Cardinality(First(b))
      BY <3>2, <3>3, FS_Subset
    <3> QED
      BY <3>4
  <2> HIDE DEF rank
  <2> QED
    BY <2>1
<1>4. rank \in Injection(P, 0..(n - 1))
  <2>1. rank \in [P -> 0..(n - 1)]
    BY <1>2
  <2>2. IsInjective(rank)
    BY <1>3 DEF IsInjective
  <2> HIDE DEF rank
  <2> QED
    BY <2>1, <2>2 DEF Injection
<1>5. rank \in Surjection(P, 0..(n - 1))
  <2>1. IsFiniteSet(0..(n - 1)) /\ Cardinality(0..(n - 1)) = n
    <3> HIDE DEF n
    <3> QED
      BY <1>1, FS_Interval
  <2> HIDE DEF rank
  <2> QED
    BY <2>1, <1>4, FS_Injection
<1>6. \A k \in 0..(n - 1) : \E a \in P : rank[a] = k
  <2> HIDE DEF rank
  <2> QED
    BY <1>5 DEF Surjection
<1>7. s = [i \in 1..n |-> CHOOSE a \in P : rank[a] = i - 1]
  <2> DEFINE Of(i) == CHOOSE a \in P : Cardinality(First(a)) = i - 1
             At(i) == CHOOSE a \in P : rank[a] = i - 1
  <2>1. \A i : Of(i) = At(i)
    <3> TAKE i
    <3>1. \A a : (a \in P /\ Cardinality(First(a)) = i - 1) <=> (a \in P /\ rank[a] = i - 1)
      OBVIOUS
    <3> QED
      BY <3>1, Zenon
  <2>2. s = [i \in 1..n |-> Of(i)]
    BY DEF Ranked
  <2>3. s = [i \in 1..n |-> At(i)]
    <3> HIDE DEF s, Of, At, n
    <3> QED
      BY <2>1, <2>2
  <2> QED
    BY <2>3
<1> HIDE DEF rank, s
<1>8. \A i \in 1..n : s[i] \in P /\ rank[s[i]] = i - 1
  <2> TAKE i \in 1..n
  <2>1. i - 1 \in 0..(n - 1)
    BY <1>1
  <2>2. PICK a \in P : rank[a] = i - 1
    BY <2>1, <1>6
  <2>3. s[i] = CHOOSE x \in P : rank[x] = i - 1
    BY <1>7
  <2> QED
    BY <2>2, <2>3
<1>9. \A a \in P : \E i \in 1..n : s[i] = a
  <2> TAKE a \in P
  <2>1. rank[a] \in 0..(n - 1)
    BY <1>2
  <2>2. PICK j \in 1..n : j = rank[a] + 1
    BY <2>1, <1>1
  <2>3. s[j] \in P /\ rank[s[j]] = j - 1
    BY <1>8
  <2>4. rank[s[j]] = rank[a]
    BY <2>1, <2>2, <2>3
  <2> QED
    BY <2>3, <2>4, <1>3
<1>10. DOMAIN s = 1..n
  BY <1>7
<1>11. s \in Seq(P)
  <2>1. s \in [1..n -> P]
    BY <1>7, <1>8
  <2> QED
    BY <2>1, <1>1
<1>12. {s[i] : i \in DOMAIN s} = P
  BY <1>8, <1>9, <1>10
<1>13. s = <<>> <=> P = {}
  BY <1>1, <1>8, <1>9, <1>10, <1>11
<1> QED
  BY <1>11, <1>12, <1>13 DEF s

\* The sorted sequence of a finite set of entries lists all of them.
LEMMA SortedLists ==
  ASSUME NEW w, Order(w), NEW es, es \subseteq Entries, Orderly(es)
  PROVE  /\ Files!Sorted(w, es) \in Seq(Entries)
         /\ Files!ToSet(Files!Sorted(w, es)) = es
         /\ Files!Sorted(w, es) = <<>> <=> es = {}
<1> DEFINE R == {p \in es \X es : Files!Before(w, p[1], p[2])}
           s == Files!Sorted(w, es)
<1>1. \A a, b \in es : <<a, b>> \in R <=> Files!Before(w, a, b)
  OBVIOUS
<1>2. s = Ranked(es, R)
  <2>1. \A a \in es : {b \in es : <<b, a>> \in R} = {b \in es : Files!Before(w, b, a)}
    BY <1>1
  <2> DEFINE At(i) == CHOOSE a \in es : Cardinality({b \in es : <<b, a>> \in R}) = i - 1
             Of(i) == CHOOSE a \in es : Cardinality({b \in es : Files!Before(w, b, a)}) = i - 1
  <2>2. \A i : At(i) = Of(i)
    <3> TAKE i
    <3>1. \A a : (a \in es /\ Cardinality({b \in es : <<b, a>> \in R}) = i - 1)
                <=> (a \in es /\ Cardinality({b \in es : Files!Before(w, b, a)}) = i - 1)
      BY <2>1
    <3> QED
      BY <3>1, Zenon
  <2>3. Ranked(es, R) = [i \in 1..Cardinality(es) |-> At(i)]
    BY DEF Ranked
  <2>4. s = [i \in 1..Cardinality(es) |-> Of(i)]
    BY DEF Files!Sorted, Cardinality, Files!Cardinality
  <2> HIDE DEF At, Of, s
  <2> QED
    BY <2>2, <2>3, <2>4
<1> HIDE DEF R, s
<1>3. /\ \A a \in es : <<a, a>> \notin R
      /\ \A a, b \in es : a # b => <<a, b>> \in R \/ <<b, a>> \in R
      /\ \A a, b, c \in es : <<a, b>> \in R /\ <<b, c>> \in R => <<a, c>> \in R
  BY <1>1, BeforeIsAnOrder
<1>4. s \in Seq(es) /\ {s[i] : i \in DOMAIN s} = es /\ (s = <<>> <=> es = {})
  BY <1>2, <1>3, RankedLists DEF Orderly
<1>5. s \in Seq(Entries)
  BY <1>4
<1> QED
  BY <1>4, <1>5 DEF s, Files!ToSet

-----------------------------------------------------------------------------
(* The window, Quick Look and the disk.                                    *)

LEMMA OrderlySubset ==
  ASSUME NEW es, Orderly(es), NEW fs, fs \subseteq es
  PROVE  Orderly(fs)
<1>1. IsFiniteSet(fs)
  BY FS_Subset DEF Orderly
<1> QED
  BY <1>1 DEF Orderly

\* A folder of a disk that has one file at a path is orderly.
LEMMA ContentsOrderly ==
  ASSUME NEW d \in SUBSET OnDisk, OneAtAPath(d), NEW folder
  PROVE  Contents(d, folder) \in SUBSET Entries /\ Orderly(Contents(d, folder))
<1> DEFINE in == {x \in d : x.dir = folder}
           entry == [r \in in |-> [dir |-> r.dir, name |-> r.name, data |-> r.data]]
           c == Contents(d, folder)
<1>1. IsFiniteSet(in)
  BY FS_Subset DEF OneAtAPath
<1>2. c = {entry[r] : r \in in}
  BY DEF Contents
<1>3. entry \in Surjection(in, c)
  <2>1. entry \in [in -> c] /\ \A e \in c : \E r \in in : entry[r] = e
    BY <1>2
  <2> HIDE DEF entry, c, in
  <2> QED
    BY <2>1 DEF Surjection
<1>4. IsFiniteSet(c)
  BY <1>1, <1>3, FS_Surjection
<1>5. c \in SUBSET Entries
  BY DEF Contents, OnDisk, Entries
<1>6. \A r, s \in in : r.name = s.name => r = s
  BY DEF OneAtAPath, Files!Path
<1>7. \A r \in in : entry[r].name = r.name
  OBVIOUS
<1>8. \A a, b \in c : a.name = b.name => a = b
  <2> TAKE a, b \in c
  <2>1. PICK r \in in : a = entry[r]
    BY <1>2
  <2>2. PICK s \in in : b = entry[s]
    BY <1>2
  <2>3. a.name = r.name /\ b.name = s.name
    BY <1>7, <2>1, <2>2
  <2> HIDE DEF entry
  <2> QED
    BY <1>6, <2>1, <2>2, <2>3
<1> QED
  BY <1>4, <1>5, <1>8 DEF Orderly

\* Filtering and sorting anew lists what passes, and leaves the rest of the window.
LEMMA RebuiltIs ==
  ASSUME NEW w \in WindowType, Orderly(w.all), NEW again \in BOOLEAN
  PROVE  LET v == Files!Rebuilt(w, again) IN
         /\ v \in WindowType /\ Listed(v)
         /\ v.open = w.open /\ v.dir = w.dir /\ v.of = w.of /\ v.all = w.all
         /\ v.timer = w.timer /\ v.failed = w.failed
         /\ v.history = w.history /\ v.pos = w.pos
<1> DEFINE es == {e \in w.all : Files!Matches(w, e)}
           view == Files!Sorted(w, es)
           kept == ~again /\ w.sel \in Files!ToSet(view)
           page == IF view = <<>> THEN "empty" ELSE "items"
           sel == IF view = <<>> THEN Files!Nothing ELSE IF kept THEN w.sel ELSE view[1]
           v == Files!Rebuilt(w, again)
<1>1. Order(w) /\ es \subseteq Entries /\ w.all \subseteq Entries
  BY DEF Order, WindowType
<1>2. Orderly(es)
  BY OrderlySubset
<1>3. view \in Seq(Entries) /\ Files!ToSet(view) = es /\ (view = <<>> <=> es = {})
  BY <1>1, <1>2, SortedLists
<1>4. v = [w EXCEPT !.view = view, !.page = page, !.sel = sel]
  BY DEF Files!Rebuilt
<1> HIDE DEF view, v
<1>5. view # <<>> => view[1] \in Entries /\ view[1] \in Files!ToSet(view)
  BY <1>3 DEF Files!ToSet
<1>6. Files!Nothing \in Entries
  BY DEF Files!Nothing, Entries, Places
<1>7. sel \in Entries /\ page \in {"empty", "items", "error"}
  BY <1>5, <1>6 DEF WindowType
<1>8. IF view = <<>> THEN sel = Files!Nothing ELSE sel \in Files!ToSet(view)
  BY <1>5
<1> HIDE DEF sel, page
<1>9. v \in WindowType
  BY <1>3, <1>4, <1>7 DEF WindowType
<1>10. /\ v.open = w.open /\ v.dir = w.dir /\ v.of = w.of /\ v.all = w.all
       /\ v.timer = w.timer /\ v.failed = w.failed
       /\ v.history = w.history /\ v.pos = w.pos
       /\ v.hidden = w.hidden /\ v.query = w.query
       /\ v.view = view /\ v.sel = sel
  BY <1>4 DEF WindowType
<1>11. es = {e \in v.all : Files!Matches(v, e)}
  BY <1>10 DEF Files!Matches
<1>12. Listed(v)
  BY <1>3, <1>8, <1>10, <1>11 DEF Listed
<1> QED
  BY <1>9, <1>10, <1>12 DEF v

LEMMA PopulatedLooks ==
  ASSUME NEW l \in LookType, NEW e \in Entries, l.open
  PROVE  Files!Populate(l, e) \in LookType /\ Looks(Files!Populate(l, e), e)
<1> DEFINE p == Files!Populate(l, e)
           plays == IF e.data \in Media THEN e.data ELSE 0
           loads == IF e.data \in Media THEN {} ELSE {e}
<1>1. p = [l EXCEPT !.shows = e, !.text = Files!Nothing, !.plays = plays, !.loads = loads]
  BY DEF Files!Populate
<1>2. plays \in Int /\ loads \in SUBSET Entries /\ loads \subseteq {e}
  BY DEF Entries
<1>3. Files!Nothing \in Entries
  BY DEF Files!Nothing, Entries, Places
<1> HIDE DEF p
<1>4. /\ p.open /\ p.shows = e /\ p.text = Files!Nothing
      /\ p.plays = (IF e.data \in Media THEN e.data ELSE 0)
      /\ p.loads \subseteq {e}
  BY <1>1, <1>2 DEF LookType
<1>5. p \in LookType
  <2> HIDE DEF plays, loads
  <2> QED
    BY <1>1, <1>2, <1>3 DEF LookType
<1> QED
  BY <1>4, <1>5 DEF Looks, p

\* Quick Look follows the selection.
LEMMA SetItemLooks ==
  ASSUME NEW l \in LookType, NEW old, Looks(l, old), NEW e \in Entries
  PROVE  Files!SetItem(l, e) \in LookType /\ Looks(Files!SetItem(l, e), e)
<1>1. CASE e = Files!Nothing \/ ~l.open
  BY <1>1 DEF Files!SetItem, Looks
<1>2. CASE ~(e = Files!Nothing \/ ~l.open)
  <2>1. l.open /\ Files!SetItem(l, e) = Files!Populate(l, e)
    BY <1>2 DEF Files!SetItem, LookType
  <2> QED
    BY <2>1, PopulatedLooks
<1> QED
  BY <1>1, <1>2

LEMMA HiddenLooks ==
  ASSUME NEW l \in LookType, NEW e
  PROVE  Files!Hidden(l) \in LookType /\ Looks(Files!Hidden(l), e) /\ ~Files!Hidden(l).open
<1> DEFINE h == Files!Hidden(l)
<1>1. h = [l EXCEPT !.open = FALSE, !.loads = {}, !.plays = 0]
  BY DEF Files!Hidden
<1> HIDE DEF h
<1>2. ~h.open /\ h.loads = {} /\ h.plays = 0
  BY <1>1 DEF LookType
<1>3. h \in LookType
  <2>1. {} \in SUBSET Entries /\ 0 \in Int
    OBVIOUS
  <2> QED
    BY <1>1, <2>1 DEF LookType
<1> QED
  BY <1>2, <1>3 DEF Looks, h

-----------------------------------------------------------------------------
\* What is left of a disk has one file at a path.
LEMMA RemovedOneAtAPath ==
  ASSUME NEW d, OneAtAPath(d), NEW e, e \subseteq d
  PROVE  OneAtAPath(e)
<1>1. IsFiniteSet(e)
  BY FS_Subset DEF OneAtAPath
<1> QED
  BY <1>1 DEF OneAtAPath

LEMMA AddedOneAtAPath ==
  ASSUME NEW d, OneAtAPath(d), NEW r, \A s \in d : Files!Path(s) # Files!Path(r)
  PROVE  OneAtAPath(d \cup {r})
<1>1. IsFiniteSet(d \cup {r})
  BY FS_AddElement DEF OneAtAPath
<1> QED
  BY <1>1 DEF OneAtAPath

\* A disk as it should be, and one that is another but for some folders.
Sound(d) == d \subseteq OnDisk /\ OneAtAPath(d)
SameBut(dirs, d, e) == \A f : f \notin dirs => Contents(d, f) = Contents(e, f)

\* A file that is written at a path takes the place of the one that was there.
LEMMA PlacedOnDisk ==
  ASSUME NEW d, Sound(d), NEW p \in Paths, NEW data \in Int,
         NEW origin \in Paths, \A s \in d : Files!Path(s) # p,
         NEW r, r = [dir |-> p.dir, name |-> p.name, data |-> data, from |-> origin],
         NEW dirs, p.dir \in dirs
  PROVE  Sound(d \cup {r}) /\ SameBut(dirs, d \cup {r}, d)
<1>1. d \subseteq OnDisk /\ OneAtAPath(d)
  BY DEF Sound
<1>2. r \in OnDisk
  BY DEF OnDisk, Paths
<1>3. Files!Path(r) = p /\ r.dir = p.dir
  BY DEF Files!Path, Paths
<1>4. OneAtAPath(d \cup {r})
  BY <1>1, <1>3, AddedOneAtAPath
<1>5. \A f : f \notin dirs => {x \in d \cup {r} : x.dir = f} = {x \in d : x.dir = f}
  BY <1>3
<1>6. SameBut(dirs, d \cup {r}, d)
  BY <1>5 DEF SameBut, Contents
<1>7. d \cup {r} \subseteq OnDisk
  BY <1>1, <1>2
<1> QED
  BY <1>4, <1>6, <1>7 DEF Sound

LEMMA PlainIs ==
  /\ Files!NoPath \in Paths
  /\ \A p, data : Files!Plain(p, data) =
       [dir |-> p.dir, name |-> p.name, data |-> data, from |-> Files!NoPath]
BY DEF Files!NoPath, Files!Plain, Paths, Places

LEMMA RemovedFromDisk ==
  ASSUME NEW d, Sound(d), NEW gone, NEW dirs, \A r \in d : r \in gone => r.dir \in dirs
  PROVE  Sound(d \ gone) /\ SameBut(dirs, d \ gone, d)
<1>1. OneAtAPath(d \ gone) /\ d \ gone \subseteq OnDisk
  BY RemovedOneAtAPath DEF Sound
<1>2. \A f : f \notin dirs => {x \in d \ gone : x.dir = f} = {x \in d : x.dir = f}
  OBVIOUS
<1>3. SameBut(dirs, d \ gone, d)
  BY <1>2 DEF SameBut, Contents
<1> QED
  BY <1>1, <1>3 DEF Sound

LEMMA FilesSound ==
  ASSUME FilesInv
  PROVE  Sound(disk)
BY DEF FilesInv, FilesType, Sound

\* The files at a path: at most one.
LEMMA AtAPath ==
  ASSUME FilesType, OneAtAPath(disk), NEW p
  PROVE  /\ Files!At(p) \subseteq disk
         /\ \A r \in Files!At(p) : Files!Path(r) = p /\ r.dir = p.dir
         /\ \A r, s \in Files!At(p) : r = s
<1>1. Files!At(p) \subseteq disk /\ \A r \in Files!At(p) : Files!Path(r) = p
  BY DEF Files!At
<1>2. \A r \in Files!At(p) : r.dir = p.dir
  BY <1>1 DEF Files!Path
<1> QED
  BY <1>1, <1>2 DEF OneAtAPath

\* What is at one path, as it will be at another.
Written(from, to, origin) ==
  {[dir |-> to.dir, name |-> to.name, data |-> r.data, from |-> origin] :
     r \in Files!At(from)}

\* Writing at a path what another has, which stays or goes.
LEMMA WrittenOver ==
  ASSUME FilesType, Sound(disk), NEW from \in Paths, NEW to \in Paths,
         NEW origin \in Paths, NEW gone, Files!At(to) \subseteq gone,
         NEW dirs, to.dir \in dirs, \A r \in disk : r \in gone => r.dir \in dirs
  PROVE  /\ Sound((disk \ gone) \cup Written(from, to, origin))
         /\ SameBut(dirs, (disk \ gone) \cup Written(from, to, origin), disk)
<1> DEFINE d == disk \ gone
           new == Written(from, to, origin)
<1>1. disk \subseteq OnDisk /\ OneAtAPath(disk)
  BY DEF Sound
<1>2. Sound(d) /\ SameBut(dirs, d, disk)
  BY RemovedFromDisk
<1>3. \A s \in d : Files!Path(s) # to
  BY DEF Files!At
<1> HIDE DEF d
<1>4. Sound(d \cup new) /\ SameBut(dirs, d \cup new, d)
  <2>1. CASE Files!At(from) = {}
    <3>1. d \cup new = d
      BY <2>1 DEF Written
    <3>2. SameBut(dirs, d, d)
      BY DEF SameBut
    <3> QED
      BY <1>2, <3>1, <3>2
  <2>2. CASE Files!At(from) # {}
    <3>1. PICK r \in Files!At(from) : TRUE
      BY <2>2
    <3>2. Files!At(from) = {r} /\ r.data \in Int
      BY <3>1, <1>1, AtAPath DEF OnDisk
    <3> DEFINE x == [dir |-> to.dir, name |-> to.name, data |-> r.data, from |-> origin]
    <3>3. new = {x}
      BY <3>2 DEF Written
    <3>4. x = [dir |-> to.dir, name |-> to.name, data |-> r.data, from |-> origin]
      OBVIOUS
    <3> HIDE DEF x, new
    <3>5. Sound(d \cup {x}) /\ SameBut(dirs, d \cup {x}, d)
      BY <1>2, <1>3, <3>2, <3>4, PlacedOnDisk
    <3> QED
      BY <3>3, <3>5
  <2> QED
    BY <2>1, <2>2
<1>5. SameBut(dirs, d \cup new, disk)
  BY <1>2, <1>4 DEF SameBut
<1> QED
  BY <1>4, <1>5 DEF d

-----------------------------------------------------------------------------
\* The fields that the invariant is about.
Alike(v, w) ==
  /\ v.open = w.open /\ v.dir = w.dir /\ v.of = w.of /\ v.all = w.all
  /\ v.view = w.view /\ v.sel = w.sel /\ v.hidden = w.hidden /\ v.query = w.query
  /\ v.timer = w.timer /\ v.failed = w.failed /\ v.history = w.history /\ v.pos = w.pos

LEMMA AlikeKeeps ==
  ASSUME NEW v, NEW w, Alike(v, w), NEW r, NEW d, NEW over
  PROVE  /\ Visited(v) <=> Visited(w)
         /\ Listed(v) <=> Listed(w)
         /\ Reads(v, r, d, over) <=> Reads(w, r, d, over)
         /\ IsShown(v, r, d, over) <=> IsShown(w, r, d, over)
<1>1. \A e : Files!Matches(v, e) <=> Files!Matches(w, e)
  BY DEF Alike, Files!Matches
<1>2. {e \in v.all : Files!Matches(v, e)} = {e \in w.all : Files!Matches(w, e)}
  BY <1>1 DEF Alike
<1>3. Listed(v) <=> Listed(w)
  BY <1>2 DEF Alike, Listed
<1>4. Visited(v) <=> Visited(w)
  BY DEF Alike, Visited
<1>5. Reads(v, r, d, over) <=> Reads(w, r, d, over)
  BY DEF Alike, Reads
<1>6. IsShown(v, r, d, over) <=> IsShown(w, r, d, over)
  BY DEF Alike, IsShown
<1> QED
  BY <1>3, <1>4, <1>5, <1>6

\* The disk changes in some folders, and the window is told of those that it watches.
LEMMA DiskChanges ==
  ASSUME FilesInv, NEW d, NEW dirs, SameBut(dirs, d, disk)
  PROVE  LET w == Files!Watched(dirs)
             over == writes.inplace
         IN /\ w \in WindowType /\ w.all = files_win.all /\ w.sel = files_win.sel
            /\ Visited(w) /\ Listed(w) /\ Reads(w, reading, d, over)
            /\ IsShown(w, reading, d, over)
<1> DEFINE w == Files!Watched(dirs)
           over == writes.inplace
<1>1. CASE files_win.open /\ files_win.dir \in dirs \ Unwatched
  <2>1. w = [files_win EXCEPT !.timer = TRUE]
    BY <1>1 DEF Files!Watched
  <2> HIDE DEF w
  <2>2. w \in WindowType
    BY <2>1 DEF FilesInv, FilesType, WindowType
  <2>3. /\ w.open = files_win.open /\ w.dir = files_win.dir /\ w.all = files_win.all
        /\ w.view = files_win.view /\ w.sel = files_win.sel /\ w.hidden = files_win.hidden
        /\ w.query = files_win.query /\ w.history = files_win.history
        /\ w.pos = files_win.pos /\ w.timer
    BY <2>1 DEF FilesInv, FilesType, WindowType
  <2>4. \A e : Files!Matches(w, e) <=> Files!Matches(files_win, e)
    BY <2>3 DEF Files!Matches
  <2>5. Listed(w)
    BY <2>3, <2>4 DEF FilesInv, Listed
  <2>6. Visited(w) /\ Reads(w, reading, d, over) /\ IsShown(w, reading, d, over)
    BY <1>1, <2>3 DEF FilesInv, Visited, Reads, IsShown
  <2> QED
    BY <2>2, <2>3, <2>5, <2>6 DEF w
<1>2. CASE ~(files_win.open /\ files_win.dir \in dirs \ Unwatched)
  <2>1. w = files_win
    BY <1>2 DEF Files!Watched
  <2>2. files_win.open /\ files_win.dir \notin Unwatched
          => Contents(d, files_win.dir) = Contents(disk, files_win.dir)
    BY <1>2 DEF SameBut
  <2>3. \A es : files_win.open /\ ListOf(es, disk, files_win.dir, over)
               => ListOf(es, d, files_win.dir, over)
    BY <2>2 DEF ListOf
  <2>4. Reads(files_win, reading, d, over) /\ IsShown(files_win, reading, d, over)
    BY <2>3 DEF FilesInv, Reads, IsShown
  <2> QED
    BY <2>1, <2>4 DEF FilesInv, FilesType
<1> QED
  BY <1>1, <1>2

-----------------------------------------------------------------------------
(* The operations.                                                         *)

LEMMA FilesInitInv ==
  Files!Init => FilesInv
<1> SUFFICES ASSUME Files!Init PROVE FilesInv
  OBVIOUS
<1> USE DEF Files!Init
<1>1. Files!NoPath \in Paths /\ Files!Nothing \in Entries /\ Files!Nowhere \in Places
  BY DEF Files!NoPath, Files!Nothing, Paths, Entries, Places
<1>2. "home" \in Folders
  BY DiskAssumption
<1>3. disk \subseteq OnDisk
  BY DiskAssumption DEF OnDisk, Paths, Places
<1>4. files_win \in WindowType
  <2>1. <<>> \in Seq(Entries) /\ <<"home">> \in Seq(Folders) /\ {} \in SUBSET Entries
    BY <1>2
  <2> QED
    BY <1>1, <1>2, <2>1 DEF WindowType
<1>5. reading \in ReadingType
  BY <1>2 DEF ReadingType, Places
<1>6. look \in LookType
  BY <1>1 DEF LookType
<1>7. clip \in [file : Paths, cut : BOOLEAN] /\ jobs \in Seq(JobType)
  BY <1>1
<1>8. FilesType
  BY <1>3, <1>4, <1>5, <1>6, <1>7 DEF FilesType, WritesType
<1>9. OneAtAPath(disk)
  BY DiskAssumption DEF OneAtAPath
<1>10. Orderly(files_win.all) /\ Orderly(reading.got)
  BY FS_EmptySet DEF Orderly
<1>11. Visited(files_win)
  BY DEF Visited
<1>12. Listed(files_win)
  BY DEF Listed, Files!ToSet
<1>13. Reads(files_win, reading, disk, writes.inplace) /\ IsShown(files_win, reading, disk, writes.inplace)
  BY DEF Reads, IsShown, Files!NotReading
<1>14. Looks(look, files_win.sel)
  BY DEF Looks
<1> QED
  BY <1>8, <1>9, <1>10, <1>11, <1>12, <1>13, <1>14 DEF FilesInv

LEMMA NotReadingIs ==
  /\ Files!NotReading \in ReadingType /\ Files!NotReading.step = "none"
  /\ Orderly(Files!NotReading.got)
BY FS_EmptySet DEF Files!NotReading, ReadingType, Places, Orderly

\* enumerate_thread_cb
LEMMA EnumerateKeeps ==
  ASSUME FilesInv, Files!Enumerate
  PROVE  FilesInv'
<1> DEFINE c == Contents(disk, reading.dir)
           step == IF reading.dir \in Unreadable THEN "failed" ELSE "read"
<1>1. reading.step = "started" /\ reading \in ReadingType
  BY DEF Files!Enumerate, FilesInv, FilesType
<1>2. reading' = [reading EXCEPT !.step = step, !.got = c]
  BY DEF Files!Enumerate, Contents
<1>3. /\ UNCHANGED <<disk, files_win, look, clip, jobs, acts>>
      /\ writes' \in WritesType
  BY DEF Files!Enumerate, FilesInv, FilesType, WritesType
<1>4. c \in SUBSET Entries /\ Orderly(c)
  BY ContentsOrderly DEF FilesInv, FilesType
<1> HIDE DEF c
<1>5. /\ reading'.step = step /\ reading'.got = c /\ reading'.dir = reading.dir
      /\ reading' \in ReadingType
  BY <1>1, <1>2, <1>4 DEF ReadingType
<1>6. files_win.open /\ reading.dir = files_win.dir
  BY <1>1, NotReadingIs DEF FilesInv, Reads
<1>7. reading' # Files!NotReading
  BY <1>5, NotReadingIs
<1> DEFINE over == writes'.inplace
<1>8. ListOf(c, disk, files_win.dir, over)
  BY <1>6 DEF ListOf, SameFiles, Contents, c
<1> HIDE DEF over
<1>10. Reads(files_win, reading', disk, over) /\ IsShown(files_win, reading', disk, over)
  BY <1>5, <1>6, <1>7, <1>8 DEF Reads, IsShown, ListOf
<1>9. FilesType'
  BY <1>3, <1>5 DEF FilesInv, FilesType
<1> QED
  BY <1>3, <1>4, <1>5, <1>9, <1>10 DEF FilesInv, over

\* A window that shows what it lists anew: Quick Look follows its selection.
LEMMA ShowKeeps ==
  ASSUME FilesInv, NEW w \in WindowType, Files!Show(w),
         UNCHANGED <<disk, clip, jobs, writes>>, acts' \in Nat,
         reading' \in ReadingType, Orderly(reading'.got),
         Orderly(w.all), Visited(w), Listed(w),
         Reads(w, reading', disk, writes.inplace), IsShown(w, reading', disk, writes.inplace)
  PROVE  FilesInv'
<1>1. files_win' = w /\ look' = Files!SetItem(look, w.sel)
  BY DEF Files!Show
<1>2. w.sel \in Entries
  BY DEF WindowType
<1>3. look' \in LookType /\ Looks(look', w.sel)
  BY <1>1, <1>2, SetItemLooks DEF FilesInv, FilesType
<1>4. FilesType'
  BY <1>1, <1>3 DEF FilesInv, FilesType
<1> QED
  BY <1>1, <1>3, <1>4 DEF FilesInv

\* on_directory_enumerated
LEMMA EnumeratedKeeps ==
  ASSUME FilesInv, Files!Enumerated
  PROVE  FilesInv'
<1>1. reading.step \in {"read", "failed"} /\ reading' = Files!NotReading
  BY DEF Files!Enumerated
<1>2. UNCHANGED <<disk, clip, jobs, acts, writes>>
  BY DEF Files!Enumerated
<1>3. files_win \in WindowType /\ reading \in ReadingType
  BY DEF FilesInv, FilesType
<1>4. files_win.open /\ reading.dir = files_win.dir
  BY <1>1, NotReadingIs DEF FilesInv, Reads
<1>5. CASE reading.step = "failed"
  <2> DEFINE w == [files_win EXCEPT !.page = "error", !.failed = TRUE]
  <2>1. files_win' = w /\ look' = look
    BY <1>5 DEF Files!Enumerated
  <2>2. w \in WindowType
    BY <1>3 DEF WindowType
  <2>3. /\ w.open = files_win.open /\ w.dir = files_win.dir /\ w.all = files_win.all
        /\ w.view = files_win.view /\ w.sel = files_win.sel /\ w.hidden = files_win.hidden
        /\ w.query = files_win.query /\ w.history = files_win.history
        /\ w.pos = files_win.pos /\ w.failed
    BY <1>3 DEF WindowType
  <2> HIDE DEF w
  <2>4. \A e : Files!Matches(w, e) <=> Files!Matches(files_win, e)
    BY <2>3 DEF Files!Matches
  <2>5. Listed(w)
    BY <2>3, <2>4 DEF FilesInv, Listed
  <2>6. Visited(w) /\ Reads(w, reading', disk, writes.inplace) /\ IsShown(w, reading', disk, writes.inplace)
    BY <1>1, <1>4, <2>3, NotReadingIs DEF FilesInv, Visited, Reads, IsShown
  <2>7. FilesType'
    BY <1>1, <1>2, <2>1, <2>2, NotReadingIs DEF FilesInv, FilesType
  <2> QED
    BY <1>1, <1>2, <2>1, <2>3, <2>5, <2>6, <2>7, NotReadingIs DEF FilesInv
<1>6. CASE reading.step = "read"
  <2> DEFINE w == [files_win EXCEPT !.all = reading.got, !.of = files_win.dir, !.failed = FALSE]
             v == Files!Rebuilt(w, TRUE)
  <2>1. Files!Show(v)
    BY <1>6 DEF Files!Enumerated
  <2>2. reading.got \in SUBSET Entries /\ files_win.dir \in Places
    BY <1>3 DEF ReadingType, WindowType, Places
  <2>3. w \in WindowType
    BY <1>3, <2>2 DEF WindowType
  <2>4. /\ w.open = files_win.open /\ w.dir = files_win.dir /\ w.all = reading.got
        /\ w.timer = files_win.timer /\ w.history = files_win.history
        /\ w.pos = files_win.pos /\ w.of = files_win.dir
    BY <1>3 DEF WindowType
  <2>5. Orderly(w.all)
    BY <2>4 DEF FilesInv
  <2> HIDE DEF w
  <2>6. /\ v \in WindowType /\ Listed(v)
        /\ v.open = w.open /\ v.dir = w.dir /\ v.of = w.of /\ v.all = w.all
        /\ v.timer = w.timer /\ v.history = w.history /\ v.pos = w.pos
    BY <2>3, <2>5, RebuiltIs
  <2> HIDE DEF v
  <2>7. Visited(v)
    BY <2>4, <2>6 DEF FilesInv, Visited
  <2>8. Reads(v, reading', disk, writes.inplace)
    BY <1>1, NotReadingIs DEF Reads
  <2>9. IsShown(v, reading', disk, writes.inplace)
    BY <1>4, <1>6, <2>4, <2>6 DEF FilesInv, Reads, IsShown
  <2>10. acts' \in Nat
    BY <1>2 DEF FilesInv, FilesType
  <2> QED
    BY <1>1, <1>2, <2>1, <2>5, <2>6, <2>7, <2>8, <2>9, <2>10, NotReadingIs, ShowKeeps
<1> QED
  BY <1>1, <1>5, <1>6

\* A folder that is read anew. The window stays as it is for what it lists.
LEMMA ReloadKeeps ==
  ASSUME FilesInv, NEW w \in WindowType, files_win' = w, w.open, Files!Reload(w.dir),
         UNCHANGED <<disk, look, clip, writes>>, acts' \in Nat, jobs' \in Seq(JobType),
         w.all = files_win.all, w.view = files_win.view, w.sel = files_win.sel,
         w.hidden = files_win.hidden, w.query = files_win.query, Visited(w)
  PROVE  FilesInv'
<1>1. reading' = [step |-> "started", dir |-> w.dir, got |-> {}]
  BY DEF Files!Reload
<1>2. reading' \in ReadingType /\ Orderly(reading'.got) /\ reading' # Files!NotReading
  BY <1>1, FS_EmptySet, NotReadingIs DEF ReadingType, WindowType, Places, Orderly
<1>3. \A e : Files!Matches(w, e) <=> Files!Matches(files_win, e)
  BY DEF Files!Matches
<1>4. Listed(w)
  BY <1>3 DEF FilesInv, Listed
<1>5. Reads(w, reading', disk, writes.inplace) /\ IsShown(w, reading', disk, writes.inplace)
  BY <1>1, <1>2 DEF Reads, IsShown
<1>6. FilesType'
  BY <1>2 DEF FilesInv, FilesType
<1> QED
  BY <1>2, <1>4, <1>5, <1>6 DEF FilesInv

LEMMA DebouncedKeeps ==
  ASSUME FilesInv, Files!Debounced
  PROVE  FilesInv'
<1> DEFINE w == [files_win EXCEPT !.timer = FALSE]
<1>1. /\ files_win.open /\ files_win' = w /\ Files!Reload(files_win.dir)
      /\ UNCHANGED <<disk, look, clip, jobs, acts, writes>>
  BY DEF Files!Debounced
<1>2. files_win \in WindowType /\ acts' \in Nat /\ jobs' \in Seq(JobType)
  BY <1>1 DEF FilesInv, FilesType
<1>3. /\ w.open = files_win.open /\ w.dir = files_win.dir /\ w.all = files_win.all
      /\ w.view = files_win.view /\ w.sel = files_win.sel /\ w.hidden = files_win.hidden
      /\ w.query = files_win.query /\ w.history = files_win.history
      /\ w.pos = files_win.pos
  BY <1>2 DEF WindowType
<1>4. w \in WindowType
  BY <1>2 DEF WindowType
<1> HIDE DEF w
<1>5. Visited(w)
  BY <1>3 DEF FilesInv, Visited
<1> QED
  BY <1>1, <1>2, <1>3, <1>4, <1>5, ReloadKeeps

\* The disk changes in some folders and the window is told.
LEMMA DiskChangeKeeps ==
  ASSUME FilesInv, NEW d, disk' = d, Sound(d), NEW dirs, SameBut(dirs, d, disk),
         files_win' = Files!Watched(dirs),
         UNCHANGED <<reading, look, clip, acts>>, jobs' \in Seq(JobType),
         writes' \in WritesType, writes'.inplace = writes.inplace
  PROVE  FilesInv'
<1> DEFINE w == Files!Watched(dirs)
           over == writes.inplace
<1>1. /\ w \in WindowType /\ w.all = files_win.all /\ w.sel = files_win.sel
      /\ Visited(w) /\ Listed(w) /\ Reads(w, reading, d, over) /\ IsShown(w, reading, d, over)
  BY DiskChanges
<1>2. files_win' = w
  OBVIOUS
<1> HIDE DEF w
<1>3. FilesType' /\ OneAtAPath(disk')
  BY <1>1, <1>2 DEF FilesInv, FilesType, Sound
<1> QED
  BY <1>1, <1>2, <1>3 DEF FilesInv

\* A file that is rewritten in place stays in its folder, and the others as they are.
LEMMA RewrittenInPlace ==
  ASSUME FilesInv, NEW p \in Paths, Files!At(p) # {}, NEW r, Files!Path(r) = p,
         NEW folder
  PROVE  LET c == Contents(disk, folder)
             e == Contents((disk \ Files!At(p)) \cup {r}, folder)
         IN  PathsOf(e) = PathsOf(c) /\ ToldOf(e, {p}) = ToldOf(c, {p})
<1> DEFINE d == (disk \ Files!At(p)) \cup {r}
           entry(x) == [dir |-> x.dir, name |-> x.name, data |-> x.data]
           c == Contents(disk, folder)
           e == Contents(d, folder)
<1>1. \A x : Files!Path(entry(x)) = Files!Path(x)
  BY DEF Files!Path
<1>2. /\ c = {entry(x) : x \in {y \in disk : y.dir = folder}}
      /\ e = {entry(x) : x \in {y \in d : y.dir = folder}}
  BY DEF Contents
<1>3. \A x, y : Files!Path(x) = Files!Path(y) => x.dir = y.dir
  BY DEF Files!Path
<1>4. PICK q \in disk : Files!Path(q) = p
  BY DEF Files!At
<1>5. \A x \in d : x = r \/ (x \in disk /\ Files!Path(x) # p)
  BY DEF Files!At
<1>6. \A x \in disk : Files!Path(x) # p => x \in d
  BY DEF Files!At
<1>7. r \in d
  OBVIOUS
<1> HIDE DEF entry, d, c, e
<1>8. PathsOf(e) = PathsOf(c)
  <2>1. \A x \in d : x.dir = folder => \E y \in disk : y.dir = folder /\ Files!Path(y) = Files!Path(x)
    BY <1>3, <1>4, <1>5
  <2>2. \A x \in disk : x.dir = folder => \E y \in d : y.dir = folder /\ Files!Path(y) = Files!Path(x)
    BY <1>3, <1>6, <1>7
  <2>3. /\ PathsOf(e) = {Files!Path(x) : x \in {y \in d : y.dir = folder}}
        /\ PathsOf(c) = {Files!Path(x) : x \in {y \in disk : y.dir = folder}}
    BY <1>1, <1>2 DEF PathsOf
  <2> QED
    BY <2>1, <2>2, <2>3
<1>9. ToldOf(e, {p}) = ToldOf(c, {p})
  <2>1. \A x : x \in ToldOf(e, {p}) <=> \E y \in d : y.dir = folder /\ x = entry(y) /\ Files!Path(y) # p
    BY <1>1, <1>2 DEF ToldOf
  <2>2. \A x : x \in ToldOf(c, {p}) <=> \E y \in disk : y.dir = folder /\ x = entry(y) /\ Files!Path(y) # p
    BY <1>1, <1>2 DEF ToldOf
  <2>3. \A y : y \in d /\ Files!Path(y) # p <=> y \in disk /\ Files!Path(y) # p
    BY <1>5, <1>6
  <2> QED
    BY <2>1, <2>2, <2>3
<1> QED
  BY <1>8, <1>9 DEF c, e, d

\* The window is not told of it and lists what it read.
LEMMA RewritingKeeps ==
  ASSUME FilesInv, NEW p \in Paths, Files!At(p) # {}, NEW n \in Int,
         NEW r, r = [dir |-> p.dir, name |-> p.name, data |-> n, from |-> Files!NoPath],
         disk' = (disk \ Files!At(p)) \cup {r},
         UNCHANGED <<files_win, reading, look, clip, jobs, acts>>,
         writes' = [count |-> writes.count + 1, inplace |-> writes.inplace \cup {p}]
  PROVE  FilesInv'
<1> DEFINE over == writes.inplace
           more == writes.inplace \cup {p}
           d == (disk \ Files!At(p)) \cup {r}
<1>1. Sound(d)
  <2> DEFINE left == disk \ Files!At(p)
             dirs == {p.dir}
  <2>1. \A x \in disk : x \in Files!At(p) => x.dir \in dirs
    BY FilesSound, AtAPath DEF FilesInv
  <2>2. Sound(left)
    BY <2>1, FilesSound, RemovedFromDisk
  <2>3. (\A x \in left : Files!Path(x) # p) /\ p.dir \in dirs /\ Files!NoPath \in Paths
    BY PlainIs DEF Files!At
  <2>4. d = left \cup {r}
    OBVIOUS
  <2> HIDE DEF left, dirs, d
  <2>5. Sound(left \cup {r})
    BY <2>2, <2>3, PlacedOnDisk
  <2> QED
    BY <2>4, <2>5
<1>2. Files!Path(r) = p
  BY DEF Files!Path, Paths
<1>3. \A f : /\ PathsOf(Contents(d, f)) = PathsOf(Contents(disk, f))
             /\ ToldOf(Contents(d, f), {p}) = ToldOf(Contents(disk, f), {p})
  BY <1>2, RewrittenInPlace
<1> HIDE DEF d
<1>4. \A es, c : ToldOf(es, {p}) = ToldOf(c, {p}) => ToldOf(es, more) = ToldOf(c, more)
  <2> SUFFICES ASSUME NEW es, NEW c, ToldOf(es, {p}) = ToldOf(c, {p})
               PROVE  ToldOf(es, more) = ToldOf(c, more)
    OBVIOUS
  <2>1. \A xs : ToldOf(xs, more) = {x \in ToldOf(xs, {p}) : Files!Path(x) \notin over}
    BY DEF ToldOf
  <2> QED
    BY <2>1
<1>5. \A es, c : ToldOf(es, over) = ToldOf(c, over) => ToldOf(es, more) = ToldOf(c, more)
  <2> SUFFICES ASSUME NEW es, NEW c, ToldOf(es, over) = ToldOf(c, over)
               PROVE  ToldOf(es, more) = ToldOf(c, more)
    OBVIOUS
  <2>1. \A xs : ToldOf(xs, more) = {x \in ToldOf(xs, over) : Files!Path(x) # p}
    BY DEF ToldOf
  <2> QED
    BY <2>1
<1>6. \A es, f : ListOf(es, disk, f, over) => ListOf(es, d, f, more)
  <2> SUFFICES ASSUME NEW es, NEW f, ListOf(es, disk, f, over), f \notin Unwatched
               PROVE  SameFiles(es, Contents(d, f), more)
    BY DEF ListOf
  <2>1. SameFiles(es, Contents(disk, f), over)
    BY DEF ListOf
  <2>2. ToldOf(es, more) = ToldOf(Contents(disk, f), more)
    BY <1>5, <2>1 DEF SameFiles
  <2>3. ToldOf(Contents(d, f), more) = ToldOf(Contents(disk, f), more)
    BY <1>3, <1>4
  <2> QED
    BY <1>3, <2>1, <2>2, <2>3 DEF SameFiles
<1>7. Reads(files_win, reading, d, more) /\ IsShown(files_win, reading, d, more)
  BY <1>6 DEF FilesInv, Reads, IsShown
<1>8. writes' \in WritesType /\ writes'.inplace = more
  BY DEF FilesInv, FilesType, WritesType
<1>9. disk' = d
  BY DEF d
<1> HIDE DEF more
<1>10. FilesType' /\ OneAtAPath(disk')
  BY <1>1, <1>8, <1>9 DEF FilesInv, FilesType, Sound
<1> QED
  BY <1>7, <1>8, <1>9, <1>10 DEF FilesInv

LEMMA ElsewhereKeeps ==
  ASSUME FilesInv, Files!Elsewhere
  PROVE  FilesInv'
<1> DEFINE size == 50 + writes.count
           new(q) == Files!Plain(q, size)
<1>1. PICK f \in Folders \ {"trash"}, n \in {1, 2} :
        LET q == [dir |-> f, name |-> n] IN
        \/ /\ disk' = IF Files!At(q) = {} THEN disk \cup {new(q)} ELSE disk \ Files!At(q)
           /\ files_win' = Files!Watched({f}) /\ writes' = [writes EXCEPT !.count = @ + 1]
        \/ /\ Files!At(q) # {} /\ disk' = (disk \ Files!At(q)) \cup {new(q)}
           /\ files_win' = files_win
           /\ writes' = [count |-> writes.count + 1, inplace |-> writes.inplace \cup {q}]
  BY DEF Files!Elsewhere
<1> DEFINE p == [dir |-> f, name |-> n]
           r == new(p)
<1>2. UNCHANGED <<reading, look, clip, jobs, acts>>
  BY DEF Files!Elsewhere
<1>3. /\ Sound(disk) /\ OneAtAPath(disk) /\ FilesType
      /\ jobs' \in Seq(JobType) /\ size \in Int
  BY <1>2, FilesSound DEF FilesInv, FilesType, WritesType
<1>4. p \in Paths /\ p.dir = f
  BY DEF Paths, Places
<1>5. r = [dir |-> p.dir, name |-> p.name, data |-> size, from |-> Files!NoPath]
  BY PlainIs
<1>6. \/ /\ disk' = IF Files!At(p) = {} THEN disk \cup {r} ELSE disk \ Files!At(p)
         /\ files_win' = Files!Watched({f}) /\ writes' = [writes EXCEPT !.count = @ + 1]
      \/ /\ Files!At(p) # {} /\ disk' = (disk \ Files!At(p)) \cup {r}
         /\ files_win' = files_win
         /\ writes' = [count |-> writes.count + 1, inplace |-> writes.inplace \cup {p}]
  BY <1>1
<1> HIDE DEF p, r, size
<1>7. CASE /\ disk' = IF Files!At(p) = {} THEN disk \cup {r} ELSE disk \ Files!At(p)
           /\ files_win' = Files!Watched({f}) /\ writes' = [writes EXCEPT !.count = @ + 1]
  <2>1. writes' \in WritesType /\ writes'.inplace = writes.inplace
    BY <1>3, <1>7 DEF FilesType, WritesType
  <2>2. Sound(disk') /\ SameBut({f}, disk', disk)
    <3>1. CASE Files!At(p) = {}
      <4>1. \A s \in disk : Files!Path(s) # p
        BY <3>1 DEF Files!At
      <4>2. Files!NoPath \in Paths /\ p.dir \in {f}
        BY <1>4, PlainIs
      <4>3. Sound(disk \cup {r}) /\ SameBut({f}, disk \cup {r}, disk)
        BY <1>3, <1>4, <1>5, <4>1, <4>2, PlacedOnDisk
      <4> QED
        BY <1>7, <3>1, <4>3
    <3>2. CASE Files!At(p) # {}
      <4>1. \A s \in disk : s \in Files!At(p) => s.dir \in {f}
        BY <1>3, <1>4, AtAPath
      <4> QED
        BY <1>3, <1>7, <3>2, <4>1, RemovedFromDisk
    <3> QED
      BY <3>1, <3>2
  <2> QED
    BY <1>2, <1>3, <1>7, <2>1, <2>2, DiskChangeKeeps
<1>8. CASE /\ Files!At(p) # {} /\ disk' = (disk \ Files!At(p)) \cup {r}
           /\ files_win' = files_win
           /\ writes' = [count |-> writes.count + 1, inplace |-> writes.inplace \cup {p}]
  BY <1>2, <1>3, <1>4, <1>5, <1>8, RewritingKeeps
<1> QED
  BY <1>6, <1>7, <1>8

-----------------------------------------------------------------------------
\* Where the window goes.
LEMMA MoveKeeps ==
  ASSUME FilesInv, NEW folder \in Folders, NEW history \in Seq(Folders), NEW pos \in Nat,
         pos \in 1..Len(history), history[pos] = folder,
         NEW w, w = [files_win EXCEPT !.dir = folder, !.history = history, !.pos = pos],
         Files!Move(w)
  PROVE  FilesInv'
<1>1. /\ files_win.open /\ files_win' = w /\ Files!Reload(w.dir)
      /\ UNCHANGED <<disk, look, clip, jobs, writes>> /\ acts' = acts + 1
  BY DEF Files!Move, Files!Act
<1>2. files_win \in WindowType /\ acts' \in Nat /\ jobs' \in Seq(JobType)
  BY <1>1 DEF FilesInv, FilesType
<1>3. /\ w.open = files_win.open /\ w.dir = folder /\ w.all = files_win.all
      /\ w.view = files_win.view /\ w.sel = files_win.sel /\ w.hidden = files_win.hidden
      /\ w.query = files_win.query /\ w.history = history /\ w.pos = pos
  BY <1>2 DEF WindowType
<1>4. w \in WindowType
  BY <1>2 DEF WindowType
<1>5. Visited(w)
  BY <1>3 DEF Visited
<1> QED
  BY <1>1, <1>2, <1>3, <1>4, <1>5, ReloadKeeps

LEMMA HistoryIs ==
  ASSUME FilesInv
  PROVE  /\ files_win \in WindowType /\ files_win.history \in Seq(Folders)
         /\ files_win.pos \in 1..Len(files_win.history) /\ files_win.dir \in Folders
         /\ files_win.history[files_win.pos] = files_win.dir
         /\ files_win = [files_win EXCEPT !.dir = @, !.history = @, !.pos = @]
<1>1. files_win \in WindowType /\ Visited(files_win)
  BY DEF FilesInv, FilesType
<1>2. files_win = [files_win EXCEPT !.dir = @, !.history = @, !.pos = @]
  BY <1>1 DEF WindowType
<1>3. files_win.history \in Seq(Folders) /\ files_win.dir \in Folders
  BY <1>1 DEF WindowType
<1> QED
  BY <1>1, <1>2, <1>3 DEF Visited

LEMMA GoesKeep ==
  ASSUME FilesInv,
         Files!Navigate \/ Files!GoBack \/ Files!GoForward \/ Files!Refresh
  PROVE  FilesInv'
<1> DEFINE h == files_win.history
           p == files_win.pos
<1>1. h \in Seq(Folders) /\ p \in 1..Len(h) /\ h[p] = files_win.dir /\ files_win.dir \in Folders
  BY HistoryIs
<1>2. CASE Files!Navigate
  <2>1. PICK f \in Folders : Files!Move(Files!Went(files_win, f))
    BY <1>2 DEF Files!Navigate
  <2> DEFINE new == Append(SubSeq(h, 1, p), f)
  <2>2. SubSeq(h, 1, p) \in Seq(Folders) /\ Len(SubSeq(h, 1, p)) = p
    BY <1>1
  <2>3. new \in Seq(Folders) /\ Len(new) = p + 1 /\ new[p + 1] = f
    BY <2>2
  <2>4. Files!Went(files_win, f)
          = [files_win EXCEPT !.dir = f, !.history = new, !.pos = p + 1]
    BY HistoryIs DEF Files!Went
  <2> HIDE DEF new
  <2>5. p + 1 \in Nat /\ p + 1 \in 1..Len(new)
    BY <1>1, <2>3
  <2> QED
    BY <2>1, <2>3, <2>4, <2>5, MoveKeeps
<1>3. CASE Files!GoBack
  <2>1. p > 1 /\ Files!Move(Files!Back(files_win))
    BY <1>3 DEF Files!GoBack
  <2>2. PICK q \in 1..Len(h) : q = p - 1
    BY <1>1, <2>1
  <2>3. PICK f \in Folders : f = h[q]
    BY <1>1
  <2>4. Files!Back(files_win)
          = [files_win EXCEPT !.dir = f, !.history = h, !.pos = q]
    BY <2>2, <2>3, HistoryIs DEF Files!Back, WindowType
  <2>5. q \in Nat /\ h[q] = f
    BY <1>1, <2>3
  <2> HIDE DEF h, p
  <2> DEFINE w == Files!Back(files_win)
  <2>6. Files!Move(w) /\ w = [files_win EXCEPT !.dir = f, !.history = h, !.pos = q]
    BY <2>1, <2>4
  <2> HIDE DEF w
  <2> QED
    BY <1>1, <2>5, <2>6, MoveKeeps
<1>4. CASE Files!GoForward
  <2>1. p < Len(h) /\ Files!Move(Files!Forth(files_win))
    BY <1>4 DEF Files!GoForward
  <2>2. PICK q \in 1..Len(h) : q = p + 1
    BY <1>1, <2>1
  <2>3. PICK f \in Folders : f = h[q]
    BY <1>1
  <2>4. Files!Forth(files_win)
          = [files_win EXCEPT !.dir = f, !.history = h, !.pos = q]
    BY <2>2, <2>3, HistoryIs DEF Files!Forth, WindowType
  <2>5. q \in Nat /\ h[q] = f
    BY <1>1, <2>3
  <2> HIDE DEF h, p
  <2> DEFINE w == Files!Forth(files_win)
  <2>6. Files!Move(w) /\ w = [files_win EXCEPT !.dir = f, !.history = h, !.pos = q]
    BY <2>1, <2>4
  <2> HIDE DEF w
  <2> QED
    BY <1>1, <2>5, <2>6, MoveKeeps
<1>5. CASE Files!Refresh
  <2>1. Files!Move(files_win)
    BY <1>5 DEF Files!Refresh
  <2>2. files_win = [files_win EXCEPT !.dir = files_win.dir, !.history = h, !.pos = p]
    BY HistoryIs DEF WindowType
  <2>3. p \in Nat
    BY <1>1
  <2> QED
    BY <1>1, <2>1, <2>2, <2>3, MoveKeeps
<1> QED
  BY <1>2, <1>3, <1>4, <1>5

-----------------------------------------------------------------------------
\* What is shown and how: the window lists anew what it has.
LEMMA ViewKeeps ==
  ASSUME FilesInv, NEW w \in WindowType, Files!View(w),
         w.open = files_win.open, w.dir = files_win.dir, w.of = files_win.of,
         w.all = files_win.all, w.timer = files_win.timer, w.failed = files_win.failed,
         w.history = files_win.history, w.pos = files_win.pos
  PROVE  FilesInv'
<1> DEFINE v == Files!Rebuilt(w, FALSE)
<1>1. /\ Files!Show(v) /\ UNCHANGED <<disk, reading, clip, jobs, writes>>
      /\ acts' = acts + 1
  BY DEF Files!View, Files!Act
<1>2. Orderly(w.all)
  BY DEF FilesInv
<1>3. /\ v \in WindowType /\ Listed(v)
      /\ v.open = w.open /\ v.dir = w.dir /\ v.of = w.of /\ v.all = w.all
      /\ v.timer = w.timer /\ v.failed = w.failed
      /\ v.history = w.history /\ v.pos = w.pos
  BY <1>2, RebuiltIs
<1> HIDE DEF v
<1>4. Visited(v) /\ Reads(v, reading, disk, writes.inplace) /\ IsShown(v, reading, disk, writes.inplace)
  BY <1>3 DEF FilesInv, Visited, Reads, IsShown
<1>5. /\ acts' \in Nat /\ reading' = reading
      /\ reading' \in ReadingType /\ Orderly(reading'.got)
  BY <1>1 DEF FilesInv, FilesType
<1>6. Orderly(v.all)
  BY <1>2, <1>3
<1> QED
  BY <1>1, <1>3, <1>4, <1>5, <1>6, ShowKeeps

LEMMA ViewsKeep ==
  ASSUME FilesInv,
         Files!ToggleHidden \/ Files!Search
           \/ \E field \in {"name", "size"} : Files!SortBy(field)
  PROVE  FilesInv'
<1>1. files_win \in WindowType
  BY DEF FilesInv, FilesType
<1>2. CASE Files!ToggleHidden
  <2> DEFINE w == [files_win EXCEPT !.hidden = ~@]
  <2>1. Files!View(w)
    BY <1>2 DEF Files!ToggleHidden
  <2>2. w \in WindowType
    BY <1>1 DEF WindowType
  <2>3. /\ w.open = files_win.open /\ w.dir = files_win.dir /\ w.of = files_win.of
        /\ w.all = files_win.all /\ w.timer = files_win.timer /\ w.failed = files_win.failed
        /\ w.history = files_win.history /\ w.pos = files_win.pos
    BY <1>1 DEF WindowType
  <2> HIDE DEF w
  <2> QED
    BY <2>1, <2>2, <2>3, ViewKeeps
<1>3. CASE Files!Search
  <2>1. PICK q \in {0, 1} : Files!View([files_win EXCEPT !.query = q])
    BY <1>3 DEF Files!Search
  <2> DEFINE w == [files_win EXCEPT !.query = q]
  <2>2. w \in WindowType
    BY <1>1 DEF WindowType
  <2>3. /\ w.open = files_win.open /\ w.dir = files_win.dir /\ w.of = files_win.of
        /\ w.all = files_win.all /\ w.timer = files_win.timer /\ w.failed = files_win.failed
        /\ w.history = files_win.history /\ w.pos = files_win.pos
    BY <1>1 DEF WindowType
  <2>4. Files!View(w)
    BY <2>1
  <2> HIDE DEF w
  <2> QED
    BY <2>2, <2>3, <2>4, ViewKeeps
<1>4. ASSUME NEW field \in {"name", "size"}, Files!SortBy(field)
      PROVE  FilesInv'
  <2> DEFINE asc == IF files_win.by = field THEN ~files_win.asc ELSE field = "name"
             w == [files_win EXCEPT !.by = field, !.asc = asc]
  <2>1. Files!View(w)
    BY <1>4 DEF Files!SortBy
  <2>2. asc \in BOOLEAN
    BY <1>1 DEF WindowType
  <2> HIDE DEF asc
  <2>3. w \in WindowType
    BY <1>1, <2>2 DEF WindowType
  <2>4. /\ w.open = files_win.open /\ w.dir = files_win.dir /\ w.of = files_win.of
        /\ w.all = files_win.all /\ w.timer = files_win.timer /\ w.failed = files_win.failed
        /\ w.history = files_win.history /\ w.pos = files_win.pos
    BY <1>1 DEF WindowType
  <2> HIDE DEF w
  <2> QED
    BY <2>1, <2>3, <2>4, ViewKeeps
<1> QED
  BY <1>2, <1>3, <1>4

LEMMA SelectKeeps ==
  ASSUME FilesInv, Files!Select
  PROVE  FilesInv'
<1>1. PICK e \in Files!ToSet(files_win.view) \ {files_win.sel} :
        Files!Show([files_win EXCEPT !.sel = e])
  BY DEF Files!Select
<1>2. UNCHANGED <<disk, reading, clip, jobs, writes>> /\ acts' = acts + 1
  BY DEF Files!Select, Files!Act
<1>3. files_win \in WindowType
  BY DEF FilesInv, FilesType
<1>4. e \in Entries /\ files_win.view # <<>>
  BY <1>3 DEF WindowType, Files!ToSet
<1> DEFINE w == [files_win EXCEPT !.sel = e]
<1>5. w \in WindowType
  BY <1>3, <1>4 DEF WindowType
<1>6. /\ w.open = files_win.open /\ w.dir = files_win.dir /\ w.of = files_win.of
      /\ w.all = files_win.all /\ w.timer = files_win.timer /\ w.failed = files_win.failed
      /\ w.history = files_win.history /\ w.pos = files_win.pos
      /\ w.hidden = files_win.hidden /\ w.query = files_win.query
      /\ w.view = files_win.view /\ w.sel = e
  BY <1>3 DEF WindowType
<1>7. Files!Show(w)
  BY <1>1
<1> HIDE DEF w
<1>8. \A x : Files!Matches(w, x) <=> Files!Matches(files_win, x)
  BY <1>6 DEF Files!Matches
<1>9. Listed(w)
  BY <1>1, <1>4, <1>6, <1>8 DEF FilesInv, Listed
<1>10. /\ Orderly(w.all) /\ Visited(w) /\ Reads(w, reading, disk, writes.inplace)
       /\ IsShown(w, reading, disk, writes.inplace)
  BY <1>6 DEF FilesInv, Visited, Reads, IsShown
<1>11. /\ acts' \in Nat /\ reading' = reading
       /\ reading' \in ReadingType /\ Orderly(reading'.got)
  BY <1>2 DEF FilesInv, FilesType
<1> QED
  BY <1>2, <1>5, <1>7, <1>9, <1>10, <1>11, ShowKeeps

-----------------------------------------------------------------------------
\* Quick Look.
LEMMA LooksKeep ==
  ASSUME FilesInv, look' \in LookType, Looks(look', files_win.sel),
         UNCHANGED <<disk, files_win, reading, clip, jobs, writes>>, acts' \in Nat
  PROVE  FilesInv'
<1>1. FilesType'
  BY DEF FilesInv, FilesType
<1> QED
  BY <1>1 DEF FilesInv

LEMMA LookKeeps ==
  ASSUME FilesInv, Files!LookAt \/ Files!LookAway \/ Files!PreviewReady
  PROVE  FilesInv'
<1>1. /\ look \in LookType /\ files_win \in WindowType /\ files_win.sel \in Entries
      /\ acts \in Nat /\ Looks(look, files_win.sel)
  BY DEF FilesInv, FilesType, WindowType
<1>2. CASE Files!LookAt
  <2> DEFINE l == [look EXCEPT !.open = TRUE]
             p == Files!Populate(l, files_win.sel)
  <2>1. Files!Looks(p)
    BY <1>2 DEF Files!LookAt
  <2>2. l \in LookType /\ l.open
    BY <1>1 DEF LookType
  <2> HIDE DEF l
  <2>3. p \in LookType /\ Looks(p, files_win.sel)
    BY <1>1, <2>2, PopulatedLooks
  <2> HIDE DEF p
  <2>4. /\ look' = p /\ UNCHANGED <<disk, files_win, reading, clip, jobs, writes>>
        /\ acts' \in Nat
    BY <1>1, <2>1 DEF Files!Looks, Files!Act
  <2> QED
    BY <2>3, <2>4, LooksKeep
<1>3. CASE Files!LookAway
  <2>1. Files!Looks(Files!Hidden(look))
    BY <1>3 DEF Files!LookAway
  <2>2. /\ look' = Files!Hidden(look) /\ acts' \in Nat
        /\ UNCHANGED <<disk, files_win, reading, clip, jobs, writes>>
    BY <1>1, <2>1 DEF Files!Looks, Files!Act
  <2>3. look' \in LookType /\ Looks(look', files_win.sel)
    BY <1>1, <2>2, HiddenLooks
  <2> QED
    BY <2>2, <2>3, LooksKeep
<1>4. CASE Files!PreviewReady
  <2>1. PICK e \in look.loads : look' = [look EXCEPT !.text = e, !.loads = @ \ {e}]
    BY <1>4 DEF Files!PreviewReady
  <2>2. e \in Entries /\ look.loads \ {e} \in SUBSET Entries
    BY <1>1 DEF LookType
  <2>3. look' \in LookType
    BY <1>1, <2>1, <2>2 DEF LookType
  <2>4. /\ look'.open = look.open /\ look'.shows = look.shows /\ look'.plays = look.plays
        /\ look'.text = e /\ look'.loads = look.loads \ {e}
    BY <1>1, <2>1 DEF LookType
  <2>5. Looks(look', files_win.sel)
    BY <1>1, <2>4 DEF Looks
  <2>6. UNCHANGED <<disk, files_win, reading, clip, jobs, writes>> /\ acts' \in Nat
    BY <1>1, <1>4 DEF Files!PreviewReady
  <2> QED
    BY <2>3, <2>5, <2>6, LooksKeep
<1> QED
  BY <1>2, <1>3, <1>4

-----------------------------------------------------------------------------
\* What is asked and begun changes nothing of what is shown.
LEMMA AskedKeeps ==
  ASSUME FilesInv, NEW w \in WindowType, files_win' = w, Alike(w, files_win),
         UNCHANGED <<disk, reading, look, writes>>, acts' \in Nat,
         jobs' \in Seq(JobType), clip' \in [file : Paths, cut : BOOLEAN]
  PROVE  FilesInv'
<1>1. FilesType'
  BY DEF FilesInv, FilesType
<1>2. /\ Visited(w) /\ Listed(w) /\ Reads(w, reading, disk, writes.inplace) /\ IsShown(w, reading, disk, writes.inplace)
  BY AlikeKeeps DEF FilesInv
<1>3. w.all = files_win.all /\ w.sel = files_win.sel
  BY DEF Alike
<1> QED
  BY <1>1, <1>2, <1>3 DEF FilesInv

LEMMA AskKeeps ==
  ASSUME FilesInv, Files!Prompt \/ Files!Cancelled \/ Files!OpenMenu
  PROVE  FilesInv'
<1>1. /\ files_win \in WindowType /\ acts \in Nat /\ jobs \in Seq(JobType)
      /\ clip \in [file : Paths, cut : BOOLEAN]
  BY DEF FilesInv, FilesType
<1>2. Files!Path(files_win.sel) \in Paths /\ files_win.says \in Paths
  BY <1>1 DEF WindowType, Entries, Paths, Files!Path
<1>3. ASSUME NEW prompt \in {"none", "mkdir", "rename", "delete"}, NEW says \in Paths,
             NEW menu \in Paths, NEW w,
             w = [files_win EXCEPT !.prompt = prompt, !.says = says, !.menu = menu],
             Files!Ask(w)
      PROVE  FilesInv'
  <2>1. w \in WindowType
    BY <1>1, <1>3 DEF WindowType
  <2>2. Alike(w, files_win)
    BY <1>1, <1>3 DEF WindowType, Alike
  <2>3. /\ files_win' = w /\ UNCHANGED <<disk, reading, look, writes, jobs, clip>>
        /\ acts' = acts + 1
    BY <1>3 DEF Files!Ask, Files!Act
  <2> QED
    BY <1>1, <2>1, <2>2, <2>3, AskedKeeps
<1>4. CASE Files!Prompt
  <2>1. PICK kind \in {"mkdir", "rename", "delete"} :
          Files!Ask([files_win EXCEPT !.prompt = kind,
                       !.says = IF kind = "mkdir" \/ files_win.sel = Files!Nothing THEN @
                                ELSE Files!Path(files_win.sel)])
    BY <1>4 DEF Files!Prompt
  <2> DEFINE says == IF kind = "mkdir" \/ files_win.sel = Files!Nothing THEN files_win.says
                     ELSE Files!Path(files_win.sel)
             w == [files_win EXCEPT !.prompt = kind, !.says = says, !.menu = files_win.menu]
  <2>2. says \in Paths /\ files_win.menu \in Paths
    BY <1>1, <1>2 DEF WindowType
  <2>3. Files!Ask(w)
    <3>1. w = [files_win EXCEPT !.prompt = kind, !.says = says]
      BY <1>1 DEF WindowType
    <3> QED
      BY <2>1, <3>1
  <2>4. w = [files_win EXCEPT !.prompt = kind, !.says = says, !.menu = files_win.menu]
    OBVIOUS
  <2> HIDE DEF w, says
  <2> QED
    BY <1>3, <2>2, <2>3, <2>4
<1>5. CASE Files!Cancelled
  <2> DEFINE w == [files_win EXCEPT !.prompt = "none", !.says = files_win.says,
                                    !.menu = files_win.menu]
  <2>1. files_win.says \in Paths /\ files_win.menu \in Paths
    BY <1>1 DEF WindowType
  <2>2. Files!Ask(w)
    <3>1. w = [files_win EXCEPT !.prompt = "none"]
      BY <1>1 DEF WindowType
    <3> QED
      BY <1>5, <3>1 DEF Files!Cancelled
  <2>3. w = [files_win EXCEPT !.prompt = "none", !.says = files_win.says,
                              !.menu = files_win.menu]
    OBVIOUS
  <2> HIDE DEF w
  <2> QED
    BY <1>3, <2>1, <2>2, <2>3
<1>6. CASE Files!OpenMenu
  <2> DEFINE menu == Files!Path(files_win.sel)
             w == [files_win EXCEPT !.prompt = files_win.prompt, !.says = files_win.says,
                                    !.menu = menu]
  <2>1. /\ files_win.says \in Paths /\ menu \in Paths
        /\ files_win.prompt \in {"none", "mkdir", "rename", "delete"}
    BY <1>1, <1>2 DEF WindowType
  <2>2. Files!Ask(w)
    <3>1. w = [files_win EXCEPT !.menu = menu]
      BY <1>1 DEF WindowType
    <3> QED
      BY <1>6, <3>1 DEF Files!OpenMenu
  <2>3. w = [files_win EXCEPT !.prompt = files_win.prompt, !.says = files_win.says,
                              !.menu = menu]
    OBVIOUS
  <2> HIDE DEF w, menu
  <2> QED
    BY <1>3, <2>1, <2>2, <2>3
<1> QED
  BY <1>4, <1>5, <1>6

Jobs == {"trash", "delete", "restore", "rename", "mkdir", "extract", "move", "copy", "empty"}

LEMMA StartedJobs ==
  ASSUME jobs \in Seq(JobType), NEW do \in Jobs, NEW file \in Paths, NEW to \in Paths,
         NEW named \in Paths, Files!Start(do, file, to, named)
  PROVE  jobs' \in Seq(JobType)
<1> DEFINE j == [do |-> do, file |-> file, to |-> to, named |-> named, step |-> "queued"]
<1>1. jobs' = Append(jobs, j)
  BY DEF Files!Start
<1>2. j \in JobType
  BY DEF JobType, Jobs
<1> HIDE DEF j
<1> QED
  BY <1>1, <1>2

LEMMA SubmitKeeps ==
  ASSUME FilesInv, Files!Submit
  PROVE  FilesInv'
<1>1. /\ files_win \in WindowType /\ acts \in Nat /\ jobs \in Seq(JobType)
      /\ clip \in [file : Paths, cut : BOOLEAN]
  BY DEF FilesInv, FilesType
<1> DEFINE w == [files_win EXCEPT !.prompt = "none"]
<1>2. w \in WindowType
  BY <1>1 DEF WindowType
<1>3. Alike(w, files_win)
  BY <1>1 DEF WindowType, Alike
<1>4. /\ files_win' = w /\ UNCHANGED <<disk, reading, look, writes, clip>>
      /\ acts' = acts + 1
  BY DEF Files!Submit, Files!Act
<1>5. /\ Files!Path(files_win.sel) \in Paths /\ files_win.says \in Paths
      /\ Files!NoPath \in Paths
      /\ [dir |-> files_win.dir, name |-> 3] \in Paths
      /\ [dir |-> files_win.sel.dir, name |-> 4] \in Paths
  BY <1>1, PlainIs DEF WindowType, Entries, Paths, Places, Files!Path
<1>6. \/ /\ files_win.prompt = "mkdir"
         /\ Files!Start("mkdir", [dir |-> files_win.dir, name |-> 3], Files!NoPath,
                        Files!NoPath)
      \/ /\ files_win.prompt # "mkdir"
         /\ Files!Start(files_win.prompt, Files!Path(files_win.sel),
                        [dir |-> files_win.sel.dir, name |-> 4], files_win.says)
      \/ jobs' = jobs
  BY DEF Files!Submit
<1>7. files_win.prompt \in {"mkdir", "rename", "delete"}
  BY <1>1 DEF Files!Submit, WindowType
<1>8. jobs' \in Seq(JobType)
  <2>1. CASE Files!Start("mkdir", [dir |-> files_win.dir, name |-> 3], Files!NoPath,
                         Files!NoPath)
    <3>1. "mkdir" \in Jobs
      BY DEF Jobs
    <3> QED
      BY <1>1, <1>5, <2>1, <3>1, StartedJobs
  <2>2. CASE Files!Start(files_win.prompt, Files!Path(files_win.sel),
                         [dir |-> files_win.sel.dir, name |-> 4], files_win.says)
    <3>1. files_win.prompt \in Jobs
      BY <1>7 DEF Jobs
    <3> QED
      BY <1>1, <1>5, <2>2, <3>1, StartedJobs
  <2> QED
    BY <1>1, <1>6, <2>1, <2>2
<1> HIDE DEF w
<1> QED
  BY <1>1, <1>2, <1>3, <1>4, <1>8, AskedKeeps

LEMMA OperateKeeps ==
  ASSUME FilesInv, NEW do \in Jobs, NEW file \in Paths, NEW to \in Paths,
         NEW named \in Paths, Files!Operate(do, file, to, named)
  PROVE  FilesInv'
<1>1. /\ files_win \in WindowType /\ acts \in Nat /\ jobs \in Seq(JobType)
      /\ clip \in [file : Paths, cut : BOOLEAN]
  BY DEF FilesInv, FilesType
<1> DEFINE w == [files_win EXCEPT !.menu = Files!NoPath]
<1>2. w \in WindowType
  BY <1>1, PlainIs DEF WindowType
<1>3. Alike(w, files_win)
  BY <1>1 DEF WindowType, Alike
<1>4. /\ files_win' = w /\ UNCHANGED <<disk, reading, look, writes, clip>>
      /\ acts' = acts + 1 /\ Files!Start(do, file, to, named)
  BY DEF Files!Operate, Files!Act
<1>5. jobs' \in Seq(JobType)
  BY <1>1, <1>4, StartedJobs
<1> HIDE DEF w
<1> QED
  BY <1>1, <1>2, <1>3, <1>4, <1>5, AskedKeeps

LEMMA OperationsKeep ==
  ASSUME FilesInv, Files!Trash \/ Files!Restore \/ Files!EmptyTrash \/ Files!Extract
  PROVE  FilesInv'
<1>1. files_win \in WindowType /\ disk \subseteq OnDisk
  BY DEF FilesInv, FilesType
<1>2. /\ Files!Path(files_win.sel) \in Paths /\ files_win.menu \in Paths
      /\ Files!NoPath \in Paths
      /\ [dir |-> files_win.dir, name |-> 3] \in Paths
  BY <1>1, PlainIs DEF WindowType, Entries, Paths, Places, Files!Path
<1>3. "trash" \in Jobs /\ "restore" \in Jobs /\ "empty" \in Jobs /\ "extract" \in Jobs
  BY DEF Jobs
<1>4. CASE Files!Trash
  <2>1. PICK named \in {Files!NoPath, files_win.menu} :
          Files!Operate("trash", Files!Path(files_win.sel), Files!NoPath, named)
    BY <1>4 DEF Files!Trash
  <2> QED
    BY <1>2, <1>3, <2>1, OperateKeeps
<1>5. CASE Files!Restore
  <2>1. PICK r \in Files!At(Files!Path(files_win.sel)) :
          Files!Operate("restore", Files!Path(r), r.from, Files!NoPath)
    BY <1>5 DEF Files!Restore
  <2>2. r \in OnDisk
    BY <1>1, <2>1 DEF Files!At
  <2>3. Files!Path(r) \in Paths /\ r.from \in Paths
    BY <2>2 DEF OnDisk, Paths, Files!Path
  <2> QED
    BY <1>2, <1>3, <2>1, <2>3, OperateKeeps
<1>6. CASE Files!EmptyTrash
  <2>1. Files!Operate("empty", Files!NoPath, Files!NoPath, Files!NoPath)
    BY <1>6 DEF Files!EmptyTrash
  <2> QED
    BY <1>2, <1>3, <2>1, OperateKeeps
<1>7. CASE Files!Extract
  <2>1. Files!Operate("extract", Files!Path(files_win.sel),
                      [dir |-> files_win.dir, name |-> 3], Files!NoPath)
    BY <1>7 DEF Files!Extract
  <2> QED
    BY <1>2, <1>3, <2>1, OperateKeeps
<1> QED
  BY <1>4, <1>5, <1>6, <1>7

LEMMA ClipboardKeeps ==
  ASSUME FilesInv, Files!Paste \/ \E cut \in BOOLEAN : Files!Copy(cut)
  PROVE  FilesInv'
<1>1. /\ files_win \in WindowType /\ acts \in Nat /\ jobs \in Seq(JobType)
      /\ clip \in [file : Paths, cut : BOOLEAN]
  BY DEF FilesInv, FilesType
<1>2. Alike(files_win, files_win)
  BY DEF Alike
<1>3. CASE Files!Paste
  <2> DEFINE do == IF clip.cut THEN "move" ELSE "copy"
             to == [dir |-> files_win.dir, name |-> clip.file.name]
  <2>1. /\ Files!Start(do, clip.file, to, Files!NoPath) /\ acts' = acts + 1
        /\ UNCHANGED <<disk, files_win, reading, look, writes>>
        /\ clip' = IF clip.cut THEN [file |-> Files!NoPath, cut |-> FALSE] ELSE clip
    BY <1>3 DEF Files!Paste, Files!Act
  <2>2. do \in Jobs /\ clip.file \in Paths /\ to \in Paths /\ Files!NoPath \in Paths
    BY <1>1, PlainIs DEF Jobs, Paths, Places, WindowType
  <2> HIDE DEF do, to
  <2>3. jobs' \in Seq(JobType)
    BY <1>1, <2>1, <2>2, StartedJobs
  <2>4. clip' \in [file : Paths, cut : BOOLEAN]
    BY <1>1, <2>1, <2>2
  <2> QED
    BY <1>1, <1>2, <2>1, <2>3, <2>4, AskedKeeps
<1>4. ASSUME NEW cut \in BOOLEAN, Files!Copy(cut) PROVE FilesInv'
  <2>1. /\ clip' = [file |-> Files!Path(files_win.sel), cut |-> cut] /\ acts' = acts + 1
        /\ UNCHANGED <<disk, files_win, reading, look, jobs, writes>>
    BY <1>4 DEF Files!Copy, Files!Act
  <2>2. Files!Path(files_win.sel) \in Paths
    BY <1>1 DEF WindowType, Entries, Paths, Files!Path
  <2>3. clip' \in [file : Paths, cut : BOOLEAN] /\ jobs' \in Seq(JobType) /\ acts' \in Nat
    BY <1>1, <2>1, <2>2
  <2> QED
    BY <1>1, <1>2, <2>1, <2>3, AskedKeeps
<1> QED
  BY <1>3, <1>4

-----------------------------------------------------------------------------
(* The worker.                                                             *)

LEMMA UniqueIsAPath ==
  ASSUME NEW p \in Paths
  PROVE  Files!Unique(p) \in Paths /\ Files!Unique(p).dir = p.dir
<1> DEFINE Free(n) == n \in {p.name + 10 * k : k \in 0..3}
                      /\ Files!At([dir |-> p.dir, name |-> n]) = {}
           free == {n \in {p.name + 10 * k : k \in 0..3} :
                      Files!At([dir |-> p.dir, name |-> n]) = {}}
           least == CHOOSE n \in free : \A m \in free : n <= m
<1>1. p.name \in Int /\ p.dir \in Places
  BY DEF Paths
<1>2. free \subseteq {p.name, p.name + 10, p.name + 20, p.name + 30}
  BY <1>1
<1>3. free \subseteq Int
  BY <1>1, <1>2
<1> HIDE DEF free
<1>4. free # {} => least \in Int
  <2> SUFFICES ASSUME free # {} PROVE least \in Int
    OBVIOUS
  <2>1. \E n \in free : \A m \in free : n <= m
    <3>1. CASE p.name \in free
      BY <1>1, <1>2, <3>1
    <3>2. CASE p.name \notin free /\ p.name + 10 \in free
      BY <1>1, <1>2, <3>2
    <3>3. CASE p.name \notin free /\ p.name + 10 \notin free /\ p.name + 20 \in free
      BY <1>1, <1>2, <3>3
    <3>4. CASE p.name \notin free /\ p.name + 10 \notin free /\ p.name + 20 \notin free
      <4>1. free = {p.name + 30}
        BY <1>2, <3>4
      <4> QED
        BY <1>1, <4>1
    <3> QED
      BY <3>1, <3>2, <3>3, <3>4
  <2>2. least \in free
    BY <2>1
  <2> QED
    BY <1>3, <2>2
<1>5. Files!Unique(p) = [dir |-> p.dir, name |-> IF free = {} THEN p.name ELSE least]
  BY DEF Files!Unique, free
<1> HIDE DEF least
<1> QED
  BY <1>1, <1>4, <1>5 DEF Paths

LEMMA WroteKeeps ==
  ASSUME FilesInv, NEW i \in DOMAIN jobs, NEW d, Sound(d), NEW dirs, SameBut(dirs, d, disk),
         Files!Wrote(i, d, dirs), UNCHANGED <<reading, look, clip, acts, writes>>
  PROVE  FilesInv'
<1>1. jobs \in Seq(JobType) /\ writes \in WritesType
  BY DEF FilesInv, FilesType
<1>2. /\ disk' = d /\ jobs' = [jobs EXCEPT ![i].step = "done"]
      /\ files_win' = Files!Watched(dirs)
  BY DEF Files!Wrote
<1>3. [jobs[i] EXCEPT !.step = "done"] \in JobType
  <2>1. jobs[i] \in JobType
    BY <1>1
  <2> QED
    BY <2>1 DEF JobType
<1>4. jobs' \in Seq(JobType)
  BY <1>1, <1>2, <1>3
<1> QED
  BY <1>1, <1>2, <1>4, DiskChangeKeeps

LEMMA DoesKeeps ==
  ASSUME FilesInv, NEW i \in DOMAIN jobs, NEW can \in BOOLEAN, NEW d, NEW dirs,
         can => Sound(d) /\ SameBut(dirs, d, disk),
         Files!Does(i, can, d, dirs), UNCHANGED <<reading, look, clip, acts, writes>>
  PROVE  FilesInv'
<1>1. CASE can /\ Files!Wrote(i, d, dirs)
  BY <1>1, WroteKeeps
<1>2. CASE Files!Wrote(i, disk, {})
  <2>1. Sound(disk) /\ SameBut({}, disk, disk)
    BY FilesSound DEF SameBut
  <2> QED
    BY <1>2, <2>1, WroteKeeps
<1> QED
  BY <1>1, <1>2 DEF Files!Does

\* What is moved or copied, as WrittenOver has it.
LEMMA MovedIs ==
  ASSUME NEW from, NEW to, NEW origin
  PROVE  /\ Files!Moved(from, to, origin) =
              (disk \ (Files!At(from) \cup Files!At(to))) \cup Written(from, to, origin)
         /\ Files!Copied(from, to) =
              (disk \ Files!At(to)) \cup Written(from, to, Files!NoPath)
<1>1. \A r : [Files!Plain(to, r.data) EXCEPT !.from = origin]
               = [dir |-> to.dir, name |-> to.name, data |-> r.data, from |-> origin]
  BY DEF Files!Plain
<1>2. Files!Moved(from, to, origin) =
        (disk \ (Files!At(from) \cup Files!At(to))) \cup Written(from, to, origin)
  BY <1>1, Zenon DEF Files!Moved, Written
<1>3. Files!Copied(from, to) =
        (disk \ Files!At(to)) \cup Written(from, to, Files!NoPath)
  BY DEF Files!Copied, Files!Plain, Written
<1> QED
  BY <1>2, <1>3

LEMMA MovedKeeps ==
  ASSUME FilesInv, NEW i \in DOMAIN jobs, NEW can \in BOOLEAN, NEW from \in Paths,
         NEW to \in Paths, NEW origin \in Paths, NEW dirs, from.dir \in dirs, to.dir \in dirs,
         Files!Does(i, can, Files!Moved(from, to, origin), dirs),
         UNCHANGED <<reading, look, clip, acts, writes>>
  PROVE  FilesInv'
<1> DEFINE gone == Files!At(from) \cup Files!At(to)
           moved == Files!Moved(from, to, origin)
<1>1. moved = (disk \ gone) \cup Written(from, to, origin)
  BY MovedIs
<1>2. FilesType /\ Sound(disk) /\ OneAtAPath(disk)
  BY FilesSound DEF FilesInv
<1>3. /\ Files!At(to) \subseteq gone
      /\ \A r \in disk : r \in gone => r.dir \in dirs
  BY <1>2, AtAPath
<1> HIDE DEF gone, moved
<1>4. Sound(moved) /\ SameBut(dirs, moved, disk)
  BY <1>1, <1>2, <1>3, WrittenOver
<1>5. Files!Does(i, can, moved, dirs)
  BY DEF moved
<1> QED
  BY <1>4, <1>5, DoesKeeps

LEMMA CopiedKeeps ==
  ASSUME FilesInv, NEW i \in DOMAIN jobs, NEW can \in BOOLEAN, NEW from \in Paths,
         NEW to \in Paths, Files!Does(i, can, Files!Copied(from, to), {to.dir}),
         UNCHANGED <<reading, look, clip, acts, writes>>
  PROVE  FilesInv'
<1> DEFINE gone == Files!At(to)
           dirs == {to.dir}
           copied == Files!Copied(from, to)
<1>1. copied = (disk \ gone) \cup Written(from, to, Files!NoPath)
  BY MovedIs
<1>2. FilesType /\ Sound(disk) /\ OneAtAPath(disk) /\ Files!NoPath \in Paths
  BY FilesSound, PlainIs DEF FilesInv
<1>3. /\ Files!At(to) \subseteq gone /\ to.dir \in dirs
      /\ \A r \in disk : r \in gone => r.dir \in dirs
  BY <1>2, AtAPath
<1>4. Files!Does(i, can, copied, dirs)
  OBVIOUS
<1> HIDE DEF gone, copied, dirs
<1>5. Sound(copied) /\ SameBut(dirs, copied, disk)
  BY <1>1, <1>2, <1>3, WrittenOver
<1> QED
  BY <1>4, <1>5, DoesKeeps

\* batch_op_worker, one step of the operation i.
LEMMA WorkKeeps ==
  ASSUME FilesInv, NEW i \in DOMAIN jobs, Files!Work(i)
  PROVE  FilesInv'
<1> DEFINE j == jobs[i]
           bin == Files!Unique([dir |-> "trash", name |-> j.file.name])
           both == {j.file.dir, j.to.dir}
<1>1. /\ files_win \in WindowType /\ acts \in Nat /\ jobs \in Seq(JobType)
      /\ clip \in [file : Paths, cut : BOOLEAN] /\ FilesType /\ OneAtAPath(disk)
      /\ writes \in WritesType /\ Sound(disk)
  BY FilesSound DEF FilesInv, FilesType
<1>2. j \in JobType
  BY <1>1
<1>3. j.file \in Paths /\ j.to \in Paths /\ j.file.name \in Int
  BY <1>2 DEF JobType, Paths
<1>4. UNCHANGED <<reading, look, clip, acts, writes>>
  BY DEF Files!Work
<1>5. "trash" \in Folders /\ [dir |-> "trash", name |-> j.file.name] \in Paths
  BY <1>3, DiskAssumption DEF Paths, Places
<1>6. bin \in Paths /\ bin.dir = "trash"
  <2> DEFINE p == [dir |-> "trash", name |-> j.file.name]
  <2>1. p \in Paths /\ p.dir = "trash"
    BY <1>5
  <2> HIDE DEF p
  <2>2. Files!Unique(p) \in Paths /\ Files!Unique(p).dir = p.dir
    BY <2>1, UniqueIsAPath
  <2> QED
    BY <2>1, <2>2 DEF p
<1>7. Files!Unique(j.to) \in Paths /\ Files!Unique(j.to).dir = j.to.dir
  BY <1>3, UniqueIsAPath
<1>8. Files!NoPath \in Paths
  BY PlainIs
<1>9. \A p : /\ Files!At(p) \subseteq disk
             /\ \A r \in Files!At(p) : r.dir = p.dir
  BY <1>1, AtAPath
<1>10. \/ j.do = "trash" /\ Files!Does(i, Files!At(j.file) # {}, Files!Moved(j.file, bin, j.file), {j.file.dir, "trash"})
       \/ j.do = "delete" /\ Files!Does(i, Files!At(j.file) # {}, disk \ Files!At(j.file), both)
       \/ j.do = "restore" /\ Files!Does(i, Files!Fits(j.file, j.to), Files!Moved(j.file, j.to, Files!NoPath), both)
       \/ j.do = "rename" /\ Files!Does(i, Files!At(j.file) # {} /\ Files!At(j.to) = {}, Files!Moved(j.file, j.to, Files!NoPath), both)
       \/ j.do = "mkdir" /\ Files!Does(i, Files!At(j.file) = {}, disk \cup {Files!Plain(j.file, Files!NewFolder)}, both)
       \/ j.do = "extract" /\ Files!Does(i, Files!At(j.file) # {} /\ Files!At(Files!Unique(j.to)) = {},
                       disk \cup {Files!Plain(Files!Unique(j.to), Files!NewFolder)}, both)
       \/ j.do = "move" /\ Files!Does(i, j.file # j.to /\ Files!Fits(j.file, j.to), Files!Moved(j.file, j.to, Files!NoPath), both)
       \/ /\ j.do = "copy" /\ j.step = "queued"
          /\ jobs' = [jobs EXCEPT ![i].to = Files!Unique(j.to), ![i].step = "resolved"]
          /\ UNCHANGED <<disk, files_win>>
       \/ /\ j.do = "copy" /\ j.step = "resolved"
          /\ Files!Does(i, Files!At(j.file) # {}, Files!Copied(j.file, j.to), {j.to.dir})
       \/ \E r \in disk : r.dir = "trash" /\ disk' = disk \ {r} /\ jobs' = jobs
                                    /\ files_win' = Files!Watched({"trash"})
       \/ Files!Wrote(i, disk, {})
  BY DEF Files!Work
<1> HIDE DEF bin
<1>11. CASE Files!Does(i, Files!At(j.file) # {}, Files!Moved(j.file, bin, j.file), {j.file.dir, "trash"})
  <2> DEFINE dirs == {j.file.dir, "trash"}
             can == Files!At(j.file) # {}
             file == j.file
  <2>1. /\ can \in BOOLEAN /\ file.dir \in dirs /\ bin.dir \in dirs /\ file \in Paths
        /\ Files!Does(i, can, Files!Moved(file, bin, file), dirs)
    BY <1>3, <1>6, <1>11
  <2> HIDE DEF dirs, can, file
  <2> QED
    BY <1>4, <1>6, <2>1, MovedKeeps
<1>12. ASSUME NEW can \in BOOLEAN, Files!Does(i, can, Files!Moved(j.file, j.to, Files!NoPath), both)
       PROVE  FilesInv'
  <2> DEFINE dirs == both
             file == j.file
             to == j.to
             origin == Files!NoPath
  <2>1. /\ file.dir \in dirs /\ to.dir \in dirs /\ file \in Paths /\ to \in Paths
        /\ origin \in Paths /\ Files!Does(i, can, Files!Moved(file, to, origin), dirs)
    BY <1>3, <1>8, <1>12
  <2> HIDE DEF dirs, file, to, origin
  <2> QED
    BY <1>4, <2>1, MovedKeeps
<1>13. CASE Files!Does(i, Files!At(j.file) # {}, disk \ Files!At(j.file), both)
  <2> DEFINE dirs == both
             can == Files!At(j.file) # {}
             gone == Files!At(j.file)
             d == disk \ gone
  <2>1. \A r \in disk : r \in gone => r.dir \in dirs
    BY <1>9
  <2>2. can \in BOOLEAN /\ Files!Does(i, can, d, dirs)
    BY <1>13
  <2> HIDE DEF dirs, gone, can
  <2>3. Sound(d) /\ SameBut(dirs, d, disk)
    BY <1>1, <2>1, RemovedFromDisk
  <2> HIDE DEF d
  <2> QED
    BY <1>4, <2>2, <2>3, DoesKeeps
<1>14. ASSUME NEW p \in Paths, p.dir \in both, NEW can \in BOOLEAN, can => Files!At(p) = {},
              Files!Does(i, can, disk \cup {Files!Plain(p, Files!NewFolder)}, both)
       PROVE  FilesInv'
  <2> DEFINE dirs == both
             r == Files!Plain(p, Files!NewFolder)
             data == Files!NewFolder
             origin == Files!NoPath
             d == disk \cup {r}
  <2>1. /\ r = [dir |-> p.dir, name |-> p.name, data |-> data, from |-> origin]
        /\ data \in Int /\ origin \in Paths /\ p.dir \in dirs
    BY <1>8, <1>14, PlainIs DEF Files!NewFolder
  <2>2. Files!Does(i, can, d, dirs)
    BY <1>14
  <2>3. can => \A s \in disk : Files!Path(s) # p
    BY <1>14 DEF Files!At
  <2> HIDE DEF dirs, r, data, origin
  <2>4. can => Sound(disk \cup {r}) /\ SameBut(dirs, disk \cup {r}, disk)
    <3> SUFFICES ASSUME can PROVE Sound(disk \cup {r}) /\ SameBut(dirs, disk \cup {r}, disk)
      OBVIOUS
    <3>1. \A s \in disk : Files!Path(s) # p
      BY <2>3
    <3> QED
      BY <1>1, <2>1, <3>1, PlacedOnDisk
  <2>5. can => Sound(d) /\ SameBut(dirs, d, disk)
    BY <2>4
  <2> HIDE DEF d
  <2> QED
    BY <1>4, <2>2, <2>5, DoesKeeps
<1>15. CASE /\ jobs' = [jobs EXCEPT ![i].to = Files!Unique(j.to), ![i].step = "resolved"]
            /\ UNCHANGED <<disk, files_win>>
  <2> DEFINE to == Files!Unique(j.to)
  <2>1. to \in Paths
    BY <1>7
  <2> HIDE DEF to
  <2>2. [j EXCEPT !.to = to, !.step = "resolved"] \in JobType
    BY <1>2, <2>1 DEF JobType
  <2>3. jobs' = [jobs EXCEPT ![i] = [@ EXCEPT !.to = to, !.step = "resolved"]]
    BY <1>1, <1>15 DEF to
  <2>4. jobs' \in Seq(JobType)
    BY <1>1, <2>2, <2>3
  <2>5. Alike(files_win, files_win)
    BY DEF Alike
  <2>6. /\ UNCHANGED <<disk, files_win, reading, look, writes>> /\ acts' \in Nat
        /\ clip' \in [file : Paths, cut : BOOLEAN]
    BY <1>1, <1>4, <1>15
  <2> QED
    BY <1>1, <2>4, <2>5, <2>6, AskedKeeps
<1>16. CASE Files!Does(i, Files!At(j.file) # {}, Files!Copied(j.file, j.to), {j.to.dir})
  <2> DEFINE can == Files!At(j.file) # {}
             file == j.file
             to == j.to
  <2>1. /\ file \in Paths /\ to \in Paths /\ can \in BOOLEAN
        /\ Files!Does(i, can, Files!Copied(file, to), {to.dir})
    BY <1>3, <1>16
  <2> HIDE DEF file, to, can
  <2> QED
    BY <1>4, <2>1, CopiedKeeps
<1>17. ASSUME NEW r \in disk, r.dir = "trash", disk' = disk \ {r}, jobs' = jobs,
              files_win' = Files!Watched({"trash"})
       PROVE  FilesInv'
  <2> DEFINE gone == {r}
             dirs == {"trash"}
             d == disk \ gone
  <2>1. \A s \in disk : s \in gone => s.dir \in dirs
    BY <1>17
  <2>2. disk' = d /\ files_win' = Files!Watched(dirs) /\ jobs' \in Seq(JobType)
    BY <1>1, <1>17
  <2> HIDE DEF gone, dirs
  <2>3. Sound(d) /\ SameBut(dirs, d, disk)
    BY <1>1, <2>1, RemovedFromDisk
  <2> HIDE DEF d
  <2>4. UNCHANGED <<reading, look, clip, acts, writes>> /\ writes' \in WritesType
    BY <1>1, <1>4
  <2> QED
    BY <2>2, <2>3, <2>4, DiskChangeKeeps
<1>18. CASE Files!Wrote(i, disk, {})
  <2>1. Sound(disk) /\ SameBut({}, disk, disk)
    BY <1>1 DEF SameBut
  <2> QED
    BY <1>4, <1>18, <2>1, WroteKeeps
<1>19. ASSUME Files!Does(i, Files!At(j.file) = {}, disk \cup {Files!Plain(j.file, Files!NewFolder)}, both)
       PROVE  FilesInv'
  <2> DEFINE can == Files!At(j.file) = {}
             p == j.file
  <2>1. p \in Paths /\ p.dir \in both /\ can \in BOOLEAN /\ (can => Files!At(p) = {})
    BY <1>3
  <2>2. Files!Does(i, can, disk \cup {Files!Plain(p, Files!NewFolder)}, both)
    BY <1>19
  <2> HIDE DEF p, can, both
  <2> QED
    BY <1>14, <2>1, <2>2
<1>20. ASSUME Files!Does(i, Files!At(j.file) # {} /\ Files!At(Files!Unique(j.to)) = {},
                       disk \cup {Files!Plain(Files!Unique(j.to), Files!NewFolder)}, both)
       PROVE  FilesInv'
  <2> DEFINE can == Files!At(j.file) # {} /\ Files!At(Files!Unique(j.to)) = {}
             p == Files!Unique(j.to)
  <2>1. p \in Paths /\ p.dir \in both /\ can \in BOOLEAN /\ (can => Files!At(p) = {})
    BY <1>7
  <2>2. Files!Does(i, can, disk \cup {Files!Plain(p, Files!NewFolder)}, both)
    BY <1>20
  <2> HIDE DEF p, can, both
  <2> QED
    BY <1>14, <2>1, <2>2
<1>21. ASSUME Files!Does(i, Files!Fits(j.file, j.to), Files!Moved(j.file, j.to, Files!NoPath), both)
       PROVE  FilesInv'
  <2> DEFINE can == Files!Fits(j.file, j.to)
  <2>1. can \in BOOLEAN /\ Files!Does(i, can, Files!Moved(j.file, j.to, Files!NoPath), both)
    BY <1>21 DEF Files!Fits
  <2> HIDE DEF can, both
  <2> QED
    BY <1>12, <2>1
<1>22. ASSUME Files!Does(i, Files!At(j.file) # {} /\ Files!At(j.to) = {}, Files!Moved(j.file, j.to, Files!NoPath), both)
       PROVE  FilesInv'
  <2> DEFINE can == Files!At(j.file) # {} /\ Files!At(j.to) = {}
  <2>1. can \in BOOLEAN /\ Files!Does(i, can, Files!Moved(j.file, j.to, Files!NoPath), both)
    BY <1>22
  <2> HIDE DEF can, both
  <2> QED
    BY <1>12, <2>1
<1>23. ASSUME Files!Does(i, j.file # j.to /\ Files!Fits(j.file, j.to), Files!Moved(j.file, j.to, Files!NoPath), both)
       PROVE  FilesInv'
  <2> DEFINE can == j.file # j.to /\ Files!Fits(j.file, j.to)
  <2>1. can \in BOOLEAN /\ Files!Does(i, can, Files!Moved(j.file, j.to, Files!NoPath), both)
    BY <1>23
  <2> HIDE DEF can, both
  <2> QED
    BY <1>12, <2>1
<1> HIDE DEF j, both
<1> QED
  BY <1>10, <1>11, <1>13, <1>15, <1>16, <1>17, <1>18, <1>19, <1>20, <1>21, <1>22, <1>23

\* files_window_on_file_op_completed
LEMMA OpCompletedKeeps ==
  ASSUME FilesInv, NEW i \in DOMAIN jobs, Files!OpCompleted(i)
  PROVE  FilesInv'
<1>1. /\ files_win \in WindowType /\ acts \in Nat /\ jobs \in Seq(JobType)
      /\ clip \in [file : Paths, cut : BOOLEAN] /\ Visited(files_win)
  BY DEF FilesInv, FilesType
<1>2. /\ jobs' = [k \in 1..(Len(jobs) - 1) |-> jobs[IF k < i THEN k ELSE k + 1]]
      /\ IF files_win.open THEN Files!Reload(files_win.dir) ELSE reading' = reading
      /\ UNCHANGED <<disk, files_win, look, clip, acts, writes>>
  BY DEF Files!OpCompleted
<1>3. jobs' \in Seq(JobType)
  <2>1. PICK n \in Nat : n = Len(jobs) - 1
    BY <1>1
  <2>2. \A k \in 1..n : jobs[IF k < i THEN k ELSE k + 1] \in JobType
    BY <1>1, <2>1
  <2>3. jobs' \in [1..n -> JobType]
    BY <1>2, <2>1, <2>2
  <2> QED
    BY <2>3
<1>4. acts' \in Nat /\ clip' \in [file : Paths, cut : BOOLEAN]
  BY <1>1, <1>2
<1>5. CASE files_win.open
  BY <1>1, <1>2, <1>3, <1>4, <1>5, ReloadKeeps
<1>6. CASE ~files_win.open
  <2>1. Alike(files_win, files_win)
    BY DEF Alike
  <2> QED
    BY <1>1, <1>2, <1>3, <1>4, <1>6, <2>1, AskedKeeps
<1> QED
  BY <1>5, <1>6

\* kajo_files_window_dispose
LEMMA CloseKeeps ==
  ASSUME FilesInv, Files!Close
  PROVE  FilesInv' /\ ~files_win'.open /\ ~look'.open
<1> DEFINE w == [files_win EXCEPT !.open = FALSE, !.timer = FALSE]
<1>1. /\ files_win' = w /\ reading' = Files!NotReading /\ look' = Files!Hidden(look)
      /\ UNCHANGED <<disk, clip, jobs, writes>> /\ acts' = acts + 1
  BY DEF Files!Close, Files!Act
<1>2. files_win \in WindowType /\ look \in LookType
  BY DEF FilesInv, FilesType
<1>3. w \in WindowType
  BY <1>2 DEF WindowType
<1>4. /\ ~w.open /\ w.dir = files_win.dir /\ w.all = files_win.all
      /\ w.view = files_win.view /\ w.sel = files_win.sel /\ w.hidden = files_win.hidden
      /\ w.query = files_win.query /\ w.history = files_win.history
      /\ w.pos = files_win.pos
  BY <1>2 DEF WindowType
<1> HIDE DEF w
<1>5. \A e : Files!Matches(w, e) <=> Files!Matches(files_win, e)
  BY <1>4 DEF Files!Matches
<1>6. Listed(w)
  BY <1>4, <1>5 DEF FilesInv, Listed
<1>7. Visited(w) /\ Reads(w, reading', disk, writes.inplace) /\ IsShown(w, reading', disk, writes.inplace)
  BY <1>1, <1>4, NotReadingIs DEF FilesInv, Visited, Reads, IsShown
<1>8. look' \in LookType /\ Looks(look', w.sel) /\ ~look'.open
  BY <1>1, <1>2, HiddenLooks
<1>9. FilesType'
  BY <1>1, <1>3, <1>8, NotReadingIs DEF FilesInv, FilesType
<1> QED
  BY <1>1, <1>4, <1>6, <1>7, <1>8, <1>9, NotReadingIs DEF FilesInv

LEMMA FilesNextKeeps ==
  ASSUME FilesInv, Files!Next \/ UNCHANGED Files!vars
  PROVE  FilesInv'
<1>1. CASE UNCHANGED Files!vars
  <2>1. UNCHANGED <<disk, files_win, reading, look, clip, jobs, acts, writes>>
    BY <1>1 DEF Files!vars
  <2>2. Alike(files_win, files_win)
    BY DEF Alike
  <2>3. /\ files_win \in WindowType /\ acts' \in Nat /\ jobs' \in Seq(JobType)
        /\ clip' \in [file : Paths, cut : BOOLEAN]
    BY <2>1 DEF FilesInv, FilesType
  <2> QED
    BY <2>1, <2>2, <2>3, AskedKeeps
<1>2. CASE Files!Next
  BY <1>2, EnumerateKeeps, EnumeratedKeeps, DebouncedKeeps, ElsewhereKeeps, GoesKeep,
     ViewsKeep, SelectKeeps, LookKeeps, AskKeeps, SubmitKeeps, OperationsKeep,
     ClipboardKeeps, WorkKeeps, OpCompletedKeeps, CloseKeeps DEF Files!Next
<1> QED
  BY <1>1, <1>2

LEMMA FilesAlways ==
  Files!Spec => []FilesInv
<1>1. Files!Init => FilesInv
  BY FilesInitInv
<1>2. FilesInv /\ [Files!Next]_Files!vars => FilesInv'
  BY FilesNextKeeps
<1> QED
  BY <1>1, <1>2, PTL DEF Files!Spec

\* A window at rest shows the files of the folder that it is in: those there are, if GIO
\* can watch the folder, each as it is on the disk but for those rewritten in place since
\* they were read (on_dir_monitor_changed ignores their reports).  Quick Look is about
\* the selection.
THEOREM FolderIsAlwaysShown ==
  Files!Spec => []FolderIsShown
<1>1. FilesInv => FolderIsShown
  <2> SUFFICES ASSUME FilesInv PROVE FolderIsShown
    OBVIOUS
  <2>1. Files!FilesInStep
    <3>1. Contents(disk, files_win.dir) = Files!InDir
      BY DEF Contents, Files!InDir
    <3>2. \A es : ListOf(es, disk, files_win.dir, writes.inplace) =>
            /\ \A e \in es : e.dir = files_win.dir
            /\ files_win.dir \notin Unwatched =>
                 /\ {Files!Path(e) : e \in es} = {Files!Path(e) : e \in Files!InDir}
                 /\ Files!Told(es) = Files!Told(Files!InDir)
      BY <3>1 DEF ListOf, SameFiles, PathsOf, ToldOf, Files!Told
    <3> QED
      BY <3>2 DEF FilesInv, Visited, IsShown, Listed, Files!FilesInStep
  <2>2. Files!LookFollows
    BY DEF FilesInv, Looks, Files!LookFollows
  <2> QED
    BY <2>1, <2>2 DEF FolderIsShown
<1> QED
  BY <1>1, FilesAlways, PTL

-----------------------------------------------------------------------------
(* A window that was closed.                                               *)

\* Only kajo_files_window_dispose closes a window.
LEMMA OnlyCloseCloses ==
  ASSUME FilesInv, files_win.open, Files!Next, ~Files!Close
  PROVE  files_win'.open
<1>1. files_win \in WindowType /\ reading.got \in SUBSET Entries
  BY DEF FilesInv, FilesType, ReadingType
<1>2. ASSUME files_win' = files_win PROVE files_win'.open
  BY <1>2
<1>3. \A dirs : Files!Watched(dirs).open
  BY <1>1 DEF Files!Watched, WindowType
<1>4. CASE Files!Enumerate \/ Files!LookAt \/ Files!LookAway \/ Files!PreviewReady
           \/ Files!Paste \/ (\E cut \in BOOLEAN : Files!Copy(cut))
           \/ \E i \in DOMAIN jobs : Files!OpCompleted(i)
  BY <1>2, <1>4
     DEF Files!Enumerate, Files!LookAt, Files!LookAway, Files!Looks, Files!PreviewReady,
         Files!Paste, Files!Copy, Files!OpCompleted
<1>5. CASE Files!Enumerated
  <2> DEFINE e == [files_win EXCEPT !.page = "error", !.failed = TRUE]
             w == [files_win EXCEPT !.all = reading.got, !.of = files_win.dir, !.failed = FALSE]
  <2>1. files_win' = e \/ files_win' = Files!Rebuilt(w, TRUE)
    BY <1>5 DEF Files!Enumerated, Files!Show
  <2>2. e.open /\ w.open = files_win.open /\ w.all = reading.got
    BY <1>1 DEF WindowType
  <2>3. w \in WindowType
    BY <1>1 DEF WindowType, Places
  <2>4. Orderly(w.all)
    BY <2>2 DEF FilesInv
  <2> HIDE DEF e, w
  <2>5. Files!Rebuilt(w, TRUE).open = w.open
    BY <2>3, <2>4, RebuiltIs
  <2> QED
    BY <2>1, <2>2, <2>5
<1>6. CASE Files!Debounced
  <2>1. files_win' = [files_win EXCEPT !.timer = FALSE]
    BY <1>6 DEF Files!Debounced
  <2> QED
    BY <1>1, <2>1 DEF WindowType
<1>7. CASE Files!Elsewhere
  BY <1>3, <1>7 DEF Files!Elsewhere
<1>8. CASE Files!Navigate \/ Files!GoBack \/ Files!GoForward \/ Files!Refresh
  <2>1. ASSUME NEW w, Files!Move(w), w.open = files_win.open PROVE files_win'.open
    BY <2>1 DEF Files!Move
  <2>2. \A f : Files!Went(files_win, f).open = files_win.open
    <3> TAKE f
    <3> DEFINE history == Append(SubSeq(files_win.history, 1, files_win.pos), f)
               pos == files_win.pos + 1
    <3>1. Files!Went(files_win, f)
            = [files_win EXCEPT !.dir = f, !.history = history, !.pos = pos]
      BY <1>1 DEF Files!Went, WindowType
    <3> HIDE DEF history, pos
    <3> QED
      BY <1>1, <3>1 DEF WindowType
  <2>3. ASSUME NEW dir, NEW pos
        PROVE  [files_win EXCEPT !.pos = pos, !.dir = dir].open = files_win.open
    BY <1>1 DEF WindowType
  <2>4. Files!Back(files_win).open = files_win.open
    BY <2>3 DEF Files!Back
  <2>5. Files!Forth(files_win).open = files_win.open
    BY <2>3 DEF Files!Forth
  <2> QED
    BY <1>8, <2>1, <2>2, <2>4, <2>5
       DEF Files!Navigate, Files!GoBack, Files!GoForward, Files!Refresh
<1>9. CASE \/ Files!ToggleHidden \/ Files!Search
           \/ \E field \in {"name", "size"} : Files!SortBy(field)
  <2>1. ASSUME NEW w \in WindowType, Files!View(w), w.open = files_win.open,
               w.all = files_win.all
        PROVE  files_win'.open
    <3>1. files_win' = Files!Rebuilt(w, FALSE)
      BY <2>1 DEF Files!View, Files!Show
    <3>2. Orderly(w.all)
      BY <2>1 DEF FilesInv
    <3> QED
      BY <2>1, <3>1, <3>2, RebuiltIs
  <2>2. CASE Files!ToggleHidden
    <3> DEFINE w == [files_win EXCEPT !.hidden = ~@]
    <3>1. w \in WindowType /\ w.open = files_win.open /\ w.all = files_win.all
      BY <1>1 DEF WindowType
    <3>2. Files!View(w)
      BY <2>2 DEF Files!ToggleHidden
    <3> HIDE DEF w
    <3> QED
      BY <2>1, <3>1, <3>2
  <2>3. CASE Files!Search
    <3>1. PICK q \in {0, 1} : Files!View([files_win EXCEPT !.query = q])
      BY <2>3 DEF Files!Search
    <3> DEFINE w == [files_win EXCEPT !.query = q]
    <3>2. w \in WindowType
      BY <1>1 DEF WindowType
    <3>3. w.open = files_win.open /\ w.all = files_win.all
      BY <1>1 DEF WindowType
    <3>4. Files!View(w)
      BY <3>1
    <3> HIDE DEF w
    <3> QED
      BY <2>1, <3>2, <3>3, <3>4
  <2>4. ASSUME NEW field \in {"name", "size"}, Files!SortBy(field) PROVE files_win'.open
    <3> DEFINE asc == IF files_win.by = field THEN ~files_win.asc ELSE field = "name"
               w == [files_win EXCEPT !.by = field, !.asc = asc]
    <3>1. Files!View(w)
      BY <2>4 DEF Files!SortBy
    <3>2. asc \in BOOLEAN
      BY <1>1 DEF WindowType
    <3> HIDE DEF asc
    <3>3. w \in WindowType /\ w.open = files_win.open /\ w.all = files_win.all
      BY <1>1, <3>2 DEF WindowType
    <3> HIDE DEF w
    <3> QED
      BY <2>1, <3>1, <3>3
  <2> QED
    BY <1>9, <2>2, <2>3, <2>4
<1>10. CASE Files!Select
  <2>1. PICK e : files_win' = [files_win EXCEPT !.sel = e]
    BY <1>10 DEF Files!Select, Files!Show
  <2> QED
    BY <1>1, <2>1 DEF WindowType
<1>11. CASE Files!Prompt \/ Files!Cancelled \/ Files!OpenMenu
  <2>1. CASE Files!Prompt
    <3>1. PICK prompt, says :
            files_win' = [files_win EXCEPT !.prompt = prompt, !.says = says]
      BY <2>1 DEF Files!Prompt, Files!Ask
    <3> QED
      BY <1>1, <3>1 DEF WindowType
  <2>2. CASE Files!Cancelled
    <3>1. files_win' = [files_win EXCEPT !.prompt = "none"]
      BY <2>2 DEF Files!Cancelled, Files!Ask
    <3> QED
      BY <1>1, <3>1 DEF WindowType
  <2>3. CASE Files!OpenMenu
    <3>1. PICK menu : files_win' = [files_win EXCEPT !.menu = menu]
      BY <2>3 DEF Files!OpenMenu, Files!Ask
    <3> QED
      BY <1>1, <3>1 DEF WindowType
  <2> QED
    BY <1>11, <2>1, <2>2, <2>3
<1>12. CASE Files!Submit
  <2>1. files_win' = [files_win EXCEPT !.prompt = "none"]
    BY <1>12 DEF Files!Submit
  <2> QED
    BY <1>1, <2>1 DEF WindowType
<1>13. CASE Files!Trash \/ Files!Restore \/ Files!EmptyTrash \/ Files!Extract
  <2>1. files_win' = [files_win EXCEPT !.menu = Files!NoPath]
    BY <1>13 DEF Files!Trash, Files!Restore, Files!EmptyTrash, Files!Extract, Files!Operate
  <2> QED
    BY <1>1, <2>1 DEF WindowType
<1>14. ASSUME NEW i \in DOMAIN jobs, Files!Work(i) PROVE files_win'.open
  <2>1. files_win' = files_win \/ \E dirs : files_win' = Files!Watched(dirs)
    BY <1>14 DEF Files!Work, Files!Does, Files!Wrote
  <2> QED
    BY <1>3, <2>1
<1> QED
  BY <1>4, <1>5, <1>6, <1>7, <1>8, <1>9, <1>10, <1>11, <1>12, <1>13, <1>14 DEF Files!Next

\* A closed window is not used: no answer is due to it.
LEMMA ClosedIsLeft ==
  ASSUME FilesInv, ~files_win.open, ~look.open, Files!Next
  PROVE  UNCHANGED <<files_win, reading, look>>
<1>1. reading = Files!NotReading /\ reading.step = "none" /\ look.loads = {}
  BY NotReadingIs DEF FilesInv, Reads, Looks
<1>2. \A dirs : Files!Watched(dirs) = files_win
  BY DEF Files!Watched
<1>3. /\ ~Files!Enumerate /\ ~Files!Enumerated /\ ~Files!Debounced /\ ~Files!Select
      /\ ~Files!PreviewReady /\ ~Files!Submit /\ ~Files!Paste /\ ~Files!Close
      /\ ~(\E cut \in BOOLEAN : Files!Copy(cut))
  BY <1>1 DEF Files!Enumerate, Files!Enumerated, Files!Debounced, Files!Select,
              Files!PreviewReady, Files!Submit, Files!Paste, Files!Close, Files!Copy
<1>4. ~Files!Navigate /\ ~Files!GoBack /\ ~Files!GoForward /\ ~Files!Refresh
  BY DEF Files!Navigate, Files!GoBack, Files!GoForward, Files!Refresh, Files!Move
<1>5. /\ ~Files!ToggleHidden /\ ~Files!Search
      /\ ~(\E field \in {"name", "size"} : Files!SortBy(field))
  BY DEF Files!ToggleHidden, Files!Search, Files!SortBy, Files!View
<1>6. /\ ~Files!LookAt /\ ~Files!LookAway
      /\ ~Files!Prompt /\ ~Files!Cancelled /\ ~Files!OpenMenu
  BY DEF Files!LookAt, Files!LookAway, Files!Looks, Files!Prompt, Files!Cancelled,
         Files!OpenMenu, Files!Ask
<1>7. ~Files!Trash /\ ~Files!Restore /\ ~Files!EmptyTrash /\ ~Files!Extract
  BY DEF Files!Trash, Files!Restore, Files!EmptyTrash, Files!Extract, Files!Operate
<1>8. CASE Files!Elsewhere
  BY <1>2, <1>8 DEF Files!Elsewhere
<1>9. ASSUME NEW i \in DOMAIN jobs, Files!Work(i)
      PROVE  UNCHANGED <<files_win, reading, look>>
  <2>1. files_win' = files_win \/ \E dirs : files_win' = Files!Watched(dirs)
    BY <1>9 DEF Files!Work, Files!Does, Files!Wrote
  <2>2. UNCHANGED <<reading, look>>
    BY <1>9 DEF Files!Work
  <2> QED
    BY <1>2, <2>1, <2>2
<1>10. ASSUME NEW i \in DOMAIN jobs, Files!OpCompleted(i)
       PROVE  UNCHANGED <<files_win, reading, look>>
  BY <1>10 DEF Files!OpCompleted
<1> QED
  BY <1>3, <1>4, <1>5, <1>6, <1>7, <1>8, <1>9, <1>10 DEF Files!Next

\* Quick Look is closed with its window.
ClosedInv == FilesInv /\ (~files_win.open => ~look.open)

\* What ends after its window was closed leaves the window, what it reads and Quick Look
\* alone: an operation in a thread, a change of the folder, a preview.
THEOREM ClosedAlwaysStaysClosed ==
  Files!Spec => ClosedStaysClosed
<1>1. Files!Init => ClosedInv
  <2>1. Files!Init => files_win.open
    BY DEF Files!Init
  <2> QED
    BY <2>1, FilesInitInv DEF ClosedInv
<1>2. ClosedInv /\ [Files!Next]_Files!vars => ClosedInv'
  <2> SUFFICES ASSUME ClosedInv, [Files!Next]_Files!vars PROVE ClosedInv'
    OBVIOUS
  <2>1. FilesInv'
    BY FilesNextKeeps DEF ClosedInv
  <2>2. ~files_win'.open => ~look'.open
    <3>1. CASE UNCHANGED Files!vars
      BY <3>1 DEF ClosedInv, Files!vars
    <3>2. CASE Files!Next /\ ~files_win.open
      <4>1. ~look.open /\ FilesInv
        BY <3>2 DEF ClosedInv
      <4>2. UNCHANGED <<files_win, reading, look>>
        BY <3>2, <4>1, ClosedIsLeft
      <4> QED
        BY <4>1, <4>2
    <3>3. CASE Files!Next /\ files_win.open /\ ~Files!Close
      BY <3>3, OnlyCloseCloses DEF ClosedInv
    <3>4. CASE Files!Close
      BY <3>4, CloseKeeps DEF ClosedInv
    <3> QED
      BY <3>1, <3>2, <3>3, <3>4
  <2> QED
    BY <2>1, <2>2 DEF ClosedInv
<1>3. ClosedInv /\ [Files!Next]_Files!vars
        => [~files_win.open => UNCHANGED <<files_win, reading, look>>]_Files!vars
  <2> SUFFICES ASSUME ClosedInv, Files!Next, ~files_win.open
               PROVE  UNCHANGED <<files_win, reading, look>>
    OBVIOUS
  <2> QED
    BY ClosedIsLeft DEF ClosedInv
<1> QED
  BY <1>1, <1>2, <1>3, PTL DEF Files!Spec, ClosedStaysClosed, Files!ClosedStaysClosed

-----------------------------------------------------------------------------
(* The media player: what it keeps of mpv, and what it shows of that.      *)

\* The fields of its records.
PlayerFields ==
  {"media", "playing", "paused", "eof", "error", "dur", "speed", "list", "chapters"}
WinFields ==
  {"lastEof", "loop", "volume", "muted", "hash", "count", "rows", "chapterRows", "shows"}
CoreFields == {"file", "pause", "eof", "loop", "volume", "mute", "speed", "sub"}
MprisFields == {"media", "playing", "title", "dur", "volume"}
ScreenFields == {"full", "window", "header", "deck", "timer", "popover", "queue", "wanted"}
Fields ==
  /\ DOMAIN core = CoreFields
  /\ DOMAIN player = PlayerFields
  /\ DOMAIN player_win = WinFields
  /\ DOMAIN mpris = MprisFields

Streams == [subs : Nat, sub : Nat]
Orders ==
  [do : {"load"}, arg : DOMAIN Movies]
    \cup [do : {"volume", "mute", "pause", "speed", "rewind", "sub"}, arg : Nat]
Notices == {"start", "loaded", "failed", "stopped"}

\* The queue is of files of the folder, and one of them is chosen.
Queued ==
  /\ tracks \in Seq(DOMAIN Movies)
  /\ current \in 0..Len(tracks)
TheFile == tracks[current]

PlayerType ==
  /\ Fields
  /\ Queued
  /\ cmds \in Seq(Orders)
  /\ player_events \in Seq(Notices)
  /\ player_win.volume \in Nat
  /\ player_win.muted \in BOOLEAN
  /\ player_win.rows \in Streams
  /\ player.list \in Streams
  /\ player.chapters \in Nat
  /\ core.sub \in Nat
  /\ core.pause \in BOOLEAN /\ core.mute \in BOOLEAN
  /\ core.eof \in BOOLEAN /\ player.eof \in BOOLEAN
  /\ core.file \in DOMAIN Movies \cup {Player!None}

\* An order of a kind is under way; and the last of the kind, or what is so when
\* there is none, is v.
Sent(s, kind) == \E i \in DOMAIN s : s[i].do = kind
Agrees(s, kind, now, v) ==
  /\ ~Sent(s, kind) => now = v
  /\ \A i \in DOMAIN s :
       s[i].do = kind /\ (\A j \in DOMAIN s : j > i => s[j].do # kind) => s[i].arg = v

\* What mpv was told, and will be: the volume, the sound and the repetition of the window.
MpvObeys ==
  /\ core.loop = player_win.loop
  /\ mpris.volume = player_win.volume
  /\ Agrees(cmds, "volume", core.volume, player_win.volume)
  /\ Agrees(cmds, "mute", IF core.mute THEN 1 ELSE 0, IF player_win.muted THEN 1 ELSE 0)

\* What is kept of mpv is so, or is told of.
Mirrored ==
  /\ player.speed = core.speed \/ "speed" \in changed
  /\ player.paused = core.pause \/ "pause" \in changed

\* What is shown is what is kept.
Plays == player.media /\ player.playing
WindowShows ==
  /\ mpris.dur = (IF player.media THEN player.dur ELSE 0)
  /\ mpris.playing = Plays
  /\ player_win.hash = Player!NoHash \/ player_win.hash = Player!Hash(player_win.rows)
  /\ player_win.count = 0 \/ player_win.chapterRows = player_win.count
  /\ current > 0 =>
       /\ player.media
       /\ mpris.title = TheFile
       /\ player_win.shows.file = TheFile
       /\ player_win.shows.playing = Plays

\* The file that mpv has when it was told to load t.
Loaded(t) == IF Player!Info(t).broken THEN Player!None ELSE t
Settled == current > 0 /\ ~Sent(cmds, "load")
FileOf == {"eof", "dur", "list", "chapters"}

\* mpv loads the file that is chosen, says so last, and it is read what there is of it.
LoadsIt ==
  /\ current > 0 => Agrees(cmds, "load", TheFile, TheFile)
  /\ current = 0 => core.file = Player!None /\ ~Sent(cmds, "load")
  /\ Settled => core.file = Loaded(TheFile)
Hears(es, t) ==
  /\ Len(es) > 1
  /\ es[Len(es) - 1] = "start"
  /\ es[Len(es)] = (IF Player!Info(t).broken THEN "failed" ELSE "loaded")
Heard ==
  /\ player_events # <<>> => FileOf \subseteq changed
  /\ player_events # <<>> /\ Settled => Hears(player_events, TheFile)
  /\ player_events = <<>> /\ Settled =>
       /\ player.error = Player!Info(TheFile).broken
       /\ player_win.rows = player.list
       /\ player_win.count = player.chapters
       /\ player.playing = (player.media /\ ~player.paused /\ ~player.eof)
OfFile ==
  LET file == Player!Info(core.file)
  IN  core.file # Player!None /\ ~Sent(cmds, "load") =>
        /\ player.eof = core.eof \/ "eof" \in changed
        /\ player.dur = file.long \/ "dur" \in changed
        /\ player.list = [subs |-> file.subs, sub |-> core.sub] \/ "list" \in changed
        /\ player.chapters = file.chapters \/ "chapters" \in changed

\* An end was told of, or is to be: it may bring one more file.
Ended == (core.eof /\ "eof" \in changed) \/ (player.eof /\ ~player_win.lastEof)
EndsBound ==
  /\ ends \in Nat /\ advances \in Nat
  /\ advances <= ends
  /\ Ended => advances < ends

\* All of it but for the ends, which only mpv counts and only a batch that is read uses up.
PlayInv ==
  PlayerType /\ MpvObeys /\ Mirrored /\ WindowShows /\ LoadsIt /\ Heard /\ OfFile

\* The whole screen: what hides there is back when it is left, and while the window is
\* another the last request on its way is for what the program takes it for.
ScreenOk(s) ==
  /\ DOMAIN s = ScreenFields
  /\ s.full \in BOOLEAN
  /\ ~s.full => s.header /\ s.deck /\ ~s.timer
  /\ s.queue = (s.wanted /\ ~s.full)
ScreenInv ==
  /\ ScreenOk(screen)
  /\ asked \in Seq(BOOLEAN)
  /\ screen.full # screen.window => asked # <<>> /\ asked[Len(asked)] = screen.full

PlayerInv == PlayInv /\ EndsBound /\ ScreenInv

-----------------------------------------------------------------------------
(* What is under way to mpv.                                               *)

\* Of a sequence that goes on.
LEMMA SentBoth ==
  ASSUME NEW S, NEW s \in Seq(S), NEW l \in Seq(S), NEW kind
  PROVE  Sent(s \o l, kind) <=> Sent(s, kind) \/ Sent(l, kind)
<1>1. /\ DOMAIN s = 1..Len(s) /\ DOMAIN l = 1..Len(l) /\ DOMAIN (s \o l) = 1..(Len(s) + Len(l))
      /\ Len(s) \in Nat /\ Len(l) \in Nat
      /\ \A i \in 1..Len(s) : (s \o l)[i] = s[i]
      /\ \A i \in 1..Len(l) : (s \o l)[Len(s) + i] = l[i]
  OBVIOUS
<1>2. ASSUME Sent(s, kind) PROVE Sent(s \o l, kind)
  BY <1>1, <1>2 DEF Sent
<1>3. ASSUME Sent(l, kind) PROVE Sent(s \o l, kind)
  <2>1. PICK i \in 1..Len(l) : l[i].do = kind
    BY <1>1, <1>3 DEF Sent
  <2>2. Len(s) + i \in DOMAIN (s \o l) /\ (s \o l)[Len(s) + i] = l[i]
    BY <1>1
  <2> QED
    BY <2>1, <2>2 DEF Sent
<1>4. ASSUME Sent(s \o l, kind), ~Sent(s, kind) PROVE Sent(l, kind)
  <2>1. PICK i \in DOMAIN (s \o l) : (s \o l)[i].do = kind
    BY <1>4 DEF Sent
  <2>2. i \notin 1..Len(s)
    BY <1>1, <1>4, <2>1 DEF Sent
  <2>3. i - Len(s) \in DOMAIN l /\ i = Len(s) + (i - Len(s))
    BY <1>1, <2>2
  <2>4. l[i - Len(s)].do = kind
    BY <1>1, <2>1, <2>3
  <2> QED
    BY <2>3, <2>4 DEF Sent
<1> QED
  BY <1>2, <1>3, <1>4

\* The last order of the kind is that of the second part, or of the first.
LEMMA AgreesBoth ==
  ASSUME NEW S, NEW s \in Seq(S), NEW l \in Seq(S), NEW kind, NEW now, NEW w, NEW v,
         Agrees(s, kind, now, w) \/ Sent(l, kind), Agrees(l, kind, w, v)
  PROVE  Agrees(s \o l, kind, now, v)
<1>1. /\ DOMAIN s = 1..Len(s) /\ DOMAIN l = 1..Len(l) /\ DOMAIN (s \o l) = 1..(Len(s) + Len(l))
      /\ Len(s) \in Nat /\ Len(l) \in Nat
      /\ \A i \in 1..Len(s) : (s \o l)[i] = s[i]
      /\ \A i \in 1..Len(l) : (s \o l)[Len(s) + i] = l[i]
  OBVIOUS
<1>2. ~Sent(s \o l, kind) => now = v
  <2>1. ~Sent(s \o l, kind) => ~Sent(s, kind) /\ ~Sent(l, kind)
    BY SentBoth
  <2> QED
    BY <2>1 DEF Agrees
<1>3. ASSUME NEW i \in DOMAIN (s \o l), (s \o l)[i].do = kind,
             \A j \in DOMAIN (s \o l) : j > i => (s \o l)[j].do # kind
      PROVE  (s \o l)[i].arg = v
  <2>1. CASE i \in 1..Len(s)
    <3>1. ~Sent(l, kind)
      <4> SUFFICES ASSUME NEW j \in 1..Len(l), l[j].do = kind PROVE FALSE
        BY <1>1 DEF Sent
      <4>1. Len(s) + j \in DOMAIN (s \o l) /\ Len(s) + j > i
        BY <1>1, <2>1
      <4> QED
        BY <1>1, <1>3, <4>1
    <3>2. w = v /\ Agrees(s, kind, now, w)
      BY <3>1 DEF Agrees
    <3>3. \A j \in DOMAIN s : j > i => s[j].do # kind
      BY <1>1, <1>3
    <3> QED
      BY <1>1, <1>3, <2>1, <3>2, <3>3 DEF Agrees
  <2>2. CASE i \notin 1..Len(s)
    <3> DEFINE k == i - Len(s)
    <3>1. k \in DOMAIN l /\ i = Len(s) + k
      BY <1>1, <1>3, <2>2
    <3>2. l[k] = (s \o l)[i]
      BY <1>1, <3>1
    <3>3. ASSUME NEW j \in DOMAIN l, j > k PROVE l[j].do # kind
      <4>1. Len(s) + j \in DOMAIN (s \o l) /\ Len(s) + j > i
        BY <1>1, <3>1, <3>3
      <4> QED
        BY <1>1, <1>3, <4>1
    <3> HIDE DEF k
    <3> QED
      BY <1>3, <3>1, <3>2, <3>3 DEF Agrees
  <2> QED
    BY <2>1, <2>2
<1> QED
  BY <1>2, <1>3 DEF Agrees

\* Of the rest when the first was carried out.
LEMMA SentRest ==
  ASSUME NEW S, NEW s \in Seq(S), s # <<>>, NEW kind
  PROVE  Sent(s, kind) <=> Head(s).do = kind \/ Sent(Tail(s), kind)
<1>1. /\ DOMAIN s = 1..Len(s) /\ Len(s) \in Nat /\ Len(s) > 0
      /\ DOMAIN Tail(s) = 1..(Len(s) - 1)
      /\ \A i \in 1..(Len(s) - 1) : Tail(s)[i] = s[i + 1]
      /\ Head(s) = s[1]
  OBVIOUS
<1>2. ASSUME Sent(Tail(s), kind) PROVE Sent(s, kind)
  <2>1. PICK i \in 1..(Len(s) - 1) : Tail(s)[i].do = kind
    BY <1>1, <1>2 DEF Sent
  <2>2. i + 1 \in DOMAIN s /\ s[i + 1].do = kind
    BY <1>1, <2>1
  <2> QED
    BY <2>2 DEF Sent
<1>3. ASSUME Head(s).do = kind PROVE Sent(s, kind)
  BY <1>1, <1>3 DEF Sent
<1>4. ASSUME Sent(s, kind), Head(s).do # kind PROVE Sent(Tail(s), kind)
  <2>1. PICK i \in DOMAIN s : s[i].do = kind
    BY <1>4 DEF Sent
  <2>2. i # 1
    BY <1>1, <1>4, <2>1
  <2>3. i - 1 \in DOMAIN Tail(s) /\ Tail(s)[i - 1] = s[(i - 1) + 1] /\ (i - 1) + 1 = i
    BY <1>1, <2>2
  <2>4. Tail(s)[i - 1].do = kind
    BY <2>1, <2>3
  <2> QED
    BY <2>3, <2>4 DEF Sent
<1> QED
  BY <1>2, <1>3, <1>4

LEMMA AgreesRest ==
  ASSUME NEW S, NEW s \in Seq(S), s # <<>>, NEW kind, NEW now, NEW v, Agrees(s, kind, now, v)
  PROVE  Agrees(Tail(s), kind, IF Head(s).do = kind THEN Head(s).arg ELSE now, v)
<1>1. /\ DOMAIN s = 1..Len(s) /\ Len(s) \in Nat /\ Len(s) > 0
      /\ DOMAIN Tail(s) = 1..(Len(s) - 1)
      /\ \A i \in 1..(Len(s) - 1) : Tail(s)[i] = s[i + 1]
      /\ Head(s) = s[1]
  OBVIOUS
<1>2. ASSUME ~Sent(Tail(s), kind), Head(s).do # kind PROVE now = v
  BY <1>2, SentRest DEF Agrees
<1>3. ASSUME ~Sent(Tail(s), kind), Head(s).do = kind PROVE Head(s).arg = v
  <2>1. ASSUME NEW j \in DOMAIN s, j > 1 PROVE s[j].do # kind
    <3>1. j - 1 \in DOMAIN Tail(s) /\ Tail(s)[j - 1] = s[(j - 1) + 1] /\ (j - 1) + 1 = j
      BY <1>1, <2>1
    <3> QED
      BY <1>3, <3>1 DEF Sent
  <2> QED
    BY <1>1, <1>3, <2>1 DEF Agrees
<1>4. ASSUME NEW i \in DOMAIN Tail(s), Tail(s)[i].do = kind,
             \A j \in DOMAIN Tail(s) : j > i => Tail(s)[j].do # kind
      PROVE  Tail(s)[i].arg = v
  <2>1. i + 1 \in DOMAIN s /\ s[i + 1] = Tail(s)[i] /\ i \in Int
    BY <1>1
  <2>2. ASSUME NEW j \in DOMAIN s, j > i + 1 PROVE s[j].do # kind
    <3>1. j - 1 \in DOMAIN Tail(s) /\ j - 1 > i /\ (j - 1) + 1 = j
      BY <1>1, <2>1, <2>2
    <3>2. Tail(s)[j - 1] = s[j]
      BY <1>1, <3>1
    <3> QED
      BY <1>4, <3>1, <3>2
  <2> QED
    BY <1>4, <2>1, <2>2 DEF Agrees
<1> QED
  BY <1>2, <1>3, <1>4 DEF Agrees

\* Of one order.
LEMMA OneOrder ==
  ASSUME NEW e, NEW kind, NEW now, NEW v
  PROVE  /\ Sent(<<e>>, kind) <=> e.do = kind
         /\ Agrees(<<e>>, kind, now, v) <=> (IF e.do = kind THEN e.arg = v ELSE now = v)
<1>1. Sent(<<e>>, kind) <=> e.do = kind
  BY DEF Sent
<1> QED
  BY <1>1 DEF Agrees

\* Of none.
LEMMA NoOrder ==
  ASSUME NEW kind, NEW now, NEW v
  PROVE  ~Sent(<<>>, kind) /\ (Agrees(<<>>, kind, now, v) <=> now = v)
BY DEF Sent, Agrees

\* Of two, and of three.
LEMMA TwoSent ==
  ASSUME NEW a, NEW b, NEW kind
  PROVE  Sent(<<a, b>>, kind) <=> a.do = kind \/ b.do = kind
<1> DEFINE s == <<a, b>>
<1>1. DOMAIN s = {1, 2} /\ s[1] = a /\ s[2] = b
  OBVIOUS
<1> HIDE DEF s
<1>2. Sent(s, kind) <=> a.do = kind \/ b.do = kind
  BY <1>1 DEF Sent
<1> QED
  BY <1>2 DEF s

LEMMA TwoOrders ==
  ASSUME NEW a, NEW b, NEW kind, NEW now, NEW v
  PROVE  Agrees(<<a, b>>, kind, now, v) <=>
           (IF b.do = kind THEN b.arg = v ELSE IF a.do = kind THEN a.arg = v ELSE now = v)
<1> DEFINE s == <<a, b>>
<1>1. DOMAIN s = {1, 2} /\ s[1] = a /\ s[2] = b
  OBVIOUS
<1> HIDE DEF s
<1>2. Sent(s, kind) <=> a.do = kind \/ b.do = kind
  BY TwoSent DEF s
<1>3. Agrees(s, kind, now, v) <=>
        (IF b.do = kind THEN b.arg = v ELSE IF a.do = kind THEN a.arg = v ELSE now = v)
  BY <1>1, <1>2 DEF Agrees
<1> QED
  BY <1>3 DEF s

LEMMA ThreeSent ==
  ASSUME NEW a, NEW b, NEW c, NEW kind
  PROVE  Sent(<<a, b, c>>, kind) <=> a.do = kind \/ b.do = kind \/ c.do = kind
<1> DEFINE s == <<a, b, c>>
<1>1. DOMAIN s = {1, 2, 3} /\ s[1] = a /\ s[2] = b /\ s[3] = c
  OBVIOUS
<1> HIDE DEF s
<1>2. Sent(s, kind) <=> a.do = kind \/ b.do = kind \/ c.do = kind
  BY <1>1 DEF Sent
<1> QED
  BY <1>2 DEF s

LEMMA ThreeOrders ==
  ASSUME NEW a, NEW b, NEW c, NEW kind, NEW now, NEW v
  PROVE  Agrees(<<a, b, c>>, kind, now, v) <=>
           (IF c.do = kind THEN c.arg = v
            ELSE IF b.do = kind THEN b.arg = v ELSE IF a.do = kind THEN a.arg = v ELSE now = v)
<1> DEFINE s == <<a, b, c>>
<1>1. DOMAIN s = {1, 2, 3} /\ s[1] = a /\ s[2] = b /\ s[3] = c
  OBVIOUS
<1> HIDE DEF s
<1>2. Sent(s, kind) <=> a.do = kind \/ b.do = kind \/ c.do = kind
  BY ThreeSent DEF s
<1>3. Agrees(s, kind, now, v) <=>
        (IF c.do = kind THEN c.arg = v
         ELSE IF b.do = kind THEN b.arg = v ELSE IF a.do = kind THEN a.arg = v ELSE now = v)
  BY <1>1, <1>2 DEF Agrees
<1> QED
  BY <1>3 DEF s

-----------------------------------------------------------------------------
(* The fields after a function of the player.                              *)

\* A file that the player loads starts afresh.
LEMMA LoadFileIs ==
  ASSUME NEW pl, DOMAIN pl = PlayerFields
  PROVE  /\ DOMAIN Player!LoadFile(pl) = PlayerFields
         /\ Player!LoadFile(pl).media
         /\ Player!LoadFile(pl).eof = FALSE
         /\ Player!LoadFile(pl).dur = 0
         /\ Player!LoadFile(pl).list \in Streams
         /\ Player!LoadFile(pl).chapters = 0
         /\ Player!LoadFile(pl).playing = pl.playing
         /\ Player!LoadFile(pl).paused = pl.paused
         /\ Player!LoadFile(pl).speed = pl.speed
BY DEF Player!LoadFile, PlayerFields, Streams

\* The window shows a file, or that it plays.
LEMMA ShownIs ==
  ASSUME NEW w, DOMAIN w = WinFields, NEW t, NEW pl
  PROVE  /\ DOMAIN Player!Shown(w, t, pl) = WinFields
         /\ Player!Shown(w, t, pl).shows.file = t
         /\ Player!Shown(w, t, pl).shows.playing = (pl.media /\ pl.playing)
         /\ Player!Shown(w, t, pl).lastEof = w.lastEof
         /\ Player!Shown(w, t, pl).loop = w.loop
         /\ Player!Shown(w, t, pl).volume = w.volume
         /\ Player!Shown(w, t, pl).muted = w.muted
         /\ Player!Shown(w, t, pl).hash = w.hash
         /\ Player!Shown(w, t, pl).count = w.count
         /\ Player!Shown(w, t, pl).rows = w.rows
         /\ Player!Shown(w, t, pl).chapterRows = w.chapterRows
BY DEF Player!Shown, WinFields

\* The bus tells of the player and the window.
LEMMA SyncedIs ==
  ASSUME NEW m, DOMAIN m = MprisFields, NEW w, NEW pl
  PROVE  /\ DOMAIN Player!Synced(m, w, pl) = MprisFields
         /\ Player!Synced(m, w, pl).playing = (pl.media /\ pl.playing)
         /\ Player!Synced(m, w, pl).dur = (IF pl.media THEN pl.dur ELSE 0)
         /\ Player!Synced(m, w, pl).volume = w.volume
         /\ Player!Synced(m, w, pl).title = m.title
BY DEF Player!Synced, MprisFields

\* The rows are those of the streams, whether they are made again or not.
LEMMA ListedIs ==
  ASSUME NEW w, DOMAIN w = WinFields, NEW pl, pl.list \in Streams, w.rows \in Streams,
         w.hash = Player!NoHash \/ w.hash = Player!Hash(w.rows)
  PROVE  /\ DOMAIN Player!Listed(w, pl) = WinFields
         /\ Player!Listed(w, pl).rows = pl.list
         /\ Player!Listed(w, pl).hash = Player!Hash(pl.list)
         /\ Player!Listed(w, pl).lastEof = w.lastEof
         /\ Player!Listed(w, pl).loop = w.loop
         /\ Player!Listed(w, pl).volume = w.volume
         /\ Player!Listed(w, pl).muted = w.muted
         /\ Player!Listed(w, pl).count = w.count
         /\ Player!Listed(w, pl).chapterRows = w.chapterRows
<1>1. CASE Player!Hash(pl.list) = w.hash
  <2>1. w.hash = Player!Hash(w.rows)
    <3>1. Len(Player!NoHash) = 0 /\ Len(Player!Hash(pl.list)) = 2
      BY DEF Player!NoHash, Player!Hash
    <3>2. w.hash # Player!NoHash
      BY <1>1, <3>1
    <3> QED
      BY <3>2
  <2>2. w.rows.subs = pl.list.subs /\ w.rows.sub = pl.list.sub
    BY <1>1, <2>1 DEF Player!Hash
  <2>3. w.rows = pl.list
    BY <2>2 DEF Streams
  <2>4. Player!Listed(w, pl) = w
    BY <1>1 DEF Player!Listed
  <2> QED
    BY <1>1, <2>3, <2>4
<1>2. CASE Player!Hash(pl.list) # w.hash
  BY <1>2 DEF Player!Listed, WinFields
<1> QED
  BY <1>1, <1>2

\* The chapters are made again when their number is another.
LEMMA ChapteredIs ==
  ASSUME NEW w, DOMAIN w = WinFields, NEW pl
  PROVE  /\ DOMAIN Player!Chaptered(w, pl) = WinFields
         /\ Player!Chaptered(w, pl).count = pl.chapters
         /\ w.count = 0 \/ w.chapterRows = w.count =>
              Player!Chaptered(w, pl).count = 0
                \/ Player!Chaptered(w, pl).chapterRows = Player!Chaptered(w, pl).count
         /\ Player!Chaptered(w, pl).rows = w.rows
         /\ Player!Chaptered(w, pl).hash = w.hash
         /\ Player!Chaptered(w, pl).lastEof = w.lastEof
         /\ Player!Chaptered(w, pl).loop = w.loop
         /\ Player!Chaptered(w, pl).volume = w.volume
         /\ Player!Chaptered(w, pl).muted = w.muted
BY DEF Player!Chaptered, WinFields

\* The window is made from what the player has.
LEMMA RefreshedIs ==
  ASSUME NEW w, DOMAIN w = WinFields, NEW t, NEW pl, pl.list \in Streams, w.rows \in Streams,
         w.hash = Player!NoHash \/ w.hash = Player!Hash(w.rows)
  PROVE  /\ DOMAIN Player!Refreshed(w, t, pl) = WinFields
         /\ Player!Refreshed(w, t, pl).shows.file = t
         /\ Player!Refreshed(w, t, pl).shows.playing = (pl.media /\ pl.playing)
         /\ Player!Refreshed(w, t, pl).rows = pl.list
         /\ Player!Refreshed(w, t, pl).hash = Player!Hash(pl.list)
         /\ Player!Refreshed(w, t, pl).count = pl.chapters
         /\ w.count = 0 \/ w.chapterRows = w.count =>
              Player!Refreshed(w, t, pl).count = 0
                \/ Player!Refreshed(w, t, pl).chapterRows = Player!Refreshed(w, t, pl).count
         /\ Player!Refreshed(w, t, pl).lastEof = w.lastEof
         /\ Player!Refreshed(w, t, pl).loop = w.loop
         /\ Player!Refreshed(w, t, pl).volume = w.volume
         /\ Player!Refreshed(w, t, pl).muted = w.muted
<1> DEFINE a == Player!Listed(w, pl)
           b == Player!Chaptered(a, pl)
<1>1. /\ DOMAIN a = WinFields /\ a.rows = pl.list /\ a.hash = Player!Hash(pl.list)
      /\ a.lastEof = w.lastEof /\ a.loop = w.loop /\ a.volume = w.volume /\ a.muted = w.muted
      /\ a.count = w.count /\ a.chapterRows = w.chapterRows
  BY ListedIs
<1> HIDE DEF a
<1>2. /\ DOMAIN b = WinFields /\ b.rows = a.rows /\ b.hash = a.hash /\ b.count = pl.chapters
      /\ b.lastEof = a.lastEof /\ b.loop = a.loop /\ b.volume = a.volume /\ b.muted = a.muted
      /\ a.count = 0 \/ a.chapterRows = a.count => b.count = 0 \/ b.chapterRows = b.count
  BY <1>1, ChapteredIs
<1> HIDE DEF b
<1>3. Player!Refreshed(w, t, pl) = Player!Shown(b, t, pl)
  BY DEF Player!Refreshed, a, b
<1>4. /\ DOMAIN Player!Shown(b, t, pl) = WinFields
      /\ Player!Shown(b, t, pl).shows.file = t
      /\ Player!Shown(b, t, pl).shows.playing = (pl.media /\ pl.playing)
      /\ Player!Shown(b, t, pl).lastEof = b.lastEof
      /\ Player!Shown(b, t, pl).loop = b.loop
      /\ Player!Shown(b, t, pl).volume = b.volume
      /\ Player!Shown(b, t, pl).muted = b.muted
      /\ Player!Shown(b, t, pl).hash = b.hash
      /\ Player!Shown(b, t, pl).count = b.count
      /\ Player!Shown(b, t, pl).rows = b.rows
      /\ Player!Shown(b, t, pl).chapterRows = b.chapterRows
  BY <1>2, ShownIs
<1> QED
  BY <1>1, <1>2, <1>3, <1>4

\* What the last event of a batch leaves.
LEMMA ToldIs ==
  ASSUME NEW pl, DOMAIN pl = PlayerFields, NEW es
  PROVE  /\ DOMAIN Player!Told(pl, es) = PlayerFields
         /\ pl.media => Player!Told(pl, es).media
         /\ Player!Told(pl, es).eof => pl.eof
         /\ Player!Told(pl, es).eof \in BOOLEAN
         /\ Player!Told(pl, es).dur = pl.dur
         /\ Player!Told(pl, es).list = pl.list
         /\ Player!Told(pl, es).chapters = pl.chapters
         /\ Player!Told(pl, es).paused = pl.paused
         /\ Player!Told(pl, es).speed = pl.speed
BY DEF Player!Told, PlayerFields

\* A batch without events leaves all of it,
LEMMA ToldNothing ==
  ASSUME NEW pl, DOMAIN pl = PlayerFields
  PROVE  /\ Player!Told(pl, <<>>).error = pl.error
         /\ Player!Told(pl, <<>>).eof <=> pl.eof
<1>1. \A those : ~Player!Said(<<>>, those)
  BY DEF Player!Said
<1> QED
  BY <1>1 DEF Player!Told, PlayerFields

\* and one that ends in a start and its outcome leaves that outcome.
LEMMA ToldLast ==
  ASSUME NEW pl, DOMAIN pl = PlayerFields, NEW es \in Seq(Notices), Len(es) > 1,
         NEW last, last \in {"failed", "loaded"},
         es[Len(es) - 1] = "start", es[Len(es)] = last
  PROVE  Player!Told(pl, es).error = (last = "failed")
<1> DEFINE those == {"start", "failed"}
           Is(i) == es[i] \in those /\ \A j \in DOMAIN es : j > i => es[j] \notin those
<1>1. DOMAIN es = 1..Len(es) /\ Len(es) \in Nat
  OBVIOUS
<1>2. Player!Said(es, those)
  BY <1>1 DEF Player!Said
<1>3. PICK n \in {Len(es) - 1, Len(es)} :
        /\ n = IF last = "failed" THEN Len(es) ELSE Len(es) - 1
  OBVIOUS
<1>4. n \in DOMAIN es /\ Is(n) /\ \A i \in DOMAIN es : Is(i) => i = n
  <2>1. CASE last = "failed"
    <3>1. n = Len(es)
      BY <1>3, <2>1
    <3> QED
      BY <1>1, <2>1, <3>1
  <2>2. CASE last = "loaded"
    <3>1. n = Len(es) - 1
      BY <1>3, <2>2
    <3> QED
      BY <1>1, <2>2, <3>1
  <2> QED
    BY <2>1, <2>2
<1>5. Player!LastOf(es, those) = es[CHOOSE i \in DOMAIN es : Is(i)]
  BY DEF Player!LastOf
<1>6. (CHOOSE i \in DOMAIN es : Is(i)) = n
  BY <1>4
<1>7. (Player!LastOf(es, those) = "failed") <=> last = "failed"
  BY <1>3, <1>5, <1>6
<1> HIDE DEF Is
<1> QED
  BY <1>2, <1>7 DEF Player!Told, PlayerFields

\* What was told to have changed is as it is in mpv, and the rest as it was kept.
LEMMA ChangesIs ==
  ASSUME NEW pl, DOMAIN pl = PlayerFields, NEW news
  PROVE  LET u == Player!Changes(pl, news)
             file == Player!Info(core.file)
         IN  /\ DOMAIN u = PlayerFields
             /\ u.media = pl.media
             /\ u.error = pl.error
             /\ u.paused = (IF "pause" \in news THEN core.pause ELSE pl.paused)
             /\ u.speed = (IF "speed" \in news THEN core.speed ELSE pl.speed)
             /\ u.eof = (IF "eof" \in news /\ core.file # Player!None THEN core.eof ELSE pl.eof)
             /\ u.dur = (IF "dur" \in news /\ core.file # Player!None THEN file.long ELSE pl.dur)
             /\ u.list = (IF "list" \in news THEN [subs |-> file.subs, sub |-> core.sub] ELSE pl.list)
             /\ u.chapters = (IF "chapters" \in news THEN file.chapters ELSE pl.chapters)
BY DEF Player!Changes, PlayerFields

-----------------------------------------------------------------------------
(* A file of the queue is chosen.                                          *)

Started(q, i) ==
  /\ tracks' = q /\ current' = i
  /\ Fields'
  /\ player'.media /\ player'.eof = FALSE /\ player'.dur = 0
  /\ player'.list \in Streams /\ player'.chapters = 0
  /\ core'.loop = player_win.loop /\ core'.pause = FALSE
  /\ core'.file = core.file /\ core'.eof = core.eof /\ core'.volume = core.volume
  /\ core'.mute = core.mute /\ core'.speed = core.speed /\ core'.sub = core.sub
  /\ ~player_win'.lastEof
  /\ player_win'.shows.file = q[i]
  /\ player_win'.shows.playing = (player'.media /\ player'.playing)
  /\ player_win'.hash = Player!NoHash /\ player_win'.count = 0
  /\ player_win'.rows = player_win.rows
  /\ player_win'.loop = player_win.loop /\ player_win'.volume = player_win.volume
  /\ player_win'.muted = player_win.muted
  /\ mpris'.title = q[i]
  /\ mpris'.playing = (player'.media /\ player'.playing)
  /\ mpris'.dur = (IF player'.media THEN player'.dur ELSE 0)
  /\ mpris'.volume = player_win.volume

\* What the fields are then.
LEMMA SelectedIs ==
  ASSUME Fields, NEW pl, DOMAIN pl = PlayerFields, NEW q, NEW i, NEW news,
         Player!TrackSelected(q, i, pl, news)
  PROVE  /\ Started(q, i)
         /\ player'.paused = pl.paused /\ player'.speed = pl.speed
         /\ news \subseteq changed'
         /\ changed' \subseteq news \cup {"pause"}
         /\ core.pause => "pause" \in changed'
         /\ cmds' = cmds \o <<[do |-> "volume", arg |-> player_win.volume],
                              [do |-> "mute", arg |-> IF player_win.muted THEN 1 ELSE 0],
                              [do |-> "load", arg |-> q[i]]>>
<1>1. tracks' = q /\ current' = i
  BY DEF Player!TrackSelected
<1>2. /\ DOMAIN player' = PlayerFields
      /\ player'.media /\ player'.eof = FALSE /\ player'.dur = 0
      /\ player'.list \in Streams /\ player'.chapters = 0
      /\ player'.paused = pl.paused /\ player'.speed = pl.speed
  <2>1. player' = Player!LoadFile(pl)
    BY DEF Player!TrackSelected
  <2> QED
    BY <2>1, LoadFileIs
<1>3. /\ DOMAIN core' = CoreFields
      /\ core'.loop = player_win.loop /\ core'.pause = FALSE
      /\ core'.file = core.file /\ core'.eof = core.eof /\ core'.volume = core.volume
      /\ core'.mute = core.mute /\ core'.speed = core.speed /\ core'.sub = core.sub
  <2>1. core' = [core EXCEPT !.pause = FALSE, !.loop = player_win.loop]
    BY DEF Player!TrackSelected
  <2>2. DOMAIN core = CoreFields
    BY DEF Fields
  <2> QED
    BY <2>1, <2>2 DEF CoreFields
<1>4. /\ news \subseteq changed'
      /\ changed' \subseteq news \cup {"pause"}
      /\ core.pause => "pause" \in changed'
  <2>1. changed' = news \cup (IF core.pause THEN {"pause"} ELSE {})
    BY DEF Player!TrackSelected
  <2> QED
    BY <2>1
<1>5. cmds' = cmds \o <<[do |-> "volume", arg |-> player_win.volume],
                        [do |-> "mute", arg |-> IF player_win.muted THEN 1 ELSE 0],
                        [do |-> "load", arg |-> q[i]]>>
  BY DEF Player!TrackSelected
<1>6. /\ DOMAIN player_win' = WinFields
      /\ ~player_win'.lastEof
      /\ player_win'.shows.file = q[i]
      /\ player_win'.shows.playing = (player'.media /\ player'.playing)
      /\ player_win'.hash = Player!NoHash /\ player_win'.count = 0
      /\ player_win'.rows = player_win.rows
      /\ player_win'.loop = player_win.loop /\ player_win'.volume = player_win.volume
      /\ player_win'.muted = player_win.muted
  <2> DEFINE w == [player_win EXCEPT !.lastEof = FALSE, !.hash = Player!NoHash, !.count = 0]
  <2>1. player_win' = Player!Shown(w, q[i], player')
    BY DEF Player!TrackSelected
  <2>2. DOMAIN player_win = WinFields
    BY DEF Fields
  <2>3. /\ DOMAIN w = WinFields /\ ~w.lastEof /\ w.hash = Player!NoHash /\ w.count = 0
        /\ w.rows = player_win.rows /\ w.loop = player_win.loop
        /\ w.volume = player_win.volume /\ w.muted = player_win.muted
    BY <2>2 DEF WinFields
  <2> HIDE DEF w
  <2> QED
    BY <2>1, <2>3, ShownIs
<1>7. /\ DOMAIN mpris' = MprisFields
      /\ mpris'.title = q[i]
      /\ mpris'.playing = (player'.media /\ player'.playing)
      /\ mpris'.dur = (IF player'.media THEN player'.dur ELSE 0)
      /\ mpris'.volume = player_win.volume
  <2> DEFINE m == Player!Synced(mpris, player_win, player')
  <2>1. mpris' = [m EXCEPT !.title = q[i]]
    BY DEF Player!TrackSelected
  <2>2. DOMAIN mpris = MprisFields
    BY DEF Fields
  <2>3. /\ DOMAIN m = MprisFields
        /\ m.playing = (player'.media /\ player'.playing)
        /\ m.dur = (IF player'.media THEN player'.dur ELSE 0)
        /\ m.volume = player_win.volume
    BY <2>2, SyncedIs
  <2> HIDE DEF m
  <2> QED
    BY <2>1, <2>3 DEF MprisFields
<1> QED
  BY <1>1, <1>2, <1>3, <1>4, <1>5, <1>6, <1>7 DEF Started, Fields

\* The volume, the sound and the file are sent.
LEMMA SelectedSends ==
  ASSUME PlayerType, MpvObeys, NEW t \in DOMAIN Movies,
         cmds' = cmds \o <<[do |-> "volume", arg |-> player_win.volume],
                           [do |-> "mute", arg |-> IF player_win.muted THEN 1 ELSE 0],
                           [do |-> "load", arg |-> t]>>
  PROVE  /\ cmds' \in Seq(Orders)
         /\ Sent(cmds', "load")
         /\ Agrees(cmds', "load", t, t)
         /\ Agrees(cmds', "volume", core.volume, player_win.volume)
         /\ Agrees(cmds', "mute", IF core.mute THEN 1 ELSE 0, IF player_win.muted THEN 1 ELSE 0)
<1> DEFINE sound == IF player_win.muted THEN 1 ELSE 0
           now == IF core.mute THEN 1 ELSE 0
           load == "load"
           volume == "volume"
           mute == "mute"
           a == [do |-> volume, arg |-> player_win.volume]
           b == [do |-> mute, arg |-> sound]
           c == [do |-> load, arg |-> t]
           l == <<a, b, c>>
<1>1. a \in Orders /\ b \in Orders /\ c \in Orders
  <2>1. player_win.volume \in Nat
    BY DEF PlayerType
  <2> QED
    BY <2>1 DEF Orders
<1>2. /\ a.do = volume /\ b.do = mute /\ c.do = load
      /\ load # volume /\ load # mute /\ volume # mute
      /\ a.arg = player_win.volume /\ b.arg = sound /\ c.arg = t
  OBVIOUS
<1>3. cmds \in Seq(Orders) /\ cmds' = cmds \o l
  BY DEF PlayerType
<1>4. Agrees(cmds, volume, core.volume, player_win.volume) /\ Agrees(cmds, mute, now, sound)
  BY DEF MpvObeys
<1> HIDE DEF a, b, c, sound, now, load, volume, mute
<1>5. l \in Seq(Orders)
  BY <1>1
<1>6. Sent(l, load)
  BY <1>2, ThreeSent
<1>7. ASSUME NEW w PROVE Agrees(l, load, w, t)
  BY <1>2, ThreeOrders
<1>8. ASSUME NEW w PROVE Agrees(l, volume, w, player_win.volume)
  BY <1>2, ThreeOrders
<1>9. ASSUME NEW w PROVE Agrees(l, mute, w, sound)
  BY <1>2, ThreeOrders
<1> HIDE DEF l
<1>10. cmds' \in Seq(Orders)
  BY <1>3, <1>5
<1>11. Sent(cmds', load)
  <2>1. Sent(cmds \o l, load)
    BY <1>3, <1>5, <1>6, SentBoth
  <2> QED
    BY <1>3, <2>1
<1>12. Agrees(cmds', load, t, t)
  BY <1>3, <1>5, <1>6, <1>7, AgreesBoth
<1>13. Agrees(cmds', volume, core.volume, player_win.volume)
  BY <1>3, <1>4, <1>5, <1>8, AgreesBoth
<1>14. Agrees(cmds', mute, now, sound)
  BY <1>3, <1>4, <1>5, <1>9, AgreesBoth
<1> QED
  BY <1>10, <1>11, <1>12, <1>13, <1>14 DEF now, sound, load, volume, mute

\* A file that is chosen keeps the invariant: mpv will be at it once the orders are
\* carried out.
LEMMA SelectedKeeps ==
  ASSUME PlayerType, MpvObeys,
         NEW pl, DOMAIN pl = PlayerFields, NEW q \in Seq(DOMAIN Movies), NEW i \in 1..Len(q), NEW news,
         pl.speed = core.speed \/ "speed" \in news,
         pl.paused = core.pause \/ "pause" \in news,
         player_events' \in Seq(Notices), player_events' # <<>> => FileOf \subseteq news,
         Player!TrackSelected(q, i, pl, news)
  PROVE  PlayInv'
<1>1. /\ Started(q, i)
      /\ player'.paused = pl.paused /\ player'.speed = pl.speed
      /\ news \subseteq changed'
      /\ core.pause => "pause" \in changed'
      /\ cmds' = cmds \o <<[do |-> "volume", arg |-> player_win.volume],
                           [do |-> "mute", arg |-> IF player_win.muted THEN 1 ELSE 0],
                           [do |-> "load", arg |-> q[i]]>>
  BY SelectedIs DEF PlayerType
<1>2. q[i] \in DOMAIN Movies /\ Len(q) \in Nat /\ i > 0
  OBVIOUS
<1>3. /\ cmds' \in Seq(Orders)
      /\ Sent(cmds', "load")
      /\ Agrees(cmds', "load", q[i], q[i])
      /\ Agrees(cmds', "volume", core.volume, player_win.volume)
      /\ Agrees(cmds', "mute", IF core.mute THEN 1 ELSE 0, IF player_win.muted THEN 1 ELSE 0)
  BY <1>1, <1>2, SelectedSends
<1>4. PlayerType'
  <2>1. Queued'
    BY <1>1, <1>2 DEF Queued, Started
  <2>2. player'.chapters \in Nat
    BY <1>1 DEF Started
  <2> QED
    BY <1>1, <1>3, <2>1, <2>2 DEF PlayerType, Started
<1>5. MpvObeys'
  BY <1>1, <1>3 DEF MpvObeys, Started
<1>6. Mirrored'
  BY <1>1 DEF Mirrored, Started, PlayerType
<1>7. WindowShows'
  BY <1>1, <1>2 DEF WindowShows, Started, Plays, TheFile
<1>8. ~Settled'
  BY <1>3 DEF Settled
<1>9. LoadsIt'
  BY <1>1, <1>2, <1>3, <1>8 DEF LoadsIt, Started, TheFile
<1>10. Heard'
  BY <1>1, <1>8 DEF Heard
<1>11. OfFile'
  BY <1>3 DEF OfFile
<1> QED
  BY <1>4, <1>5, <1>6, <1>7, <1>9, <1>10, <1>11 DEF PlayInv

-----------------------------------------------------------------------------
(* What mpv reports is read.                                               *)

\* The file that mpv has, and none.
LEMMA InfoIs ==
  /\ \A t \in DOMAIN Movies : t \in Nat /\ t # Player!None
  /\ \A t \in DOMAIN Movies \cup {Player!None} :
       /\ Player!Info(t).subs \in Nat /\ Player!Info(t).chapters \in Nat
       /\ Player!Info(t).broken \in BOOLEAN
<1>1. \A t \in DOMAIN Movies : t \in Nat /\ t # Player!None
  BY MoviesAssumption DEF Player!None
<1>2. ASSUME NEW t \in DOMAIN Movies
      PROVE  /\ Player!Info(t).subs \in Nat /\ Player!Info(t).chapters \in Nat
             /\ Player!Info(t).broken \in BOOLEAN
  <2>1. Player!Info(t) = Movies[t]
    BY <1>1 DEF Player!Info
  <2> DEFINE S == [name : Int, media : BOOLEAN, hidden : BOOLEAN, broken : BOOLEAN,
                   long : Nat, subs : Nat, chapters : Nat]
  <2>2. Movies[t] \in S
    <3>1. Movies \in Seq(S)
      BY MoviesAssumption
    <3> HIDE DEF S
    <3> QED
      BY <3>1
  <2> QED
    BY <2>1, <2>2
<1>3. /\ Player!Info(Player!None).subs \in Nat /\ Player!Info(Player!None).chapters \in Nat
      /\ Player!Info(Player!None).broken \in BOOLEAN
  BY DEF Player!Info
<1> QED
  BY <1>1, <1>2, <1>3

\* What the player keeps when it has read the events and the properties.
Read == Player!Changes(Player!Told(player, player_events), changed)
Latest == [Read EXCEPT !.playing = Read.media /\ ~Read.paused /\ ~Read.eof]

\* What is kept once a batch was read.
LEMMA LatestIs ==
  ASSUME PlayerType, Mirrored, LoadsIt, Heard, OfFile, current > 0 => player.media
  PROVE  /\ DOMAIN Latest = PlayerFields
         /\ Latest.list \in Streams /\ Latest.chapters \in Nat /\ Latest.eof \in BOOLEAN
         /\ current > 0 => Latest.media
         /\ Latest.paused = core.pause /\ Latest.speed = core.speed
         /\ Latest.playing = (Latest.media /\ ~Latest.paused /\ ~Latest.eof)
         /\ Latest.eof => (core.eof /\ "eof" \in changed) \/ player.eof
         /\ Settled => Latest.error = Player!Info(TheFile).broken
         /\ core.file # Player!None /\ ~Sent(cmds, "load") =>
              /\ Latest.eof = core.eof
              /\ Latest.dur = Player!Info(core.file).long
              /\ Latest.list = [subs |-> Player!Info(core.file).subs, sub |-> core.sub]
              /\ Latest.chapters = Player!Info(core.file).chapters
<1> DEFINE u == Player!Told(player, player_events)
           file == Player!Info(core.file)
           stays == core.file # Player!None /\ ~Sent(cmds, "load")
<1>1. DOMAIN player = PlayerFields /\ player_events \in Seq(Notices) /\ core.pause \in BOOLEAN
      /\ core.eof \in BOOLEAN /\ player.eof \in BOOLEAN
  BY DEF PlayerType, Fields
<1>2. /\ DOMAIN u = PlayerFields
      /\ player.media => u.media
      /\ u.eof => player.eof
      /\ u.eof \in BOOLEAN
      /\ u.dur = player.dur /\ u.list = player.list /\ u.chapters = player.chapters
      /\ u.paused = player.paused /\ u.speed = player.speed
  BY <1>1, ToldIs
<1>3. Settled => u.error = Player!Info(TheFile).broken
  <2> SUFFICES ASSUME Settled PROVE u.error = Player!Info(TheFile).broken
    OBVIOUS
  <2>1. CASE player_events = <<>>
    <3>1. u.error = player.error
      BY <1>1, <2>1, ToldNothing
    <3>2. player.error = Player!Info(TheFile).broken
      BY <2>1 DEF Heard
    <3> QED
      BY <3>1, <3>2
  <2>2. CASE player_events # <<>>
    <3> DEFINE broken == Player!Info(TheFile).broken
               said == player_events[Len(player_events)]
    <3>1. /\ Len(player_events) > 1
          /\ player_events[Len(player_events) - 1] = "start"
          /\ said = (IF broken THEN "failed" ELSE "loaded")
      BY <2>2 DEF Heard, Hears
    <3>2. broken \in BOOLEAN
      <4>1. TheFile \in DOMAIN Movies
        BY DEF PlayerType, Queued, Settled, TheFile
      <4> QED
        BY <4>1, InfoIs
    <3> HIDE DEF broken
    <3>3. said \in {"failed", "loaded"} /\ (said = "failed") = broken
      BY <3>1, <3>2
    <3>4. u.error = (said = "failed")
      BY <1>1, <3>1, <3>3, ToldLast
    <3> QED
      BY <3>3, <3>4 DEF broken
  <2> QED
    BY <2>1, <2>2
<1>4. player_events # <<>> => "eof" \in changed
  BY DEF Heard, FileOf
<1>5. player_events = <<>> => (u.eof <=> player.eof)
  BY <1>1, ToldNothing
<1> HIDE DEF u
<1>6. /\ DOMAIN Read = PlayerFields
      /\ Read.media = u.media
      /\ Read.error = u.error
      /\ Read.paused = (IF "pause" \in changed THEN core.pause ELSE u.paused)
      /\ Read.speed = (IF "speed" \in changed THEN core.speed ELSE u.speed)
      /\ Read.eof = (IF "eof" \in changed /\ core.file # Player!None THEN core.eof ELSE u.eof)
      /\ Read.dur = (IF "dur" \in changed /\ core.file # Player!None THEN file.long ELSE u.dur)
      /\ Read.list = (IF "list" \in changed THEN [subs |-> file.subs, sub |-> core.sub] ELSE u.list)
      /\ Read.chapters = (IF "chapters" \in changed THEN file.chapters ELSE u.chapters)
  BY <1>2, ChangesIs DEF Read, u
<1>7. /\ DOMAIN Latest = PlayerFields
      /\ Latest.playing = (Read.media /\ ~Read.paused /\ ~Read.eof)
      /\ Latest.media = Read.media /\ Latest.error = Read.error /\ Latest.paused = Read.paused
      /\ Latest.speed = Read.speed /\ Latest.eof = Read.eof /\ Latest.dur = Read.dur
      /\ Latest.list = Read.list /\ Latest.chapters = Read.chapters
  BY <1>6 DEF Latest, PlayerFields
<1>8. Latest.list \in Streams /\ Latest.chapters \in Nat /\ Latest.eof \in BOOLEAN
  <2>1. file.subs \in Nat /\ file.chapters \in Nat
    BY InfoIs DEF PlayerType
  <2>2. core.sub \in Nat /\ player.list \in Streams /\ player.chapters \in Nat
    BY DEF PlayerType
  <2> HIDE DEF file
  <2>3. [subs |-> file.subs, sub |-> core.sub] \in Streams
    BY <2>1, <2>2 DEF Streams
  <2> QED
    BY <1>1, <1>2, <1>6, <1>7, <2>1, <2>2, <2>3
<1>9. Latest.paused = core.pause /\ Latest.speed = core.speed
  BY <1>2, <1>6, <1>7 DEF Mirrored
<1>10. Latest.eof => (core.eof /\ "eof" \in changed) \/ player.eof
  BY <1>2, <1>6, <1>7
<1>11. ASSUME stays
       PROVE  /\ Latest.eof = core.eof
              /\ Latest.dur = file.long
              /\ Latest.list = [subs |-> file.subs, sub |-> core.sub]
              /\ Latest.chapters = file.chapters
  <2>1. /\ player.eof = core.eof \/ "eof" \in changed
        /\ player.dur = file.long \/ "dur" \in changed
        /\ player.list = [subs |-> file.subs, sub |-> core.sub] \/ "list" \in changed
        /\ player.chapters = file.chapters \/ "chapters" \in changed
    BY <1>11 DEF OfFile
  <2> HIDE DEF file
  <2>2. Latest.eof = core.eof
    BY <1>1, <1>2, <1>4, <1>5, <1>6, <1>7, <1>11, <2>1
  <2>3. Latest.dur = file.long
    BY <1>2, <1>6, <1>7, <1>11, <2>1
  <2>4. Latest.list = [subs |-> file.subs, sub |-> core.sub] /\ Latest.chapters = file.chapters
    BY <1>2, <1>6, <1>7, <2>1
  <2> QED
    BY <2>2, <2>3, <2>4
<1>12. current > 0 => Latest.media
  BY <1>2, <1>6, <1>7
<1>13. Latest.playing = (Latest.media /\ ~Latest.paused /\ ~Latest.eof)
  BY <1>7
<1>14. Settled => Latest.error = Player!Info(TheFile).broken
  BY <1>3, <1>6, <1>7
<1> QED
  BY <1>7, <1>8, <1>9, <1>10, <1>11, <1>12, <1>13, <1>14

\* The next file of the queue follows,
Follows(pl) ==
  /\ pl.eof /\ ~player_win.lastEof
  /\ current + 1 <= Len(tracks)
  /\ Player!TrackSelected(tracks, current + 1, pl, {})
  /\ advances' = advances + 1

\* or the file that is there is shown.
Stays(pl) ==
  /\ UNCHANGED <<tracks, current, core, cmds, advances>>
  /\ player' = pl /\ changed' = {}
  /\ DOMAIN player_win' = WinFields
  /\ current > 0 => player_win'.shows.file = TheFile
  /\ player_win'.shows.playing = (pl.media /\ pl.playing)
  /\ player_win'.rows = pl.list /\ player_win'.hash = Player!Hash(pl.list)
  /\ player_win'.count = pl.chapters
  /\ player_win'.count = 0 \/ player_win'.chapterRows = player_win'.count
  /\ player_win'.loop = player_win.loop /\ player_win'.volume = player_win.volume
  /\ player_win'.muted = player_win.muted
  /\ pl.eof /\ ~player_win'.lastEof => ~player_win.lastEof
  /\ DOMAIN mpris' = MprisFields
  /\ mpris'.playing = (pl.media /\ pl.playing)
  /\ mpris'.dur = (IF pl.media THEN pl.dur ELSE 0)
  /\ mpris'.volume = player_win.volume
  /\ mpris'.title = mpris.title

\* Once it was read the next file follows, or the one there is stays.
LEMMA NotifiedIs ==
  ASSUME PlayerType, WindowShows, NEW pl, DOMAIN pl = PlayerFields, pl.list \in Streams,
         Player!Notified(pl)
  PROVE  Follows(pl) \/ Stays(pl)
<1> DEFINE ended == pl.eof /\ ~player_win.lastEof /\ ~player_win.loop
           w == [player_win EXCEPT !.lastEof = pl.eof /\ (@ \/ ended)]
           t == IF current = 0 THEN Player!None ELSE tracks[current]
<1>1. CASE ended /\ current + 1 <= Len(tracks)
  <2>1. Player!TrackSelected(tracks, current + 1, pl, {}) /\ advances' = advances + 1
    BY <1>1 DEF Player!Notified
  <2> QED
    BY <1>1, <2>1 DEF Follows
<1>2. CASE ~(ended /\ current + 1 <= Len(tracks))
  <2>1. /\ player' = pl
        /\ player_win' = Player!Refreshed(w, t, pl)
        /\ mpris' = Player!Synced(mpris, player_win, pl)
        /\ changed' = {}
        /\ UNCHANGED <<tracks, current, core, cmds, advances>>
    BY <1>2 DEF Player!Notified
  <2>2. /\ DOMAIN player_win = WinFields /\ DOMAIN mpris = MprisFields
        /\ player_win.rows \in Streams
        /\ player_win.hash = Player!NoHash \/ player_win.hash = Player!Hash(player_win.rows)
        /\ player_win.count = 0 \/ player_win.chapterRows = player_win.count
    BY DEF PlayerType, Fields, WindowShows
  <2>3. /\ DOMAIN w = WinFields
        /\ w.lastEof = (pl.eof /\ (player_win.lastEof \/ ended))
        /\ w.rows = player_win.rows /\ w.hash = player_win.hash
        /\ w.count = player_win.count /\ w.chapterRows = player_win.chapterRows
        /\ w.loop = player_win.loop /\ w.volume = player_win.volume /\ w.muted = player_win.muted
    BY <2>2 DEF WinFields
  <2> HIDE DEF w
  <2>4. /\ w.rows \in Streams
        /\ w.hash = Player!NoHash \/ w.hash = Player!Hash(w.rows)
        /\ w.count = 0 \/ w.chapterRows = w.count
    BY <2>2, <2>3
  <2>5. /\ DOMAIN player_win' = WinFields
        /\ player_win'.shows.file = t
        /\ player_win'.shows.playing = (pl.media /\ pl.playing)
        /\ player_win'.rows = pl.list
        /\ player_win'.hash = Player!Hash(pl.list)
        /\ player_win'.count = pl.chapters
        /\ player_win'.count = 0 \/ player_win'.chapterRows = player_win'.count
        /\ player_win'.lastEof = w.lastEof
        /\ player_win'.loop = w.loop
        /\ player_win'.volume = w.volume
        /\ player_win'.muted = w.muted
    BY <2>1, <2>3, <2>4, RefreshedIs
  <2>6. pl.eof /\ ~player_win'.lastEof => ~player_win.lastEof
    BY <2>3, <2>5
  <2>7. current > 0 => player_win'.shows.file = TheFile
    BY <2>5 DEF TheFile
  <2>8. /\ DOMAIN mpris' = MprisFields
        /\ mpris'.playing = (pl.media /\ pl.playing)
        /\ mpris'.dur = (IF pl.media THEN pl.dur ELSE 0)
        /\ mpris'.volume = player_win.volume
        /\ mpris'.title = mpris.title
    BY <2>1, <2>2, SyncedIs
  <2> HIDE DEF ended, t
  <2> QED
    BY <2>1, <2>3, <2>5, <2>6, <2>7, <2>8 DEF Stays
<1> QED
  BY <1>1, <1>2

\* A batch was read.
LEMMA ReadIs ==
  ASSUME PlayInv, Player!ReadEvents
  PROVE  /\ Follows(Latest) \/ Stays(Latest)
         /\ player_events' = <<>>
         /\ UNCHANGED <<screen, ends>>
<1>1. DOMAIN Latest = PlayerFields /\ Latest.list \in Streams
  BY LatestIs DEF PlayInv, WindowShows
<1>2. Player!Notified(Latest)
  BY DEF Player!ReadEvents, Latest, Read
<1>3. player_events' = <<>> /\ UNCHANGED <<screen, ends>>
  BY DEF Player!ReadEvents
<1> QED
  BY <1>1, <1>2, <1>3, NotifiedIs DEF PlayInv

\* A batch that is read keeps the invariant.
LEMMA ReadKeeps ==
  ASSUME PlayInv, Player!ReadEvents
  PROVE  PlayInv'
<1>1. /\ Follows(Latest) \/ Stays(Latest)
      /\ player_events' = <<>>
  BY ReadIs
<1>2. /\ DOMAIN Latest = PlayerFields
      /\ Latest.list \in Streams /\ Latest.chapters \in Nat /\ Latest.eof \in BOOLEAN
      /\ current > 0 => Latest.media
      /\ Latest.paused = core.pause /\ Latest.speed = core.speed
      /\ Latest.playing = (Latest.media /\ ~Latest.paused /\ ~Latest.eof)
      /\ Settled => Latest.error = Player!Info(TheFile).broken
      /\ core.file # Player!None /\ ~Sent(cmds, "load") =>
           /\ Latest.eof = core.eof
           /\ Latest.dur = Player!Info(core.file).long
           /\ Latest.list = [subs |-> Player!Info(core.file).subs, sub |-> core.sub]
           /\ Latest.chapters = Player!Info(core.file).chapters
  BY LatestIs DEF PlayInv, WindowShows
<1> HIDE DEF Latest
<1>3. player_events' \in Seq(Notices)
  BY <1>1
<1>4. CASE Follows(Latest)
  <2>1. tracks \in Seq(DOMAIN Movies) /\ current + 1 \in 1..Len(tracks)
    BY <1>4 DEF PlayInv, PlayerType, Queued, Follows
  <2> QED
    BY <1>1, <1>2, <1>3, <1>4, <2>1, SelectedKeeps DEF PlayInv, Follows
<1>5. CASE Stays(Latest)
  <2>1. /\ tracks' = tracks /\ current' = current /\ core' = core /\ cmds' = cmds
        /\ player' = Latest /\ changed' = {}
    BY <1>5 DEF Stays
  <2>2. TheFile' = TheFile /\ (Settled' <=> Settled)
    BY <2>1 DEF TheFile, Settled
  <2>3. PlayerType'
    <3>1. Fields'
      BY <1>2, <1>5, <2>1 DEF PlayInv, PlayerType, Fields, Stays
    <3> QED
      BY <1>2, <1>3, <1>5, <2>1, <3>1 DEF PlayInv, PlayerType, Queued, Stays
  <2>4. MpvObeys'
    BY <1>5, <2>1 DEF PlayInv, MpvObeys, Stays
  <2>5. Mirrored'
    BY <1>2, <2>1 DEF Mirrored
  <2>6. WindowShows'
    <3>1. player_win'.rows = Latest.list /\ player_win'.hash = Player!Hash(Latest.list)
      BY <1>5 DEF Stays
    <3>2. current > 0 => mpris.title = TheFile
      BY DEF PlayInv, WindowShows
    <3> QED
      BY <1>2, <1>5, <2>1, <2>2, <3>1, <3>2 DEF WindowShows, Stays, Plays
  <2>7. LoadsIt'
    BY <2>1, <2>2 DEF PlayInv, LoadsIt
  <2>8. Heard'
    BY <1>1, <1>2, <1>5, <2>1, <2>2 DEF Heard, Stays
  <2>9. OfFile'
    BY <1>2, <2>1 DEF OfFile
  <2> QED
    BY <2>3, <2>4, <2>5, <2>6, <2>7, <2>8, <2>9 DEF PlayInv
<1> QED
  BY <1>1, <1>4, <1>5

-----------------------------------------------------------------------------
(* mpv carries out an order.                                               *)

\* An order that mpv carries out holds from then on.
LEMMA AgreesNow ==
  ASSUME NEW s, NEW kind, NEW now, NEW then, NEW v, Agrees(s, kind, now, v), now = v => then = v
  PROVE  Agrees(s, kind, then, v)
BY DEF Agrees

\* What is under way then.
LEMMA RestIs ==
  ASSUME PlayerType, MpvObeys, LoadsIt, cmds # <<>>, cmds' = Tail(cmds),
         NEW c, c = Head(cmds)
  PROVE  /\ cmds' \in Seq(Orders) /\ c \in Orders
         /\ Agrees(cmds', "volume", IF c.do = "volume" THEN c.arg ELSE core.volume, player_win.volume)
         /\ Agrees(cmds', "mute", IF c.do = "mute" THEN c.arg ELSE IF core.mute THEN 1 ELSE 0,
                   IF player_win.muted THEN 1 ELSE 0)
         /\ current > 0 => Agrees(cmds', "load", IF c.do = "load" THEN c.arg ELSE TheFile, TheFile)
         /\ Sent(cmds, "load") <=> c.do = "load" \/ Sent(cmds', "load")
<1> DEFINE sound == IF player_win.muted THEN 1 ELSE 0
           now == IF core.mute THEN 1 ELSE 0
           load == "load"
           volume == "volume"
           mute == "mute"
<1>1. cmds \in Seq(Orders)
  BY DEF PlayerType
<1>2. cmds' \in Seq(Orders) /\ c \in Orders
  BY <1>1
<1>3. Agrees(cmds, volume, core.volume, player_win.volume) /\ Agrees(cmds, mute, now, sound)
  BY DEF MpvObeys
<1>4. current > 0 => Agrees(cmds, load, TheFile, TheFile)
  BY DEF LoadsIt
<1> HIDE DEF load, volume, mute, sound, now
<1>5. Agrees(Tail(cmds), volume, IF Head(cmds).do = volume THEN Head(cmds).arg ELSE core.volume,
             player_win.volume)
  BY <1>1, <1>3, AgreesRest
<1>6. Agrees(Tail(cmds), mute, IF Head(cmds).do = mute THEN Head(cmds).arg ELSE now, sound)
  BY <1>1, <1>3, AgreesRest
<1>7. current > 0 =>
        Agrees(Tail(cmds), load, IF Head(cmds).do = load THEN Head(cmds).arg ELSE TheFile, TheFile)
  BY <1>1, <1>4, AgreesRest
<1>8. Sent(cmds, load) <=> Head(cmds).do = load \/ Sent(Tail(cmds), load)
  BY <1>1, SentRest
<1> QED
  BY <1>2, <1>5, <1>6, <1>7, <1>8 DEF load, volume, mute, sound, now

\* It sets a property.
Sets ==
  /\ DOMAIN core' = CoreFields
  /\ core'.file = core.file /\ core'.loop = core.loop
  /\ core'.pause \in BOOLEAN /\ core'.mute \in BOOLEAN /\ core'.eof \in BOOLEAN /\ core'.sub \in Nat
  /\ core'.speed = core.speed \/ "speed" \in changed'
  /\ core'.pause = core.pause \/ "pause" \in changed'
  /\ core'.eof = core.eof \/ "eof" \in changed'
  /\ core'.sub = core.sub \/ "list" \in changed'
  /\ changed \subseteq changed'
  /\ core'.eof /\ "eof" \in changed' => core.eof /\ "eof" \in changed
  /\ player_events' = player_events

\* A property that is set keeps the invariant,
LEMMA SetsKeep ==
  ASSUME PlayInv, Sets, UNCHANGED <<tracks, current, player, player_win, mpris>>,
         cmds' \in Seq(Orders),
         Agrees(cmds', "volume", core'.volume, player_win.volume),
         Agrees(cmds', "mute", IF core'.mute THEN 1 ELSE 0, IF player_win.muted THEN 1 ELSE 0),
         current > 0 => Agrees(cmds', "load", TheFile, TheFile),
         Sent(cmds, "load") <=> Sent(cmds', "load")
  PROVE  PlayInv'
<1>1. TheFile' = TheFile /\ (Settled' <=> Settled)
  BY DEF TheFile, Settled
<1>2. PlayerType'
  BY DEF PlayInv, PlayerType, Fields, Queued, Sets
<1>3. MpvObeys'
  BY DEF PlayInv, MpvObeys, Sets
<1>4. Mirrored'
  BY DEF PlayInv, Mirrored, Sets
<1>5. WindowShows'
  BY <1>1 DEF PlayInv, WindowShows, Plays
<1>6. LoadsIt'
  BY <1>1 DEF PlayInv, LoadsIt, Sets
<1>7. Heard'
  BY <1>1 DEF PlayInv, Heard, Sets
<1>8. OfFile'
  BY DEF PlayInv, OfFile, Sets
<1> QED
  BY <1>2, <1>3, <1>4, <1>5, <1>6, <1>7, <1>8 DEF PlayInv

\* It loads a file.
Loads(t) ==
  /\ DOMAIN core' = CoreFields
  /\ core'.file = Loaded(t) /\ core'.eof = FALSE /\ core'.sub = 0
  /\ core'.loop = core.loop /\ core'.pause = core.pause /\ core'.speed = core.speed
  /\ core'.volume = core.volume /\ core'.mute = core.mute
  /\ changed' = changed \cup FileOf
  /\ player_events' \in Seq(Notices) /\ player_events' # <<>>
  /\ Hears(player_events', t)

\* A sequence that goes on.
LEMMA JoinedIs ==
  ASSUME NEW S, NEW s \in Seq(S), NEW l \in Seq(S)
  PROVE  /\ s \o l \in Seq(S)
         /\ Len(s \o l) = Len(s) + Len(l) /\ Len(s) \in Nat
         /\ \A i \in 1..Len(l) : (s \o l)[Len(s) + i] = l[i]
OBVIOUS

\* and a file that is loaded ends the one before, and is told of.
LEMMA CoreLoadsIs ==
  ASSUME PlayerType, NEW t, Player!CoreLoads(t)
  PROVE  Loads(t)
<1> DEFINE broken == Player!Info(t).broken
           stopped == IF core.file = Player!None THEN <<>> ELSE <<"stopped">>
           said == IF broken THEN <<"start", "failed">> ELSE <<"start", "loaded">>
<1>1. /\ DOMAIN core' = CoreFields
      /\ core'.file = Loaded(t) /\ core'.eof = FALSE /\ core'.sub = 0
      /\ core'.loop = core.loop /\ core'.pause = core.pause /\ core'.speed = core.speed
      /\ core'.volume = core.volume /\ core'.mute = core.mute
  <2>1. core' = [core EXCEPT !.file = Loaded(t), !.eof = FALSE, !.sub = 0]
    BY DEF Player!CoreLoads, Loaded
  <2>2. DOMAIN core = CoreFields
    BY DEF PlayerType, Fields
  <2> QED
    BY <2>1, <2>2 DEF CoreFields
<1>2. changed' = changed \cup FileOf
  BY DEF Player!CoreLoads, FileOf
<1>3. player_events' = (player_events \o stopped) \o said
  BY DEF Player!CoreLoads
<1>4. player_events \in Seq(Notices) /\ stopped \in Seq(Notices) /\ said \in Seq(Notices)
  <2>1. player_events \in Seq(Notices)
    BY DEF PlayerType
  <2>2. "start" \in Notices /\ "loaded" \in Notices /\ "failed" \in Notices /\ "stopped" \in Notices
    BY DEF Notices
  <2> HIDE DEF broken
  <2>3. stopped \in Seq(Notices)
    BY <2>2
  <2>4. said \in Seq(Notices)
    BY <2>2
  <2> QED
    BY <2>1, <2>3, <2>4
<1>5. said[1] = "start" /\ said[2] = (IF broken THEN "failed" ELSE "loaded") /\ Len(said) = 2
  OBVIOUS
<1> HIDE DEF stopped, said, broken
<1> DEFINE before == player_events \o stopped
<1>6. before \in Seq(Notices)
  BY <1>4
<1> HIDE DEF before
<1>7. /\ before \o said \in Seq(Notices)
      /\ Len(before \o said) = Len(before) + 2 /\ Len(before) \in Nat
      /\ (before \o said)[Len(before) + 1] = said[1]
      /\ (before \o said)[Len(before) + 2] = said[2]
  <2>1. Len(said) = 2 /\ said \in Seq(Notices)
    BY <1>4, <1>5
  <2>2. /\ before \o said \in Seq(Notices)
        /\ Len(before \o said) = Len(before) + Len(said) /\ Len(before) \in Nat
        /\ \A i \in 1..Len(said) : (before \o said)[Len(before) + i] = said[i]
    BY <1>6, <2>1, JoinedIs
  <2>3. 1 \in 1..Len(said) /\ 2 \in 1..Len(said)
    BY <2>1
  <2> QED
    BY <2>1, <2>2, <2>3
<1>8. player_events' = before \o said
  BY <1>3 DEF before
<1>9. Hears(player_events', t)
  BY <1>5, <1>7, <1>8 DEF Hears, broken
<1>10. player_events' \in Seq(Notices) /\ player_events' # <<>>
  BY <1>7, <1>8
<1> QED
  BY <1>1, <1>2, <1>9, <1>10 DEF Loads

\* Which is where the window is, when it was the last that was chosen.
LEMMA LoadsKeep ==
  ASSUME PlayInv, NEW t \in DOMAIN Movies, Loads(t),
         UNCHANGED <<tracks, current, player, player_win, mpris>>,
         cmds' \in Seq(Orders),
         Agrees(cmds', "volume", core.volume, player_win.volume),
         Agrees(cmds', "mute", IF core.mute THEN 1 ELSE 0, IF player_win.muted THEN 1 ELSE 0),
         current > 0 => Agrees(cmds', "load", t, TheFile),
         current > 0
  PROVE  PlayInv'
<1>1. TheFile' = TheFile
  BY DEF TheFile
<1>2. Loaded(t) \in DOMAIN Movies \cup {Player!None}
  BY DEF Loaded
<1>3. PlayerType'
  <2>1. Fields' /\ Queued'
    BY DEF PlayInv, PlayerType, Fields, Queued, Loads
  <2>2. core'.pause \in BOOLEAN /\ core'.eof \in BOOLEAN /\ core'.sub \in Nat
    <3>1. core'.pause \in BOOLEAN
      BY DEF PlayInv, PlayerType, Loads
    <3>2. core'.eof \in BOOLEAN
      BY DEF Loads
    <3>3. core'.sub \in Nat
      BY DEF Loads
    <3> QED
      BY <3>1, <3>2, <3>3
  <2>4. core'.mute \in BOOLEAN
    BY DEF PlayInv, PlayerType, Loads
  <2>3. core'.file \in DOMAIN Movies \cup {Player!None} /\ player_events' \in Seq(Notices)
    BY <1>2 DEF Loads
  <2> QED
    BY <2>1, <2>2, <2>3, <2>4 DEF PlayInv, PlayerType
<1>4. MpvObeys'
  BY DEF PlayInv, MpvObeys, Loads
<1>5. Mirrored'
  BY DEF PlayInv, Mirrored, Loads
<1>6. WindowShows'
  BY <1>1 DEF PlayInv, WindowShows, Plays
<1>7. Settled' => t = TheFile
  BY DEF Settled, Agrees
<1>8. LoadsIt'
  <2>1. Agrees(cmds', "load", TheFile, TheFile)
    BY AgreesNow
  <2> QED
    BY <1>1, <1>7, <2>1 DEF LoadsIt, Loads
<1>9. Heard'
  BY <1>1, <1>7 DEF Heard, Loads
<1>10. OfFile'
  BY DEF OfFile, FileOf, Loads
<1> QED
  BY <1>3, <1>4, <1>5, <1>6, <1>8, <1>9, <1>10 DEF PlayInv

\* An order, whichever it is.
LEMMA CoreRunsKeeps ==
  ASSUME PlayInv, Player!CoreRuns
  PROVE  PlayInv' /\ (Ended' => Ended) /\ UNCHANGED <<ends, advances, screen>>
<1> DEFINE sound == IF player_win.muted THEN 1 ELSE 0
<1>1. PICK c : /\ cmds # <<>> /\ cmds' = Tail(cmds) /\ c = Head(cmds)
               /\ \/ c.do = "load" /\ Player!CoreLoads(c.arg)
                  \/ c.do = "volume" /\ Player!CoreSets("volume", c.arg, {})
                  \/ c.do = "mute" /\ Player!CoreSets("mute", c.arg = 1, {})
                  \/ c.do = "pause" /\ Player!CoreSets("pause", c.arg = 1, {"pause"})
                  \/ c.do = "speed" /\ Player!CoreSets("speed", c.arg, {"speed"})
                  \/ c.do = "rewind" /\ Player!CoreSets("eof", FALSE, {"eof"})
                  \/ c.do = "sub" /\ Player!CoreSets("sub",
                       IF c.arg <= Player!Info(core.file).subs THEN c.arg ELSE 0, {"list"})
  BY DEF Player!CoreRuns
<1>2. UNCHANGED <<tracks, current, player, player_win, mpris, ends, advances, screen>>
  BY DEF Player!CoreRuns
<1>3. PlayerType /\ MpvObeys /\ LoadsIt
  BY DEF PlayInv
<1>4. /\ cmds' \in Seq(Orders) /\ c \in Orders
      /\ Agrees(cmds', "volume", IF c.do = "volume" THEN c.arg ELSE core.volume, player_win.volume)
      /\ Agrees(cmds', "mute", IF c.do = "mute" THEN c.arg ELSE IF core.mute THEN 1 ELSE 0, sound)
      /\ current > 0 => Agrees(cmds', "load", IF c.do = "load" THEN c.arg ELSE TheFile, TheFile)
      /\ Sent(cmds, "load") <=> c.do = "load" \/ Sent(cmds', "load")
  BY <1>1, <1>3, RestIs
<1>5. DOMAIN core = CoreFields /\ core.pause \in BOOLEAN /\ core.mute \in BOOLEAN /\ core.eof \in BOOLEAN /\ core.sub \in Nat
  BY <1>3 DEF PlayerType, Fields
<1> HIDE DEF sound
<1>6. CASE c.do = "load" /\ Player!CoreLoads(c.arg)
  <2>1. c.arg \in DOMAIN Movies
    BY <1>4, <1>6 DEF Orders
  <2>2. Loads(c.arg)
    BY <1>3, <1>6, CoreLoadsIs
  <2>3. current > 0
    BY <1>3, <1>4, <1>6 DEF LoadsIt, PlayerType, Queued
  <2>4. /\ Agrees(cmds', "volume", core.volume, player_win.volume)
        /\ Agrees(cmds', "mute", IF core.mute THEN 1 ELSE 0, sound)
        /\ Agrees(cmds', "load", c.arg, TheFile)
    BY <1>4, <1>6, <2>3
  <2>5. PlayInv'
    BY <1>2, <1>4, <2>1, <2>2, <2>3, <2>4, LoadsKeep DEF sound
  <2>6. Ended' => Ended
    BY <1>2, <2>2 DEF Ended, Loads
  <2> QED
    BY <1>2, <2>5, <2>6
<1>7. ASSUME c.do # "load", Sets,
             Agrees(cmds', "volume", core'.volume, player_win.volume),
             Agrees(cmds', "mute", IF core'.mute THEN 1 ELSE 0, sound)
      PROVE  PlayInv' /\ (Ended' => Ended)
  <2>1. /\ current > 0 => Agrees(cmds', "load", TheFile, TheFile)
        /\ Sent(cmds, "load") <=> Sent(cmds', "load")
    BY <1>4, <1>7
  <2>2. PlayInv'
    BY <1>2, <1>4, <1>7, <2>1, SetsKeep DEF sound
  <2>3. Ended' => Ended
    BY <1>2, <1>7 DEF Ended, Sets
  <2> QED
    BY <2>2, <2>3
<1>8. CASE c.do = "volume" /\ Player!CoreSets("volume", c.arg, {})
  <2>1. core' = [core EXCEPT !["volume"] = c.arg] /\ changed' = changed /\ player_events' = player_events
    BY <1>8 DEF Player!CoreSets
  <2>2. core'.volume = c.arg /\ core'.mute = core.mute
    BY <1>5, <2>1 DEF CoreFields
  <2>3. Sets
    BY <1>5, <2>1 DEF Sets, CoreFields
  <2>4. /\ Agrees(cmds', "volume", core'.volume, player_win.volume)
        /\ Agrees(cmds', "mute", IF core'.mute THEN 1 ELSE 0, sound)
    BY <1>4, <1>8, <2>2
  <2> QED
    BY <1>2, <1>7, <1>8, <2>3, <2>4
<1>9. CASE c.do = "mute" /\ Player!CoreSets("mute", c.arg = 1, {})
  <2>1. core' = [core EXCEPT !["mute"] = (c.arg = 1)] /\ changed' = changed /\ player_events' = player_events
    BY <1>9 DEF Player!CoreSets
  <2>2. core'.volume = core.volume /\ core'.mute = (c.arg = 1)
    BY <1>5, <2>1 DEF CoreFields
  <2>3. Sets
    BY <1>5, <2>1 DEF Sets, CoreFields
  <2>4. Agrees(cmds', "volume", core'.volume, player_win.volume)
    BY <1>4, <1>9, <2>2
  <2>5. Agrees(cmds', "mute", c.arg, sound)
    BY <1>4, <1>9
  <2>6. c.arg = sound => (IF core'.mute THEN 1 ELSE 0) = sound
    BY <2>2 DEF sound
  <2>7. Agrees(cmds', "mute", IF core'.mute THEN 1 ELSE 0, sound)
    BY <2>5, <2>6, AgreesNow
  <2> QED
    BY <1>2, <1>7, <1>9, <2>3, <2>4, <2>7
<1>10. ASSUME c.do \notin {"load", "volume", "mute"}, core'.volume = core.volume, core'.mute = core.mute
       PROVE  /\ Agrees(cmds', "volume", core'.volume, player_win.volume)
              /\ Agrees(cmds', "mute", IF core'.mute THEN 1 ELSE 0, sound)
  BY <1>4, <1>10
<1>11. CASE c.do = "pause" /\ Player!CoreSets("pause", c.arg = 1, {"pause"})
  <2>1. /\ core' = [core EXCEPT !["pause"] = (c.arg = 1)]
        /\ changed' = changed \cup (IF core["pause"] = (c.arg = 1) THEN {} ELSE {"pause"})
        /\ player_events' = player_events
    BY <1>11 DEF Player!CoreSets
  <2>2. core'.volume = core.volume /\ core'.mute = core.mute
    BY <1>5, <2>1 DEF CoreFields
  <2>3. Sets
    BY <1>5, <2>1 DEF Sets, CoreFields
  <2> QED
    BY <1>2, <1>7, <1>10, <1>11, <2>2, <2>3
<1>12. CASE c.do = "speed" /\ Player!CoreSets("speed", c.arg, {"speed"})
  <2>1. /\ core' = [core EXCEPT !["speed"] = c.arg]
        /\ changed' = changed \cup (IF core["speed"] = c.arg THEN {} ELSE {"speed"})
        /\ player_events' = player_events
    BY <1>12 DEF Player!CoreSets
  <2>2. core'.volume = core.volume /\ core'.mute = core.mute
    BY <1>5, <2>1 DEF CoreFields
  <2>3. Sets
    BY <1>5, <2>1 DEF Sets, CoreFields
  <2> QED
    BY <1>2, <1>7, <1>10, <1>12, <2>2, <2>3
<1>13. CASE c.do = "rewind" /\ Player!CoreSets("eof", FALSE, {"eof"})
  <2>1. /\ core' = [core EXCEPT !["eof"] = FALSE]
        /\ changed' = changed \cup (IF core["eof"] = FALSE THEN {} ELSE {"eof"})
        /\ player_events' = player_events
    BY <1>13 DEF Player!CoreSets
  <2>2. core'.volume = core.volume /\ core'.mute = core.mute
    BY <1>5, <2>1 DEF CoreFields
  <2>3. Sets
    BY <1>5, <2>1 DEF Sets, CoreFields
  <2> QED
    BY <1>2, <1>7, <1>10, <1>13, <2>2, <2>3
<1>14. CASE c.do = "sub" /\ Player!CoreSets("sub",
              IF c.arg <= Player!Info(core.file).subs THEN c.arg ELSE 0, {"list"})
  <2> DEFINE v == IF c.arg <= Player!Info(core.file).subs THEN c.arg ELSE 0
  <2>1. v \in Nat
    <3>1. c.arg \in Nat
      BY <1>4, <1>14 DEF Orders
    <3> QED
      BY <3>1
  <2>2. Player!CoreSets("sub", v, {"list"})
    BY <1>14
  <2> HIDE DEF v
  <2>3. /\ core' = [core EXCEPT !["sub"] = v]
        /\ changed' = changed \cup (IF core["sub"] = v THEN {} ELSE {"list"})
        /\ player_events' = player_events
    BY <2>2 DEF Player!CoreSets
  <2>4. core'.volume = core.volume /\ core'.mute = core.mute
    BY <1>5, <2>3 DEF CoreFields
  <2>5. Sets
    BY <1>5, <2>1, <2>3 DEF Sets, CoreFields
  <2> QED
    BY <1>2, <1>7, <1>10, <1>14, <2>4, <2>5
<1> QED
  BY <1>1, <1>2, <1>6, <1>8, <1>9, <1>11, <1>12, <1>13, <1>14

\* A file is played to its end.
LEMMA CoreEndsKeeps ==
  ASSUME PlayInv, Player!CoreEnds
  PROVE  PlayInv' /\ ends' = ends + 1 /\ UNCHANGED <<advances, screen>>
<1>1. /\ core' = [core EXCEPT !.eof = TRUE, !.pause = TRUE]
      /\ changed' = changed \cup {"eof", "pause"}
      /\ UNCHANGED <<tracks, current, cmds, player_events, player, player_win, mpris, advances, screen>>
      /\ ends' = ends + 1
  BY DEF Player!CoreEnds
<1>2. DOMAIN core = CoreFields
  BY DEF PlayInv, PlayerType, Fields
<1>3. /\ DOMAIN core' = CoreFields /\ core'.eof = TRUE /\ core'.pause = TRUE
      /\ core'.file = core.file /\ core'.loop = core.loop /\ core'.volume = core.volume
      /\ core'.mute = core.mute /\ core'.speed = core.speed /\ core'.sub = core.sub
  BY <1>1, <1>2 DEF CoreFields
<1>4. TheFile' = TheFile /\ (Settled' <=> Settled)
  BY <1>1 DEF TheFile, Settled
<1>5. PlayerType'
  BY <1>1, <1>3 DEF PlayInv, PlayerType, Fields, Queued
<1>6. MpvObeys'
  BY <1>1, <1>3 DEF PlayInv, MpvObeys
<1>7. Mirrored'
  BY <1>1, <1>3 DEF PlayInv, Mirrored
<1>8. WindowShows'
  BY <1>1, <1>4 DEF PlayInv, WindowShows, Plays
<1>9. LoadsIt'
  BY <1>1, <1>3, <1>4 DEF PlayInv, LoadsIt
<1>10. Heard'
  BY <1>1, <1>4 DEF PlayInv, Heard
<1>11. OfFile'
  BY <1>1, <1>3 DEF PlayInv, OfFile
<1> QED
  BY <1>1, <1>5, <1>6, <1>7, <1>8, <1>9, <1>10, <1>11 DEF PlayInv

-----------------------------------------------------------------------------
(* The user.                                                               *)

\* Orders that leave the file, the volume and the sound alone.
Harmless(l) ==
  /\ l \in Seq(Orders)
  /\ ~Sent(l, "load")
  /\ \A now : Agrees(l, "volume", now, now) /\ Agrees(l, "mute", now, now)

LEMMA HarmlessNone == Harmless(<<>>)
BY NoOrder DEF Harmless

\* One order, two, and more.
LEMMA HarmlessOne ==
  ASSUME NEW e \in Orders, e.do \notin {"load", "volume", "mute"}
  PROVE  Harmless(<<e>>)
<1>1. ~Sent(<<e>>, "load")
  BY OneOrder
<1>2. ASSUME NEW now PROVE Agrees(<<e>>, "volume", now, now)
  BY OneOrder
<1>3. ASSUME NEW now PROVE Agrees(<<e>>, "mute", now, now)
  BY OneOrder
<1>4. <<e>> \in Seq(Orders)
  OBVIOUS
<1> QED
  BY <1>1, <1>2, <1>3, <1>4 DEF Harmless

LEMMA HarmlessTwo ==
  ASSUME NEW a \in Orders, NEW b \in Orders,
         a.do \notin {"load", "volume", "mute"}, b.do \notin {"load", "volume", "mute"}
  PROVE  Harmless(<<a, b>>)
<1>1. ~Sent(<<a, b>>, "load")
  BY TwoSent
<1>2. ASSUME NEW now PROVE Agrees(<<a, b>>, "volume", now, now)
  BY TwoOrders
<1>3. ASSUME NEW now PROVE Agrees(<<a, b>>, "mute", now, now)
  BY TwoOrders
<1>4. <<a, b>> \in Seq(Orders)
  OBVIOUS
<1> QED
  BY <1>1, <1>2, <1>3, <1>4 DEF Harmless

LEMMA HarmlessBoth ==
  ASSUME NEW l, NEW m, Harmless(l), Harmless(m)
  PROVE  Harmless(l \o m)
<1> DEFINE load == "load"
           volume == "volume"
           mute == "mute"
<1>1. /\ l \in Seq(Orders) /\ m \in Seq(Orders) /\ ~Sent(l, load) /\ ~Sent(m, load)
      /\ \A now : Agrees(l, volume, now, now) /\ Agrees(l, mute, now, now)
      /\ \A now : Agrees(m, volume, now, now) /\ Agrees(m, mute, now, now)
  BY DEF Harmless
<1> HIDE DEF load, volume, mute
<1>2. ~Sent(l \o m, load)
  BY <1>1, SentBoth
<1>3. ASSUME NEW now PROVE Agrees(l \o m, volume, now, now) /\ Agrees(l \o m, mute, now, now)
  BY <1>1, AgreesBoth
<1>4. l \o m \in Seq(Orders)
  BY <1>1
<1> QED
  BY <1>2, <1>3, <1>4 DEF Harmless, load, volume, mute

LEMMA HarmlessOrders ==
  /\ Harmless(<<Player!Rewind>>)
  /\ \A b : Harmless(<<Player!SetPause(b)>>) /\ Harmless(<<Player!SetPause(b), Player!Rewind>>)
<1>1. Player!Rewind \in Orders /\ Player!Rewind.do = "rewind"
  BY DEF Player!Rewind, Orders
<1>2. ASSUME NEW b PROVE Player!SetPause(b) \in Orders /\ Player!SetPause(b).do = "pause"
  BY DEF Player!SetPause, Orders
<1>3. Harmless(<<Player!Rewind>>)
  BY <1>1, HarmlessOne
<1>4. ASSUME NEW b
      PROVE  Harmless(<<Player!SetPause(b)>>) /\ Harmless(<<Player!SetPause(b), Player!Rewind>>)
  BY <1>1, <1>2, HarmlessOne, HarmlessTwo
<1> QED
  BY <1>3, <1>4

\* The window but for its volume, its sound and the hash of its rows.
SameWindow ==
  /\ DOMAIN player_win' = WinFields
  /\ player_win'.volume \in Nat /\ player_win'.muted \in BOOLEAN
  /\ player_win'.loop = player_win.loop /\ player_win'.lastEof = player_win.lastEof
  /\ player_win'.count = player_win.count /\ player_win'.rows = player_win.rows
  /\ player_win'.chapterRows = player_win.chapterRows /\ player_win'.shows = player_win.shows
  /\ player_win'.hash = player_win.hash \/ player_win'.hash = Player!NoHash

\* What the user does sends orders.
LEMMA PostedKeeps ==
  ASSUME PlayInv, NEW l \in Seq(Orders), cmds' = cmds \o l, SameWindow, ~Sent(l, "load"),
         Agrees(l, "volume", player_win.volume, player_win'.volume),
         Agrees(l, "mute", IF player_win.muted THEN 1 ELSE 0, IF player_win'.muted THEN 1 ELSE 0),
         DOMAIN mpris' = MprisFields, mpris'.title = mpris.title, mpris'.playing = Plays,
         mpris'.dur = (IF player.media THEN player.dur ELSE 0), mpris'.volume = player_win'.volume,
         UNCHANGED <<tracks, current, core, player_events, changed, player>>
  PROVE  PlayInv' /\ (Ended' <=> Ended)
<1> DEFINE sound == IF player_win.muted THEN 1 ELSE 0
           now == IF core.mute THEN 1 ELSE 0
           sound2 == IF player_win'.muted THEN 1 ELSE 0
           load == "load"
           volume == "volume"
           mute == "mute"
<1>1. cmds \in Seq(Orders)
  BY DEF PlayInv, PlayerType
<1>2. Agrees(cmds, volume, core.volume, player_win.volume) /\ Agrees(cmds, mute, now, sound)
  BY DEF PlayInv, MpvObeys
<1>3. current > 0 => Agrees(cmds, load, TheFile, TheFile)
  BY DEF PlayInv, LoadsIt
<1>4. /\ ~Sent(l, load)
      /\ Agrees(l, volume, player_win.volume, player_win'.volume)
      /\ Agrees(l, mute, sound, sound2)
  OBVIOUS
<1> HIDE DEF load, volume, mute, sound, now, sound2
<1>5. Agrees(l, load, TheFile, TheFile)
  BY <1>4 DEF Agrees, Sent
<1>6. cmds' \in Seq(Orders)
  BY <1>1
<1>7. Agrees(cmds', volume, core.volume, player_win'.volume)
  BY <1>1, <1>2, <1>4, AgreesBoth
<1>8. Agrees(cmds', mute, now, sound2)
  BY <1>1, <1>2, <1>4, AgreesBoth
<1>9. current > 0 => Agrees(cmds', load, TheFile, TheFile)
  BY <1>1, <1>3, <1>5, AgreesBoth
<1>10. Sent(cmds', load) <=> Sent(cmds, load)
  <2>1. Sent(cmds \o l, load) <=> Sent(cmds, load)
    BY <1>1, <1>4, SentBoth
  <2> QED
    BY <2>1
<1>11. TheFile' = TheFile /\ (Settled' <=> Settled)
  BY <1>10 DEF TheFile, Settled, load
<1>12. PlayerType'
  BY <1>6 DEF PlayInv, PlayerType, Fields, Queued, SameWindow
<1>13. MpvObeys'
  BY <1>7, <1>8 DEF PlayInv, MpvObeys, SameWindow, volume, mute, now, sound2
<1>14. Mirrored'
  BY DEF PlayInv, Mirrored
<1>15. WindowShows'
  BY <1>11 DEF PlayInv, WindowShows, Plays, SameWindow
<1>16. LoadsIt'
  BY <1>9, <1>10, <1>11 DEF PlayInv, LoadsIt, load
<1>17. Heard'
  BY <1>11 DEF PlayInv, Heard, SameWindow
<1>18. OfFile'
  BY <1>10 DEF PlayInv, OfFile, load
<1>19. Ended' <=> Ended
  BY DEF Ended, SameWindow
<1> QED
  BY <1>12, <1>13, <1>14, <1>15, <1>16, <1>17, <1>18, <1>19 DEF PlayInv

\* Orders that change no more of the window than the hash.
LEMMA HarmlessKeeps ==
  ASSUME PlayInv, NEW l, Harmless(l), cmds' = cmds \o l,
         player_win' = player_win \/ player_win' = [player_win EXCEPT !.hash = Player!NoHash],
         UNCHANGED <<tracks, current, core, player_events, changed, player, mpris>>
  PROVE  PlayInv' /\ (Ended' <=> Ended)
<1> DEFINE sound == IF player_win.muted THEN 1 ELSE 0
<1>1. /\ DOMAIN player_win = WinFields /\ player_win.volume \in Nat
      /\ player_win.muted \in BOOLEAN /\ DOMAIN mpris = MprisFields
  BY DEF PlayInv, PlayerType, Fields
<1>2. SameWindow /\ player_win'.volume = player_win.volume /\ player_win'.muted = player_win.muted
  BY <1>1 DEF SameWindow, WinFields
<1>3. /\ mpris'.playing = Plays /\ mpris'.dur = (IF player.media THEN player.dur ELSE 0)
      /\ mpris'.volume = player_win'.volume
  BY <1>2 DEF PlayInv, WindowShows, MpvObeys
<1>4. /\ l \in Seq(Orders) /\ ~Sent(l, "load")
      /\ Agrees(l, "volume", player_win.volume, player_win.volume)
      /\ Agrees(l, "mute", sound, sound)
  BY DEF Harmless
<1>5. sound = IF player_win'.muted THEN 1 ELSE 0
  BY <1>2
<1> HIDE DEF sound
<1>6. /\ Agrees(l, "volume", player_win.volume, player_win'.volume)
      /\ Agrees(l, "mute", sound, IF player_win'.muted THEN 1 ELSE 0)
  BY <1>2, <1>4, <1>5
<1> QED
  BY <1>1, <1>2, <1>3, <1>4, <1>6, PostedKeeps DEF sound

\* As the function that sends them does it.
LEMMA SendsKeep ==
  ASSUME PlayInv, NEW l, Harmless(l), Player!Send(l),
         player_win' = player_win \/ player_win' = [player_win EXCEPT !.hash = Player!NoHash]
  PROVE  PlayInv' /\ (Ended' <=> Ended) /\ UNCHANGED <<ends, advances, screen>>
<1>1. /\ cmds' = cmds \o l
      /\ UNCHANGED <<tracks, current, core, player_events, changed, player, mpris>>
      /\ UNCHANGED <<ends, advances, screen>>
  BY DEF Player!Send
<1> QED
  BY <1>1, HarmlessKeeps

\* Pause, speed, subtitles.
LEMMA OrdersKeep ==
  ASSUME PlayInv,
         \/ \E on : Player!SetPlaying(on)
         \/ Player!SeekBack \/ Player!StopCommand
         \/ \E d \in {-1, 1} : Player!AdjustSpeed(d)
         \/ Player!SubsRowActivated
  PROVE  PlayInv' /\ (Ended' <=> Ended) /\ UNCHANGED <<ends, advances, screen>>
<1>1. ASSUME NEW on, Player!SetPlaying(on)
      PROVE  PlayInv' /\ (Ended' <=> Ended) /\ UNCHANGED <<ends, advances, screen>>
  <2> DEFINE a == IF on /\ player.eof THEN <<Player!Rewind>> ELSE <<>>
             b == <<Player!SetPause(~on)>>
  <2>1. Player!Send(a \o b) /\ player_win' = player_win
    BY <1>1 DEF Player!SetPlaying
  <2>2. Harmless(a)
    <3>1. CASE on /\ player.eof
      BY <3>1, HarmlessOrders
    <3>2. CASE ~(on /\ player.eof)
      BY <3>2, HarmlessNone
    <3> QED
      BY <3>1, <3>2
  <2>3. Harmless(b)
    BY HarmlessOrders
  <2> HIDE DEF a, b
  <2>4. Harmless(a \o b)
    BY <2>2, <2>3, HarmlessBoth
  <2> QED
    BY <2>1, <2>4, SendsKeep
<1>2. CASE Player!SeekBack
  <2>1. Player!Send(<<Player!Rewind>>) /\ player_win' = player_win
    BY <1>2 DEF Player!SeekBack
  <2> QED
    BY <2>1, HarmlessOrders, SendsKeep
<1>3. CASE Player!StopCommand
  <2>1. Player!Send(<<Player!SetPause(TRUE), Player!Rewind>>) /\ player_win' = player_win
    BY <1>3 DEF Player!StopCommand
  <2>2. Harmless(<<Player!SetPause(TRUE), Player!Rewind>>)
    BY HarmlessOrders
  <2> QED
    BY <2>1, <2>2, SendsKeep
<1>4. ASSUME NEW d \in {-1, 1}, Player!AdjustSpeed(d)
      PROVE  PlayInv' /\ (Ended' <=> Ended) /\ UNCHANGED <<ends, advances, screen>>
  <2>1. PICK v \in 1..3 : Player!Send(<<[do |-> "speed", arg |-> v]>>) /\ player_win' = player_win
    BY <1>4 DEF Player!AdjustSpeed
  <2>2. [do |-> "speed", arg |-> v] \in Orders
    BY DEF Orders
  <2>3. Harmless(<<[do |-> "speed", arg |-> v]>>)
    BY <2>2, HarmlessOne
  <2> QED
    BY <2>1, <2>3, SendsKeep
<1>5. CASE Player!SubsRowActivated
  <2>1. PICK n \in 0..player_win.rows.subs :
          /\ Player!Send(<<[do |-> "sub", arg |-> n]>>)
          /\ player_win' = [player_win EXCEPT !.hash = Player!NoHash]
    BY <1>5 DEF Player!SubsRowActivated
  <2>2. n \in Nat
    <3>1. player_win.rows.subs \in Nat
      BY DEF PlayInv, PlayerType, Streams
    <3> QED
      BY <3>1
  <2>3. [do |-> "sub", arg |-> n] \in Orders
    BY <2>2 DEF Orders
  <2>4. Harmless(<<[do |-> "sub", arg |-> n]>>)
    BY <2>3, HarmlessOne
  <2> QED
    BY <2>1, <2>4, SendsKeep
<1> QED
  BY <1>1, <1>2, <1>3, <1>4, <1>5

LEMMA AppendedIs ==
  ASSUME NEW S, NEW s \in Seq(S), NEW e \in S PROVE Append(s, e) = s \o <<e>>
OBVIOUS

\* A seek, which after the end rewinds the file.
LEMMA SeekByKeeps ==
  ASSUME PlayInv, Player!SeekBy
  PROVE  PlayInv' /\ (Ended' <=> Ended) /\ UNCHANGED <<ends, advances>>
<1>1. /\ cmds' = IF player.media THEN Append(cmds, Player!Rewind) ELSE cmds
      /\ UNCHANGED <<tracks, current, core, player_events, changed, player, player_win, mpris,
                     ends, advances>>
  BY DEF Player!SeekBy
<1>2. cmds \in Seq(Orders) /\ Player!Rewind \in Orders
  BY DEF PlayInv, PlayerType, Player!Rewind, Orders
<1>3. CASE player.media
  <2>1. cmds' = cmds \o <<Player!Rewind>>
    BY <1>1, <1>2, <1>3, AppendedIs
  <2> QED
    BY <1>1, <2>1, HarmlessOrders, HarmlessKeeps
<1>4. CASE ~player.media
  <2>1. cmds' = cmds \o <<>>
    BY <1>1, <1>2, <1>4
  <2> QED
    BY <1>1, <2>1, HarmlessNone, HarmlessKeeps
<1> QED
  BY <1>3, <1>4

\* The volume, which sound comes back with.
LEMMA SetVolumeKeeps ==
  ASSUME PlayInv, NEW v \in 1..2, Player!SetVolume(v)
  PROVE  PlayInv' /\ (Ended' <=> Ended) /\ UNCHANGED <<ends, advances, screen>>
<1> DEFINE e == [do |-> "volume", arg |-> v]
           sound == IF player_win.muted THEN 1 ELSE 0
<1>1. /\ cmds' = Append(cmds, e)
      /\ player_win' = [player_win EXCEPT !.volume = v]
      /\ mpris' = Player!Synced(mpris, player_win', player)
      /\ UNCHANGED <<tracks, current, core, player_events, changed, player>>
      /\ UNCHANGED <<ends, advances, screen>>
  BY DEF Player!SetVolume
<1>2. /\ DOMAIN player_win = WinFields /\ player_win.muted \in BOOLEAN
      /\ DOMAIN mpris = MprisFields /\ cmds \in Seq(Orders)
  BY DEF PlayInv, PlayerType, Fields
<1>3. e \in Orders /\ e.do = "volume" /\ e.arg = v
  BY DEF Orders
<1>4. SameWindow /\ player_win'.volume = v /\ player_win'.muted = player_win.muted
  BY <1>1, <1>2 DEF SameWindow, WinFields
<1>5. /\ DOMAIN mpris' = MprisFields /\ mpris'.title = mpris.title /\ mpris'.playing = Plays
      /\ mpris'.dur = (IF player.media THEN player.dur ELSE 0) /\ mpris'.volume = player_win'.volume
  <2>1. mpris' = Player!Synced(mpris, player_win', player)
    BY <1>1
  <2>2. DOMAIN mpris = MprisFields
    BY <1>2
  <2> QED
    BY <2>1, <2>2, SyncedIs DEF Plays
<1> HIDE DEF e, sound
<1>6. cmds' = cmds \o <<e>>
  BY <1>1, <1>2, <1>3, AppendedIs
<1>7. ~Sent(<<e>>, "load")
  BY <1>3, OneOrder
<1>8. Agrees(<<e>>, "volume", player_win.volume, v)
  BY <1>3, OneOrder
<1>9. Agrees(<<e>>, "mute", sound, sound)
  BY <1>3, OneOrder
<1>10. <<e>> \in Seq(Orders)
  BY <1>3
<1>11. sound = IF player_win'.muted THEN 1 ELSE 0
  BY <1>4 DEF sound
<1>12. /\ Agrees(<<e>>, "volume", player_win.volume, player_win'.volume)
       /\ Agrees(<<e>>, "mute", sound, IF player_win'.muted THEN 1 ELSE 0)
  BY <1>4, <1>8, <1>9, <1>11
<1> QED
  BY <1>1, <1>4, <1>5, <1>6, <1>7, <1>10, <1>12, PostedKeeps DEF sound

\* The sound.
LEMMA ToggleMuteKeeps ==
  ASSUME PlayInv, Player!ToggleMute
  PROVE  PlayInv' /\ (Ended' <=> Ended) /\ UNCHANGED <<ends, advances, screen>>
<1> DEFINE e == [do |-> "mute", arg |-> IF player_win.muted THEN 0 ELSE 1]
           sound == IF player_win.muted THEN 1 ELSE 0
           then == IF player_win'.muted THEN 1 ELSE 0
<1>1. /\ cmds' = cmds \o <<e>>
      /\ player_win' = [player_win EXCEPT !.muted = ~player_win.muted]
      /\ UNCHANGED <<tracks, current, core, player_events, changed, player, mpris>>
      /\ UNCHANGED <<ends, advances, screen>>
  BY DEF Player!ToggleMute, Player!Send
<1>2. /\ DOMAIN player_win = WinFields /\ player_win.volume \in Nat
      /\ DOMAIN mpris = MprisFields
  BY DEF PlayInv, PlayerType, Fields
<1>3. /\ SameWindow /\ player_win'.volume = player_win.volume
      /\ player_win'.muted = ~player_win.muted
  BY <1>1, <1>2 DEF SameWindow, WinFields
<1>4. e \in Orders /\ e.do = "mute" /\ e.arg = then
  BY <1>3 DEF Orders
<1>5. /\ mpris'.playing = Plays /\ mpris'.dur = (IF player.media THEN player.dur ELSE 0)
      /\ mpris'.volume = player_win'.volume
  BY <1>1, <1>3 DEF PlayInv, WindowShows, MpvObeys
<1> HIDE DEF e, sound, then
<1>6. ~Sent(<<e>>, "load")
  BY <1>4, OneOrder
<1>7. Agrees(<<e>>, "volume", player_win.volume, player_win'.volume)
  BY <1>3, <1>4, OneOrder
<1>8. Agrees(<<e>>, "mute", sound, then)
  BY <1>4, OneOrder
<1>9. <<e>> \in Seq(Orders)
  BY <1>4
<1> QED
  BY <1>1, <1>2, <1>3, <1>5, <1>6, <1>7, <1>8, <1>9, PostedKeeps DEF sound, then

\* The repetition, which mpv is told at once.
LEMMA ToggleLoopKeeps ==
  ASSUME PlayInv, Player!ToggleLoop
  PROVE  PlayInv' /\ (Ended' <=> Ended) /\ UNCHANGED <<ends, advances, screen>>
<1>1. /\ player_win' = [player_win EXCEPT !.loop = ~player_win.loop]
      /\ core' = [core EXCEPT !.loop = ~player_win.loop]
      /\ UNCHANGED <<tracks, current, cmds, player_events, changed, player, mpris>>
      /\ UNCHANGED <<ends, advances, screen>>
  BY DEF Player!ToggleLoop
<1>2. DOMAIN player_win = WinFields /\ DOMAIN core = CoreFields
  BY DEF PlayInv, PlayerType, Fields
<1>3. /\ DOMAIN player_win' = WinFields /\ player_win'.loop = ~player_win.loop
      /\ player_win'.volume = player_win.volume /\ player_win'.muted = player_win.muted
      /\ player_win'.lastEof = player_win.lastEof /\ player_win'.hash = player_win.hash
      /\ player_win'.count = player_win.count /\ player_win'.rows = player_win.rows
      /\ player_win'.chapterRows = player_win.chapterRows
      /\ player_win'.shows = player_win.shows
  BY <1>1, <1>2 DEF WinFields
<1>4. /\ DOMAIN core' = CoreFields /\ core'.loop = ~player_win.loop
      /\ core'.file = core.file /\ core'.pause = core.pause /\ core'.eof = core.eof
      /\ core'.volume = core.volume /\ core'.mute = core.mute
      /\ core'.speed = core.speed /\ core'.sub = core.sub
  BY <1>1, <1>2 DEF CoreFields
<1>5. TheFile' = TheFile /\ (Settled' <=> Settled)
  BY <1>1 DEF TheFile, Settled
<1>6. PlayerType'
  BY <1>1, <1>3, <1>4 DEF PlayInv, PlayerType, Fields, Queued
<1>7. MpvObeys'
  BY <1>1, <1>3, <1>4 DEF PlayInv, MpvObeys
<1>8. Mirrored'
  BY <1>1, <1>4 DEF PlayInv, Mirrored
<1>9. WindowShows'
  BY <1>1, <1>3, <1>5 DEF PlayInv, WindowShows, Plays
<1>10. LoadsIt'
  BY <1>1, <1>4, <1>5 DEF PlayInv, LoadsIt
<1>11. Heard'
  BY <1>1, <1>3, <1>5 DEF PlayInv, Heard
<1>12. OfFile'
  BY <1>1, <1>4 DEF PlayInv, OfFile
<1>13. Ended' <=> Ended
  BY <1>1, <1>3, <1>4 DEF Ended
<1> QED
  BY <1>1, <1>6, <1>7, <1>8, <1>9, <1>10, <1>11, <1>12, <1>13 DEF PlayInv

-----------------------------------------------------------------------------
(* The queue.                                                              *)

\* The files of a folder by their names: the one that was opened is there.
LEMMA SiblingsIs ==
  ASSUME NEW t \in DOMAIN Movies
  PROVE  /\ Player!Siblings(t) \in Seq(DOMAIN Movies)
         /\ \E i \in DOMAIN Player!Siblings(t) : Player!Siblings(t)[i] = t
<1> DEFINE named == [u \in DOMAIN Movies |-> Movies[u].name]
           among == {u \in DOMAIN Movies : Player!Wanted(u, t)}
           R == {p \in among \X among : named[p[1]] < named[p[2]]}
           s == Player!Siblings(t)
<1>1. t \in among /\ among \subseteq DOMAIN Movies
  BY DEF Player!Wanted
<1>2. /\ \A u \in among : named[u] \in Int
      /\ \A u, v \in among : named[u] = named[v] => u = v
  <2> DEFINE S == [name : Int, media : BOOLEAN, hidden : BOOLEAN, broken : BOOLEAN,
                   long : Nat, subs : Nat, chapters : Nat]
  <2>1. ASSUME NEW u \in DOMAIN Movies PROVE Movies[u] \in S
    <3>1. Movies \in Seq(S)
      BY MoviesAssumption
    <3> HIDE DEF S
    <3> QED
      BY <3>1
  <2>2. \A u \in DOMAIN Movies : Movies[u].name \in Int
    BY <2>1
  <2>3. \A u, v \in DOMAIN Movies : Movies[u].name = Movies[v].name => u = v
    BY MoviesAssumption
  <2> QED
    BY <2>2, <2>3
<1>3. IsFiniteSet(among)
  <2>1. DOMAIN Movies = 1..Len(Movies) /\ Len(Movies) \in Nat
    BY MoviesAssumption
  <2>2. IsFiniteSet(1..Len(Movies))
    BY <2>1, FS_Interval
  <2>3. IsFiniteSet(DOMAIN Movies)
    BY <2>1, <2>2
  <2> QED
    BY <2>3, <1>1, FS_Subset
<1>4. s = Ranked(among, R)
  <2>1. s = [k \in 1..Cardinality(among) |->
               CHOOSE u \in among :
                 Cardinality({v \in among : Movies[v].name < Movies[u].name}) = k - 1]
    BY DEF Player!Siblings, Player!Cardinality, Cardinality
  <2>2. \A u \in among :
          {v \in among : Movies[v].name < Movies[u].name} = {v \in among : <<v, u>> \in R}
    OBVIOUS
  <2>3. \A k : (CHOOSE u \in among :
                  Cardinality({v \in among : Movies[v].name < Movies[u].name}) = k - 1)
              = (CHOOSE u \in among : Cardinality({v \in among : <<v, u>> \in R}) = k - 1)
    <3> TAKE k
    <3>1. \A u : (u \in among
                   /\ Cardinality({v \in among : Movies[v].name < Movies[u].name}) = k - 1)
             <=> (u \in among /\ Cardinality({v \in among : <<v, u>> \in R}) = k - 1)
      BY <2>2
    <3> QED
      BY <3>1, Zenon
  <2> QED
    BY <2>1, <2>3 DEF Ranked
<1>5. /\ \A u \in among : <<u, u>> \notin R
      /\ \A u, v \in among : u # v => <<u, v>> \in R \/ <<v, u>> \in R
      /\ \A u, v, x \in among : <<u, v>> \in R /\ <<v, x>> \in R => <<u, x>> \in R
  <2> HIDE DEF named, among
  <2> QED
    BY <1>2
<1> HIDE DEF s, R, among, named
<1>6. s \in Seq(among) /\ {s[i] : i \in DOMAIN s} = among
  BY <1>3, <1>4, <1>5, RankedLists
<1>7. s \in Seq(DOMAIN Movies)
  BY <1>1, <1>6
<1>8. \E i \in DOMAIN s : s[i] = t
  BY <1>1, <1>6
<1> QED
  BY <1>7, <1>8 DEF s

\* A file is chosen: one that is opened, or of the queue.
LEMMA ChosenKeeps ==
  ASSUME PlayInv, NEW q \in Seq(DOMAIN Movies), NEW i \in 1..Len(q),
         Player!TrackSelected(q, i, player, changed), player_events' = player_events
  PROVE  PlayInv' /\ (Ended' => Ended)
<1>1. PlayerType /\ MpvObeys /\ Fields /\ DOMAIN player = PlayerFields
  BY DEF PlayInv, PlayerType, Fields
<1>2. player.speed = core.speed \/ "speed" \in changed
  BY DEF PlayInv, Mirrored
<1>3. player.paused = core.pause \/ "pause" \in changed
  BY DEF PlayInv, Mirrored
<1>4. player_events' \in Seq(Notices) /\ (player_events' # <<>> => FileOf \subseteq changed)
  BY DEF PlayInv, PlayerType, Heard
<1>5. PlayInv'
  BY <1>1, <1>2, <1>3, <1>4, SelectedKeeps
<1>6. Started(q, i) /\ changed' \subseteq changed \cup {"pause"}
  BY <1>1, SelectedIs
<1>7. Ended' => Ended
  BY <1>6 DEF Ended, Started
<1> QED
  BY <1>5, <1>7

\* The files that are opened are the queue,
LEMMA OpenKeeps ==
  ASSUME PlayInv, NEW files \in Dropped, Player!Open(files)
  PROVE  PlayInv' /\ (Ended' => Ended) /\ UNCHANGED <<ends, advances, screen>>
<1> DEFINE q == Player!Filled(files)
           i == IF Len(files) = 1 THEN CHOOSE k \in DOMAIN q : q[k] = files[1] ELSE 1
<1>1. /\ files # <<>> /\ Player!TrackSelected(q, i, player, changed)
      /\ player_events' = player_events
      /\ UNCHANGED <<ends, advances, screen>>
  BY DEF Player!Open
<1>2. files \in Seq(DOMAIN Movies)
  BY MoviesAssumption
<1>3. q \in Seq(DOMAIN Movies) /\ i \in 1..Len(q)
  <2>1. CASE Len(files) = 1
    <3>1. files[1] \in DOMAIN Movies
      BY <1>2, <2>1
    <3>2. q = Player!Siblings(files[1])
      BY <2>1 DEF Player!Filled
    <3>3. q \in Seq(DOMAIN Movies) /\ \E k \in DOMAIN q : q[k] = files[1]
      BY <3>1, <3>2, SiblingsIs
    <3> HIDE DEF q
    <3>4. i = CHOOSE k \in DOMAIN q : q[k] = files[1]
      BY <2>1
    <3> HIDE DEF i
    <3>5. i \in DOMAIN q
      BY <3>3, <3>4
    <3> QED
      BY <3>3, <3>5
  <2>2. CASE Len(files) # 1
    <3>1. q = files /\ i = 1
      BY <2>2 DEF Player!Filled
    <3> HIDE DEF q, i
    <3> QED
      BY <1>1, <1>2, <3>1
  <2> QED
    BY <2>1, <2>2
<1> HIDE DEF q, i
<1> QED
  BY <1>1, <1>3, ChosenKeeps

\* one of them is clicked,
LEMMA PickKeeps ==
  ASSUME PlayInv, NEW i \in 1..Len(tracks), Player!Pick(i)
  PROVE  PlayInv' /\ (Ended' => Ended) /\ UNCHANGED <<ends, advances, screen>>
<1>1. /\ Player!TrackSelected(tracks, i, player, changed)
      /\ player_events' = player_events
      /\ UNCHANGED <<ends, advances, screen>>
  BY DEF Player!Pick
<1>2. tracks \in Seq(DOMAIN Movies)
  BY DEF PlayInv, PlayerType, Queued
<1> QED
  BY <1>1, <1>2, ChosenKeeps

\* or the next or the previous one is asked for.
LEMMA PicksKeep ==
  ASSUME PlayInv, Player!NextTrack \/ Player!PrevTrack \/ Player!RowSelected
  PROVE  PlayInv' /\ (Ended' => Ended) /\ UNCHANGED <<ends, advances, screen>>
<1>1. tracks \in Seq(DOMAIN Movies) /\ current \in Nat /\ Len(tracks) \in Nat
  BY DEF PlayInv, PlayerType, Queued
<1>2. \A a \in Nat, n \in Nat : n > 0 => (a % n) + 1 \in 1..n
  OBVIOUS
<1>3. CASE Player!NextTrack
  <2>1. tracks # <<>> /\ Player!Pick((current % Len(tracks)) + 1)
    BY <1>3 DEF Player!NextTrack
  <2>2. Len(tracks) > 0
    BY <1>1, <2>1
  <2>3. (current % Len(tracks)) + 1 \in 1..Len(tracks)
    BY <1>1, <1>2, <2>2
  <2> QED
    BY <2>1, <2>3, PickKeeps
<1>4. CASE Player!PrevTrack
  <2>1. tracks # <<>> /\ Player!Pick(((current + Len(tracks) - 2) % Len(tracks)) + 1)
    BY <1>4 DEF Player!PrevTrack
  <2>2. Len(tracks) > 0
    BY <1>1, <2>1
  <2>3. current + Len(tracks) - 2 \in Int
    BY <1>1
  <2>4. \A a \in Int, n \in Nat : n > 0 => (a % n) + 1 \in 1..n
    OBVIOUS
  <2>5. ((current + Len(tracks) - 2) % Len(tracks)) + 1 \in 1..Len(tracks)
    BY <1>1, <2>2, <2>3, <2>4
  <2> QED
    BY <2>1, <2>5, PickKeeps
<1>5. CASE Player!RowSelected
  <2>1. PICK i \in DOMAIN tracks : Player!Pick(i)
    BY <1>5 DEF Player!RowSelected
  <2>2. i \in 1..Len(tracks)
    BY <1>1
  <2> QED
    BY <2>1, <2>2, PickKeeps
<1> QED
  BY <1>3, <1>4, <1>5

-----------------------------------------------------------------------------
(* The whole screen.                                                       *)

\* The header and the deck hide in the whole screen only.
LEMMA HideChromeOk ==
  ASSUME NEW s, ScreenOk(s)
  PROVE  /\ ScreenOk(Player!HideChrome(s))
         /\ Player!HideChrome(s).full = s.full /\ Player!HideChrome(s).window = s.window
BY DEF ScreenOk, ScreenFields, Player!HideChrome

\* They are back when it is left.
LEMMA ModeOk ==
  ASSUME NEW s, ScreenOk(s), NEW full \in BOOLEAN
  PROVE  /\ ScreenOk(Player!Mode(s, full))
         /\ Player!Mode(s, full).full = full /\ Player!Mode(s, full).window = s.window
<1>1. CASE s.full = full
  BY <1>1 DEF Player!Mode
<1>2. CASE s.full # full /\ full
  <2> DEFINE a == [s EXCEPT !.full = TRUE, !.timer = FALSE]
             b == Player!Queue(a)
  <2>1. /\ DOMAIN a = ScreenFields /\ a.full = TRUE /\ a.window = s.window /\ a.wanted = s.wanted
    BY DEF ScreenOk, ScreenFields
  <2> HIDE DEF a
  <2>2. ScreenOk(b) /\ b.full = TRUE /\ b.window = s.window
    BY <2>1 DEF ScreenOk, ScreenFields, Player!Queue
  <2> HIDE DEF b
  <2>3. Player!Mode(s, full) = Player!HideChrome(b)
    BY <1>2 DEF Player!Mode, a, b
  <2>4. full = TRUE
    BY <1>2
  <2> QED
    BY <2>2, <2>3, <2>4, HideChromeOk
<1>3. CASE s.full # full /\ ~full
  <2> DEFINE a == [s EXCEPT !.full = FALSE, !.timer = FALSE, !.header = TRUE, !.deck = TRUE]
  <2>1. /\ DOMAIN a = ScreenFields /\ a.full = FALSE /\ a.window = s.window /\ a.wanted = s.wanted
        /\ a.timer = FALSE /\ a.header = TRUE /\ a.deck = TRUE
    BY DEF ScreenOk, ScreenFields
  <2>2. Player!Mode(s, full) = Player!Queue(a)
    BY <1>3 DEF Player!Mode
  <2> HIDE DEF a
  <2>3. full = FALSE
    BY <1>3
  <2>4. /\ ScreenOk(Player!Queue(a))
        /\ Player!Queue(a).full = FALSE /\ Player!Queue(a).window = s.window
    BY <2>1 DEF ScreenOk, ScreenFields, Player!Queue
  <2> QED
    BY <2>2, <2>3, <2>4
<1> QED
  BY <1>1, <1>2, <1>3

\* The window follows what was asked of it.
LEMMA FullscreenedKeeps ==
  ASSUME ScreenInv, NEW full \in BOOLEAN, Player!Fullscreened(full)
  PROVE  \/ full = screen.window /\ screen' = screen
         \/ ScreenOk(screen') /\ screen'.full = screen'.window
<1> DEFINE s == Player!Mode(screen, full)
<1>1. ScreenOk(s) /\ s.full = full
  BY ModeOk DEF ScreenInv
<1>2. screen' = IF full = screen.window THEN screen ELSE [s EXCEPT !.window = full]
  BY DEF Player!Fullscreened
<1> HIDE DEF s
<1> QED
  BY <1>1, <1>2 DEF ScreenOk, ScreenFields

\* What was asked last is not what is answered, if there are two.
LEMMA TailLast ==
  ASSUME NEW S, NEW s \in Seq(S), s # <<>>, Len(s) # 1
  PROVE  Tail(s) # <<>> /\ Tail(s)[Len(Tail(s))] = s[Len(s)]
<1>1. Len(s) \in Nat \ {0}
  BY EmptySeq
<1>2. Len(Tail(s)) = Len(s) - 1
  BY HeadTailProperties
<1>3. Tail(s)[Len(s) - 1] = s[Len(s)]
  <2>1. Len(s) - 1 \in 1..Len(Tail(s)) /\ (Len(s) - 1) + 1 = Len(s)
    BY <1>1, <1>2
  <2>2. \A i \in 1..Len(Tail(s)) : Tail(s)[i] = s[i + 1]
    BY HeadTailProperties
  <2> QED
    BY <2>1, <2>2
<1>4. Len(Tail(s)) # Len(<<>>)
  BY <1>1, <1>2, EmptySeq
<1>5. Tail(s) # <<>>
  BY <1>4
<1> QED
  BY <1>2, <1>3, <1>5

ScreenSteps ==
  \/ Player!ToggleFullscreen \/ Player!Answered \/ Player!HudTimeout \/ Player!Popover
  \/ Player!ToggleDrawer \/ Player!SeekBy
  \/ \E full \in BOOLEAN : Player!ByCompositor(full)
  \/ \E zone \in {"bottom", "top", "middle"} : Player!Motion(zone)

\* The steps that are about the screen alone.
LEMMA ScreenStepsKeep ==
  ASSUME ScreenInv, ScreenSteps
  PROVE  ScreenInv'
<1>1. /\ ScreenOk(screen) /\ asked \in Seq(BOOLEAN)
      /\ screen.full # screen.window => asked # <<>> /\ asked[Len(asked)] = screen.full
  BY DEF ScreenInv
<1>2. CASE Player!ToggleFullscreen
  <2>1. /\ screen' = Player!Mode(screen, ~screen.full)
        /\ asked' = IF screen.window = screen'.full THEN asked ELSE Append(asked, screen'.full)
    BY <1>2 DEF Player!ToggleFullscreen
  <2>2. PICK full \in BOOLEAN : full = ~screen.full
    OBVIOUS
  <2>3. ScreenOk(screen') /\ screen'.full = full /\ screen'.window = screen.window
    BY <1>1, <2>1, <2>2, ModeOk
  <2>4. CASE screen.window = screen'.full
    <3>1. asked' = asked
      BY <2>1, <2>4
    <3> QED
      BY <1>1, <2>3, <2>4, <3>1 DEF ScreenInv
  <2>5. CASE screen.window # screen'.full
    <3>1. asked' = Append(asked, full)
      BY <2>1, <2>3, <2>5
    <3>2. asked' \in Seq(BOOLEAN) /\ asked' # <<>> /\ asked'[Len(asked')] = full
      BY <1>1, <3>1
    <3> QED
      BY <2>3, <3>2 DEF ScreenInv
  <2> QED
    BY <2>4, <2>5
<1>3. CASE Player!Answered
  <2>1. asked # <<>> /\ asked' = Tail(asked) /\ Player!Fullscreened(Head(asked))
    BY <1>3 DEF Player!Answered
  <2>2. Head(asked) \in BOOLEAN /\ asked' \in Seq(BOOLEAN)
    BY <1>1, <2>1
  <2>3. CASE Head(asked) = screen.window /\ screen' = screen
    <3>1. CASE screen.full = screen.window
      BY <1>1, <2>2, <2>3, <3>1 DEF ScreenInv
    <3>2. CASE screen.full # screen.window
      <4>1. Len(asked) # 1
        BY <1>1, <2>1, <2>3, <3>2
      <4>2. asked' # <<>> /\ asked'[Len(asked')] = asked[Len(asked)]
        BY <1>1, <2>1, <4>1, TailLast
      <4> QED
        BY <1>1, <2>2, <2>3, <3>2, <4>2 DEF ScreenInv
    <3> QED
      BY <3>1, <3>2
  <2>4. CASE ScreenOk(screen') /\ screen'.full = screen'.window
    BY <2>2, <2>4 DEF ScreenInv
  <2> QED
    BY <2>1, <2>2, <2>3, <2>4, FullscreenedKeeps
<1>4. ASSUME NEW full \in BOOLEAN, Player!ByCompositor(full) PROVE ScreenInv'
  <2>1. asked' = asked /\ full # screen.window /\ Player!Fullscreened(full)
    BY <1>4 DEF Player!ByCompositor
  <2>2. ScreenOk(screen') /\ screen'.full = screen'.window
    BY <2>1, FullscreenedKeeps
  <2> QED
    BY <1>1, <2>1, <2>2 DEF ScreenInv
<1>5. ASSUME ScreenOk(screen'), screen'.full = screen.full, screen'.window = screen.window,
             asked' = asked
      PROVE  ScreenInv'
  BY <1>1, <1>5 DEF ScreenInv
<1>6. CASE Player!HudTimeout
  <2> DEFINE s == [screen EXCEPT !.timer = FALSE]
  <2>1. screen' = Player!HideChrome(s) /\ asked' = asked
    BY <1>6 DEF Player!HudTimeout
  <2>2. ScreenOk(s) /\ s.full = screen.full /\ s.window = screen.window
    BY <1>1 DEF ScreenOk, ScreenFields
  <2> HIDE DEF s
  <2> QED
    BY <1>5, <2>1, <2>2, HideChromeOk
<1>7. CASE Player!Popover
  <2>1. screen' = [screen EXCEPT !.popover = ~screen.popover] /\ asked' = asked
    BY <1>7 DEF Player!Popover
  <2>2. ScreenOk(screen') /\ screen'.full = screen.full /\ screen'.window = screen.window
    BY <1>1, <2>1 DEF ScreenOk, ScreenFields
  <2> QED
    BY <1>5, <2>1, <2>2
<1>8. CASE Player!ToggleDrawer
  <2> DEFINE s == [screen EXCEPT !.wanted = ~screen.wanted]
  <2>1. screen' = Player!Queue(s) /\ asked' = asked
    BY <1>8 DEF Player!ToggleDrawer
  <2>2. /\ DOMAIN s = ScreenFields /\ s.full = screen.full /\ s.window = screen.window
        /\ s.header = screen.header /\ s.deck = screen.deck /\ s.timer = screen.timer
    BY <1>1 DEF ScreenOk, ScreenFields
  <2> HIDE DEF s
  <2>3. screen' = [s EXCEPT !.queue = s.wanted /\ ~s.full]
    BY <2>1 DEF Player!Queue
  <2>4. ScreenOk(screen') /\ screen'.full = screen.full /\ screen'.window = screen.window
    BY <1>1, <2>2, <2>3 DEF ScreenOk, ScreenFields
  <2> QED
    BY <1>5, <2>1, <2>4
<1>9. CASE Player!SeekBy
  <2>1. /\ screen' = IF screen.full THEN [screen EXCEPT !.deck = TRUE, !.timer = TRUE] ELSE screen
        /\ asked' = asked
    BY <1>9 DEF Player!SeekBy
  <2>2. ScreenOk(screen') /\ screen'.full = screen.full /\ screen'.window = screen.window
    BY <1>1, <2>1 DEF ScreenOk, ScreenFields
  <2> QED
    BY <1>5, <2>1, <2>2
<1>10. ASSUME NEW zone, Player!Motion(zone) PROVE ScreenInv'
  <2>1. /\ screen.full /\ asked' = asked
        /\ \/ screen' = [screen EXCEPT !.deck = TRUE]
           \/ screen' = [screen EXCEPT !.deck = zone = "bottom", !.header = zone = "top", !.timer = TRUE]
    BY <1>10 DEF Player!Motion
  <2>2. ScreenOk(screen') /\ screen'.full = screen.full /\ screen'.window = screen.window
    BY <1>1, <2>1 DEF ScreenOk, ScreenFields
  <2> QED
    BY <1>5, <2>1, <2>2
<1> QED
  BY <1>2, <1>3, <1>4, <1>6, <1>7, <1>8, <1>9, <1>10 DEF ScreenSteps

-----------------------------------------------------------------------------
(* The player.                                                             *)

\* The player starts with the files that it was given.
LEMMA PlayerInitInv == Player!Init => PlayerInv
<1> SUFFICES ASSUME Player!Init PROVE PlayerInv
  OBVIOUS
<1>1. /\ tracks = <<>> /\ current = 0 /\ cmds = <<>> /\ player_events = <<>> /\ changed = {}
      /\ asked = <<>> /\ ends = 0 /\ advances = 0
  BY DEF Player!Init
<1>2. /\ DOMAIN core = CoreFields /\ core.file = Player!None /\ core.pause = FALSE
      /\ core.eof = FALSE /\ core.loop = FALSE /\ core.volume = 2 /\ core.mute = FALSE
      /\ core.speed = 2 /\ core.sub = 0
  BY DEF Player!Init, CoreFields
<1>3. /\ DOMAIN player = PlayerFields /\ player.media = FALSE /\ player.playing = FALSE
      /\ player.paused = FALSE /\ player.eof = FALSE /\ player.dur = 0 /\ player.speed = 2
      /\ player.list \in Streams /\ player.chapters = 0
  BY DEF Player!Init, PlayerFields, Streams
<1>4. /\ DOMAIN player_win = WinFields /\ player_win.lastEof = FALSE /\ player_win.loop = FALSE
      /\ player_win.volume = 2 /\ player_win.muted = FALSE /\ player_win.hash = Player!NoHash
      /\ player_win.count = 0 /\ player_win.rows = player.list
  BY DEF Player!Init, WinFields
<1>5. /\ DOMAIN mpris = MprisFields /\ mpris.playing = FALSE /\ mpris.dur = 0 /\ mpris.volume = 2
  BY DEF Player!Init, MprisFields
<1>6. ScreenOk(screen) /\ screen.full = screen.window
  BY DEF Player!Init, ScreenOk, ScreenFields
<1>7. PlayerType
  <2>1. Fields /\ Queued
    BY <1>1, <1>2, <1>3, <1>4, <1>5 DEF Fields, Queued
  <2>2. cmds \in Seq(Orders) /\ player_events \in Seq(Notices)
    BY <1>1
  <2>3. /\ player_win.volume \in Nat /\ player_win.rows \in Streams
        /\ player.list \in Streams /\ player.chapters \in Nat
        /\ core.sub \in Nat /\ core.file \in DOMAIN Movies \cup {Player!None}
    BY <1>2, <1>3, <1>4
  <2>4. /\ player_win.muted \in BOOLEAN /\ core.pause \in BOOLEAN /\ core.mute \in BOOLEAN
        /\ core.eof \in BOOLEAN /\ player.eof \in BOOLEAN
    BY <1>2, <1>3, <1>4
  <2> QED
    BY <2>1, <2>2, <2>3, <2>4 DEF PlayerType
<1>8. ~Sent(cmds, "load")
  BY <1>1, NoOrder
<1>9. MpvObeys
  <2>1. Agrees(cmds, "volume", 2, 2)
    BY <1>1, NoOrder
  <2>2. Agrees(cmds, "mute", 0, 0)
    BY <1>1, NoOrder
  <2> QED
    BY <1>2, <1>4, <1>5, <2>1, <2>2 DEF MpvObeys
<1>10. Mirrored
  BY <1>2, <1>3 DEF Mirrored
<1>11. WindowShows
  <2>1. mpris.playing = Plays
    <3>1. Plays = FALSE
      BY <1>3 DEF Plays
    <3> QED
      BY <1>5, <3>1
  <2>2. mpris.dur = (IF player.media THEN player.dur ELSE 0)
    BY <1>3, <1>5
  <2> QED
    BY <1>1, <1>4, <2>1, <2>2 DEF WindowShows
<1>12. LoadsIt /\ Heard /\ OfFile
  BY <1>1, <1>2, <1>8 DEF LoadsIt, Heard, OfFile, Settled
<1>13. EndsBound
  BY <1>1, <1>2, <1>3 DEF EndsBound, Ended
<1>14. ScreenInv
  BY <1>1, <1>6 DEF ScreenInv
<1> QED
  BY <1>7, <1>9, <1>10, <1>11, <1>12, <1>13, <1>14 DEF PlayerInv, PlayInv

\* The steps that leave the ends, or count one,
LEMMA PlaySteps ==
  ASSUME PlayInv, Player!Next
  PROVE  \/ Player!ReadEvents
         \/ /\ PlayInv' /\ advances' = advances
            /\ (ends' = ends /\ (Ended' => Ended)) \/ ends' = ends + 1
<1>1. CASE Player!CoreRuns
  BY <1>1, CoreRunsKeeps
<1>2. CASE Player!CoreEnds
  BY <1>2, CoreEndsKeeps
<1>3. ASSUME NEW files \in Dropped, Player!Open(files)
      PROVE  PlayInv' /\ advances' = advances /\ ends' = ends /\ (Ended' => Ended)
  BY <1>3, OpenKeeps
<1>4. CASE Player!NextTrack \/ Player!PrevTrack \/ Player!RowSelected
  BY <1>4, PicksKeep
<1>5. CASE \/ \E on \in BOOLEAN : Player!SetPlaying(on)
           \/ Player!TogglePlayPause
           \/ Player!SeekBack \/ Player!StopCommand
           \/ \E d \in {-1, 1} : Player!AdjustSpeed(d)
           \/ Player!SubsRowActivated
  <2>1. \/ \E on : Player!SetPlaying(on)
        \/ Player!SeekBack \/ Player!StopCommand
        \/ \E d \in {-1, 1} : Player!AdjustSpeed(d)
        \/ Player!SubsRowActivated
    BY <1>5 DEF Player!TogglePlayPause
  <2> QED
    BY <2>1, OrdersKeep
<1>6. CASE Player!ToggleMute
  BY <1>6, ToggleMuteKeeps
<1>7. CASE Player!ToggleLoop
  BY <1>7, ToggleLoopKeeps
<1>8. ASSUME NEW v \in 1..2, Player!SetVolume(v)
      PROVE  PlayInv' /\ advances' = advances /\ ends' = ends /\ (Ended' => Ended)
  BY <1>8, SetVolumeKeeps
<1>9. CASE Player!SeekBy
  BY <1>9, SeekByKeeps
<1>10. ASSUME UNCHANGED Player!playback
       PROVE  PlayInv' /\ advances' = advances /\ ends' = ends /\ (Ended' => Ended)
  <2>1. UNCHANGED <<tracks, current, core, cmds, player_events, changed, player, player_win, mpris>>
    BY <1>10 DEF Player!playback
  <2>2. TheFile' = TheFile /\ (Settled' <=> Settled)
    BY <2>1 DEF TheFile, Settled
  <2>3. PlayerType'
    BY <2>1 DEF PlayInv, PlayerType, Fields, Queued
  <2>4. MpvObeys' /\ Mirrored' /\ WindowShows' /\ LoadsIt' /\ Heard' /\ OfFile'
    BY <2>1, <2>2 DEF PlayInv, MpvObeys, Mirrored, WindowShows, Plays, LoadsIt, Heard, OfFile
  <2>5. (Ended' => Ended) /\ advances' = advances /\ ends' = ends
    BY <1>10 DEF Ended, Player!playback
  <2> QED
    BY <2>3, <2>4, <2>5 DEF PlayInv
<1>11. CASE \/ Player!ToggleFullscreen \/ Player!Answered \/ Player!HudTimeout \/ Player!Popover
            \/ Player!ToggleDrawer
            \/ \E full \in BOOLEAN : Player!ByCompositor(full)
            \/ \E zone \in {"bottom", "top", "middle"} : Player!Motion(zone)
  <2>1. UNCHANGED Player!playback
    BY <1>11 DEF Player!ToggleFullscreen, Player!Answered, Player!HudTimeout, Player!Popover,
                 Player!ToggleDrawer, Player!ByCompositor, Player!Motion, Player!Fullscreened
  <2> QED
    BY <1>10, <2>1
<1> QED
  BY <1>1, <1>2, <1>3, <1>4, <1>5, <1>6, <1>7, <1>8, <1>9, <1>11 DEF Player!Next

\* and the one that may let a file follow.
LEMMA ReadBound ==
  ASSUME PlayInv, EndsBound, Player!ReadEvents
  PROVE  EndsBound'
<1>1. (Follows(Latest) \/ Stays(Latest)) /\ ends' = ends
  BY ReadIs
<1>2. Latest.eof => (core.eof /\ "eof" \in changed) \/ player.eof
  BY LatestIs DEF PlayInv, WindowShows
<1>3. Latest.eof /\ ~player_win.lastEof => Ended
  BY <1>2 DEF Ended
<1>4. DOMAIN Latest = PlayerFields
  BY LatestIs DEF PlayInv, WindowShows
<1> HIDE DEF Latest
<1>5. CASE Follows(Latest)
  <2>1. advances < ends /\ advances' = advances + 1
    BY <1>3, <1>5 DEF Follows, EndsBound
  <2>2. Fields /\ Player!TrackSelected(tracks, current + 1, Latest, {})
    BY <1>5 DEF PlayInv, PlayerType, Follows
  <2>3. Started(tracks, current + 1) /\ changed' \subseteq {} \cup {"pause"}
    BY <1>4, <2>2, SelectedIs
  <2>4. ~Ended'
    BY <2>3 DEF Ended, Started
  <2> QED
    BY <1>1, <2>1, <2>4 DEF EndsBound
<1>6. CASE Stays(Latest)
  <2>1. Ended' => Ended
    BY <1>3, <1>6 DEF Ended, Stays
  <2> QED
    BY <1>1, <1>6, <2>1 DEF EndsBound, Stays
<1> QED
  BY <1>1, <1>5, <1>6

\* Each step of the player keeps all of it.
LEMMA PlayerNextKeeps ==
  ASSUME PlayerInv, [Player!Next]_Player!vars
  PROVE  PlayerInv'
<1>1. PlayInv /\ EndsBound /\ ScreenInv
  BY DEF PlayerInv
<1>2. CASE UNCHANGED Player!vars
  <2>1. UNCHANGED <<tracks, current, core, cmds, player_events, changed, player, player_win, mpris,
                    ends, advances, screen, asked>>
    BY <1>2 DEF Player!vars, Player!playback
  <2>2. TheFile' = TheFile /\ (Settled' <=> Settled)
    BY <2>1 DEF TheFile, Settled
  <2>3. PlayerType'
    BY <1>1, <2>1 DEF PlayInv, PlayerType, Fields, Queued
  <2>4. MpvObeys' /\ Mirrored' /\ WindowShows' /\ LoadsIt' /\ Heard' /\ OfFile'
    BY <1>1, <2>1, <2>2 DEF PlayInv, MpvObeys, Mirrored, WindowShows, Plays, LoadsIt, Heard, OfFile
  <2>5. EndsBound' /\ ScreenInv'
    BY <1>1, <2>1 DEF EndsBound, Ended, ScreenInv
  <2> QED
    BY <2>3, <2>4, <2>5 DEF PlayInv, PlayerInv
<1>3. CASE Player!Next
  <2>1. PlayInv' /\ EndsBound'
    <3>1. CASE Player!ReadEvents
      BY <1>1, <3>1, ReadKeeps, ReadBound
    <3>2. CASE /\ PlayInv' /\ advances' = advances
               /\ (ends' = ends /\ (Ended' => Ended)) \/ ends' = ends + 1
      BY <1>1, <3>2 DEF EndsBound
    <3> QED
      BY <1>1, <1>3, <3>1, <3>2, PlaySteps
  <2>2. ScreenInv'
    <3>1. CASE ScreenSteps
      BY <1>1, <3>1, ScreenStepsKeep
    <3>2. CASE UNCHANGED <<screen, asked>>
      BY <1>1, <3>2 DEF ScreenInv
    <3>3. ScreenSteps \/ UNCHANGED <<screen, asked>>
      BY <1>3 DEF Player!Next, ScreenSteps, Player!ReadEvents, Player!CoreRuns, Player!CoreEnds,
                  Player!Open, Player!NextTrack, Player!PrevTrack, Player!RowSelected, Player!Pick,
                  Player!SetPlaying, Player!TogglePlayPause, Player!SeekBack, Player!StopCommand,
                  Player!AdjustSpeed, Player!SubsRowActivated, Player!ToggleMute,
                  Player!ToggleLoop, Player!SetVolume, Player!Send
    <3> QED
      BY <3>1, <3>2, <3>3
  <2> QED
    BY <2>1, <2>2 DEF PlayerInv
<1> QED
  BY <1>2, <1>3

\* When all was carried out and read, the window shows the file that plays.
LEMMA PlayInStep ==
  ASSUME PlayInv PROVE Player!PlayerInStep
<1> SUFFICES ASSUME Player!Quiet, current > 0 PROVE
      LET t == tracks[current]
          playing == ~core.pause /\ ~core.eof
      IN  /\ mpris.title = t /\ player_win.shows.file = t
          /\ core.volume = player_win.volume /\ core.mute = player_win.muted
          /\ core.loop = player_win.loop
          /\ mpris.volume = player_win.volume /\ player.speed = core.speed
          /\ player.error = Player!Info(t).broken
          /\ ~Player!Info(t).broken =>
               /\ core.file = t
               /\ player.eof = core.eof /\ mpris.playing = playing
               /\ player_win.shows.playing = playing
               /\ mpris.dur = Player!Info(t).long
               /\ player_win.rows = [subs |-> Player!Info(t).subs, sub |-> core.sub]
               /\ Player!Info(t).chapters > 0 =>
                    player_win.chapterRows = Player!Info(t).chapters
  BY DEF Player!PlayerInStep
<1> DEFINE t == tracks[current]
<1>1. cmds = <<>> /\ player_events = <<>> /\ changed = {}
  BY DEF Player!Quiet
<1>2. ~Sent(cmds, "load") /\ Settled /\ TheFile = t /\ t \in DOMAIN Movies
  BY <1>1, NoOrder DEF Settled, TheFile, PlayInv, PlayerType, Queued
<1>3. t # Player!None
  BY <1>2, InfoIs
<1> HIDE DEF t
<1>4. mpris.title = t /\ player_win.shows.file = t /\ player.media
  BY <1>2 DEF PlayInv, WindowShows
<1>5. core.volume = player_win.volume
  BY <1>1, NoOrder DEF PlayInv, MpvObeys
<1>6. core.mute = player_win.muted
  <2>1. (IF core.mute THEN 1 ELSE 0) = (IF player_win.muted THEN 1 ELSE 0)
    BY <1>1, NoOrder DEF PlayInv, MpvObeys
  <2>2. core.mute \in BOOLEAN /\ player_win.muted \in BOOLEAN
    BY DEF PlayInv, PlayerType
  <2> QED
    BY <2>1, <2>2
<1>7. core.loop = player_win.loop /\ mpris.volume = player_win.volume /\ player.speed = core.speed
  BY <1>1 DEF PlayInv, MpvObeys, Mirrored
<1>8. player.error = Player!Info(t).broken
  BY <1>1, <1>2 DEF PlayInv, Heard
<1>9. ASSUME ~Player!Info(t).broken
      PROVE  /\ core.file = t
             /\ player.eof = core.eof
             /\ mpris.playing = (~core.pause /\ ~core.eof)
             /\ player_win.shows.playing = (~core.pause /\ ~core.eof)
             /\ mpris.dur = Player!Info(t).long
             /\ player_win.rows = [subs |-> Player!Info(t).subs, sub |-> core.sub]
             /\ Player!Info(t).chapters > 0 => player_win.chapterRows = Player!Info(t).chapters
  <2>1. core.file = t
    BY <1>2, <1>9 DEF PlayInv, LoadsIt, Loaded
  <2>2. /\ player.eof = core.eof /\ player.dur = Player!Info(t).long
        /\ player.list = [subs |-> Player!Info(t).subs, sub |-> core.sub]
        /\ player.chapters = Player!Info(t).chapters
    BY <1>1, <1>2, <1>3, <2>1 DEF PlayInv, OfFile
  <2>3. player.paused = core.pause
    BY <1>1 DEF PlayInv, Mirrored
  <2>4. /\ player_win.rows = player.list /\ player_win.count = player.chapters
        /\ player.playing = (player.media /\ ~player.paused /\ ~player.eof)
    BY <1>1, <1>2 DEF PlayInv, Heard
  <2>5. Plays = (~core.pause /\ ~core.eof)
    BY <1>4, <2>2, <2>3, <2>4 DEF Plays
  <2>6. mpris.playing = Plays /\ player_win.shows.playing = Plays /\ mpris.dur = player.dur
    BY <1>2, <1>4 DEF PlayInv, WindowShows
  <2>7. player_win.count = 0 \/ player_win.chapterRows = player_win.count
    BY DEF PlayInv, WindowShows
  <2>8. mpris.playing = (~core.pause /\ ~core.eof)
        /\ player_win.shows.playing = (~core.pause /\ ~core.eof)
    BY <2>5, <2>6
  <2>9. Player!Info(t).chapters > 0 => player_win.chapterRows = Player!Info(t).chapters
    BY <2>2, <2>4, <2>7
  <2> QED
    BY <2>1, <2>2, <2>4, <2>6, <2>8, <2>9
<1> QED
  BY <1>4, <1>5, <1>6, <1>7, <1>8, <1>9 DEF t

\* For any folder and any files that are opened, however mpv and the window race: once mpv
\* has carried out what it was sent and all that it reports was read, the player shows the
\* file of the queue that mpv plays, with its end, its lists and its chapters, and mpv has
\* the volume and the sound that are shown; at most one file follows each end; and what
\* hides in the whole screen is there when it is left.
THEOREM PlayerAlwaysFollows ==
  Player!Spec => []PlayerFollows
<1>1. ASSUME PlayerInv PROVE PlayerFollows
  <2>1. Player!PlayerInStep
    BY <1>1, PlayInStep DEF PlayerInv
  <2>2. Player!AdvancesOnce
    BY <1>1 DEF PlayerInv, EndsBound, Player!AdvancesOnce
  <2>3. Player!ScreenFollows
    BY <1>1 DEF PlayerInv, ScreenInv, ScreenOk, Player!ScreenFollows
  <2> QED
    BY <2>1, <2>2, <2>3 DEF PlayerFollows
<1>2. PlayerInv => PlayerFollows
  BY <1>1
<1>3. PlayerInv /\ [Player!Next]_Player!vars => PlayerInv'
  BY PlayerNextKeeps
<1> QED
  BY <1>2, <1>3, PlayerInitInv, PTL DEF Player!Spec
=============================================================================
