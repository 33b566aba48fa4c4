------------------------------ MODULE NiriStream ------------------------------
(***************************************************************************)
(* The shell's view of niri (compositor/niri.c) and the widgets that show  *)
(* it (widgets/workspaces.c, window.c, keyboard-layout.c): an event stream *)
(* that is read line by line, lost and opened again, and clicks that niri  *)
(* answers on a connection of their own.  niri is external: it tells all   *)
(* it has when a stream begins and every change after that.                *)
(***************************************************************************)
EXTENDS Naturals, Sequences, SequencesExt, FiniteSets

CONSTANTS
    Windows, Titles,    \* a title stands for the application too
    Workspaces,         \* workspace lists niri may have, of [id, idx, output]
    Layouts,            \* layout lists niri may have: sequences of names
    Matches(_, _),     \* whether a title contains a name
    MAX_ICONS,          \* MAX_ICONS_PER_WORKSPACE
    MaxEvents           \* bound: changes and clicks of a run

VARIABLES
    niri,       \* [up, spaces, active, focus (workspace), windows, focused, names, current]
    stream,     \* lines that wait to be read; "eof" ends them
    connected, timer,
    spaces, windows, focused, layouts,  \* what the shell keeps of it
    shown,      \* what the widgets show: [tasks, window, radios, checked, panel]
    told,       \* a line about the focus was read since the stream began
    events

shell == <<connected, timer, spaces, windows, focused, layouts, shown, told>>
vars  == <<niri, stream, events, shell>>

None == 0
NoWindow == [id |-> None, title |-> "none", space |-> None]
NoLayout == "??"                        \* what the panel shows without a layout

-----------------------------------------------------------------------------
(* What the widgets show.                                                  *)

\* shell_compositor_get_windows_for_workspace.
Of(ws, space) == SelectSeq(ws, LAMBDA w : w.space = space)

\* workspaces_rebuild: in the order of idx, some windows and how many more.
Tasks(sp, ws) ==
    [i \in DOMAIN sp |->
        LET in == Of(ws, sp[i].id)
            n  == IF Len(in) > MAX_ICONS THEN MAX_ICONS ELSE Len(in)
        IN  [id |-> sp[i].id, active |-> sp[i].active, focused |-> sp[i].focused,
             icons |-> [j \in 1..n |-> in[j].id], more |-> Len(in) - n]]

\* keyboard_layout_update_panel.
Panel(s, l) ==
    IF l.current \in DOMAIN l.names
    THEN [s EXCEPT !.panel = l.names[l.current],
                   !.checked = IF l.current <= Len(s.radios) THEN l.current ELSE @]
    ELSE [s EXCEPT !.panel = NoLayout]

\* keyboard_layout_rebuild_radios.
Radios(s, l) ==
    [s EXCEPT !.radios = l.names,
              !.checked = IF l.current \in DOMAIN l.names THEN l.current ELSE None]

\* on_keyboard_layout_changed: the radio buttons are built anew when their number is not
\* that of the layouts.
LayoutShown(s, l) ==
    Panel(IF l.names # <<>> /\ Len(l.names) # Len(s.radios) THEN Radios(s, l) ELSE s, l)

-----------------------------------------------------------------------------
(* Events.                                                                 *)

\* compare_workspaces_by_idx; equal ones stay in their order.
Before(ws, j, i) == ws[j].idx < ws[i].idx \/ (ws[j].idx = ws[i].idx /\ j < i)
SortedByIdx(ws) ==
    LET at(k) == CHOOSE i \in DOMAIN ws : Cardinality({j \in DOMAIN ws : Before(ws, j, i)}) = k - 1
    IN  [k \in DOMAIN ws |-> ws[at(k)]]

\* handle_workspaces_changed.
WorkspacesChanged(e) ==
    /\ spaces' = SortedByIdx(e.spaces)
    /\ shown' = [shown EXCEPT !.tasks = Tasks(spaces', windows)]
    /\ UNCHANGED <<windows, focused, layouts, told>>

\* handle_workspace_activated: the others of its output are not active.
WorkspaceActivated(e) ==
    LET known   == {i \in DOMAIN spaces : spaces[i].id = e.id}
        same(s) == \A i \in known : s.output = spaces[i].output
    IN  /\ spaces' = [i \in DOMAIN spaces |->
              LET s == spaces[i]
              IN  IF s.id = e.id THEN [s EXCEPT !.active = TRUE, !.focused = e.focused]
                  ELSE [s EXCEPT !.active = @ /\ ~same(s), !.focused = @ /\ ~e.focused]]
        /\ shown' = [shown EXCEPT !.tasks = Tasks(spaces', windows)]
        /\ UNCHANGED <<windows, focused, layouts, told>>

Find(ws, id) ==
    IF \E i \in DOMAIN ws : ws[i].id = id
    THEN ws[CHOOSE i \in DOMAIN ws : ws[i].id = id] ELSE [NoWindow EXCEPT !.id = id]

\* handle_window_focus_changed.
WindowFocusChanged(e) ==
    /\ focused' = IF e.id = None THEN NoWindow ELSE Find(windows, e.id)
    /\ shown' = [shown EXCEPT !.window = focused']
    /\ told' = TRUE
    /\ UNCHANGED <<spaces, windows, layouts>>

WindowAppended(e) ==
    /\ windows' = Append(windows, e.window)
    /\ focused' = IF e.focus \/ focused.id = e.window.id THEN e.window ELSE focused
    /\ shown' = [shown EXCEPT !.tasks = Tasks(spaces, windows'), !.window = focused']
    /\ told' = (told \/ e.focus)
    /\ UNCHANGED <<spaces, layouts>>

\* handle_window_opened_or_changed.
WindowOpenedOrChanged(e) ==
    LET at == {i \in DOMAIN windows : windows[i].id = e.window.id}
    IN  /\ windows' = IF at = {} THEN Append(windows, e.window)
                      ELSE [i \in DOMAIN windows |-> IF i \in at THEN e.window ELSE windows[i]]
        /\ focused' = IF e.focus \/ focused.id = e.window.id THEN e.window ELSE focused
        /\ shown' = [shown EXCEPT !.tasks = Tasks(spaces, windows'), !.window = focused']
        /\ told' = (told \/ e.focus)
        /\ UNCHANGED <<spaces, layouts>>

\* The first window of that id is taken out.
Without(ws, id) ==
    LET at == {i \in DOMAIN ws : ws[i].id = id}
    IN  IF at = {} THEN ws ELSE RemoveAt(ws, Min(at))

\* handle_window_closed.
WindowClosed(e) ==
    /\ windows' = Without(windows, e.id)
    /\ focused' = IF focused.id = e.id THEN NoWindow ELSE focused
    /\ shown' = [shown EXCEPT !.tasks = Tasks(spaces, windows'), !.window = focused']
    /\ UNCHANGED <<spaces, layouts, told>>

\* handle_windows_changed: what is focused stays what it was.
WindowsChanged(e) ==
    /\ windows' = e.windows
    /\ shown' = [shown EXCEPT !.tasks = Tasks(spaces, windows'), !.window = focused]
    /\ UNCHANGED <<spaces, focused, layouts, told>>

\* handle_keyboard_layouts_changed, handle_keyboard_layout_switched.
KeyboardLayoutsChanged(e) ==
    /\ layouts' = [names |-> e.names, current |-> e.current]
    /\ shown' = LayoutShown(shown, layouts')
    /\ UNCHANGED <<spaces, windows, focused, told>>

KeyboardLayoutSwitched(e) ==
    /\ layouts' = [layouts EXCEPT !.current = e.current]
    /\ shown' = LayoutShown(shown, layouts')
    /\ UNCHANGED <<spaces, windows, focused, told>>

\* niri_handle_event.
Handle(e) ==
    CASE e.event = "WorkspacesChanged"      -> WorkspacesChanged(e)
      [] e.event = "WorkspaceActivated"     -> WorkspaceActivated(e)
      [] e.event = "WindowFocusChanged"     -> WindowFocusChanged(e)
      [] e.event = "WindowOpenedOrChanged"  -> WindowOpenedOrChanged(e)
      [] e.event = "WindowClosed"           -> WindowClosed(e)
      [] e.event = "WindowsChanged"         -> WindowsChanged(e)
      [] e.event = "KeyboardLayoutsChanged" -> KeyboardLayoutsChanged(e)
      [] e.event = "KeyboardLayoutSwitched" -> KeyboardLayoutSwitched(e)

\* on_line_read.
ReadLine ==
    /\ connected /\ stream # <<>> /\ Head(stream).event # "eof"
    /\ Handle(Head(stream)) /\ stream' = Tail(stream)
    /\ UNCHANGED <<niri, events, connected, timer>>

\* on_line_read at the end of the stream: a timer will try again.
StreamEnds ==
    /\ connected /\ stream # <<>> /\ Head(stream).event = "eof"
    /\ connected' = FALSE /\ stream' = <<>> /\ timer' = TRUE
    /\ UNCHANGED <<niri, events, spaces, windows, focused, layouts, shown, told>>

-----------------------------------------------------------------------------
(* The connection.                                                         *)

\* The lines that begin a stream.
Everything(n) ==
    <<[event |-> "WorkspacesChanged", spaces |-> [i \in DOMAIN n.spaces |->
          [id |-> n.spaces[i].id, idx |-> n.spaces[i].idx, output |-> n.spaces[i].output,
           active |-> n.spaces[i].id \in n.active, focused |-> n.spaces[i].id = n.focus]]],
      [event |-> "WindowsChanged", windows |-> n.windows],
      [event |-> "KeyboardLayoutsChanged", names |-> n.names, current |-> n.current]>>

\* niri_connect, from shell_compositor_new or on_niri_reconnect_timer.
Connect ==
    IF niri.up THEN connected' = TRUE /\ stream' = Everything(niri) /\ told' = FALSE
    ELSE UNCHANGED <<connected, stream, told>>

ReconnectOnce ==
    /\ timer /\ timer' = FALSE /\ Connect
    /\ UNCHANGED <<niri, events, spaces, windows, focused, layouts, shown>>

\* on_niri_reconnect_timer, every two seconds until it succeeds.
Reconnect ==
    /\ timer /\ Connect /\ timer' = ~connected'
    /\ UNCHANGED <<niri, events, spaces, windows, focused, layouts, shown>>

-----------------------------------------------------------------------------
(* niri.                                                                   *)

Event == events < MaxEvents /\ events' = events + 1

Says(lines) == stream' = IF connected /\ (stream = <<>> \/ Last(stream).event # "eof")
                         THEN stream \o lines ELSE stream

SaysWindow(w, focus) == <<[event |-> "WindowOpenedOrChanged", window |-> w, focus |-> focus]>>
SaysFocus(id) == <<[event |-> "WindowFocusChanged", id |-> id]>>

Ids(ws) == {ws[i].id : i \in DOMAIN ws}

Change == Event /\ niri.up /\ UNCHANGED shell

Open(id, title, space) ==
    /\ Change /\ id \notin Ids(niri.windows) /\ space \in Ids(niri.spaces)
    /\ LET w == [id |-> id, title |-> title, space |-> space]
       IN  /\ niri' = [niri EXCEPT !.windows = Append(@, w), !.focused = id]
           /\ Says(SaysWindow(w, TRUE))

Rename(id, title, space) ==
    /\ Change /\ space \in Ids(niri.spaces)
    /\ LET w == [id |-> id, title |-> title, space |-> space]
       IN  /\ \E i \in DOMAIN niri.windows :
                /\ niri.windows[i].id = id /\ niri.windows[i] # w
                /\ niri' = [niri EXCEPT !.windows[i] = w]
           /\ Says(SaysWindow(w, niri.focused = id))

FocusOn(id) ==
    /\ Change /\ id \in Ids(niri.windows) \cup {None} /\ id # niri.focused
    /\ niri' = [niri EXCEPT !.focused = id] /\ Says(SaysFocus(id))

Close(id, next) ==
    /\ Change /\ id \in Ids(niri.windows) /\ next \in (Ids(niri.windows) \cup {None}) \ {id}
    /\ LET moves == niri.focused = id
       IN  /\ niri' = [niri EXCEPT !.windows = Without(@, id),
                                   !.focused = IF moves THEN next ELSE @]
           /\ Says(<<[event |-> "WindowClosed", id |-> id]>>
                   \o (IF moves THEN SaysFocus(next) ELSE <<>>))

\* A workspace of another output than the focused one may become active alone.
Activate(id, focus) ==
    /\ Change
    /\ \E s, f \in Range(niri.spaces) :
          /\ s.id = id /\ f.id = niri.focus /\ (focus \/ s.output # f.output)
          /\ niri' = [niri EXCEPT
                !.active = {id} \cup {t.id : t \in {u \in Range(niri.spaces) :
                                       u.id \in niri.active /\ u.output # s.output}},
                !.focus  = IF focus THEN id ELSE @]
          /\ Says(<<[event |-> "WorkspaceActivated", id |-> id, focused |-> focus]>>)

\* Workspaces come and go, but never an active one.
Rearrange(sp) ==
    /\ Change /\ sp # niri.spaces
    /\ \A w \in Range(niri.windows) : w.space \in Ids(sp)
    /\ niri.active \subseteq Ids(sp)
    /\ niri' = [niri EXCEPT !.spaces = sp]
    /\ Says(<<Everything(niri')[1]>>)

SetLayouts(names, current) ==
    /\ Change /\ current \in DOMAIN names
    /\ niri' = [niri EXCEPT !.names = names, !.current = current]
    /\ Says(<<Everything(niri')[3]>>)

\* on_radio_toggled: niri is told, and the button is checked at once.
PickLayout(i) ==
    /\ Event /\ i \in DOMAIN shown.radios \ {shown.checked}
    /\ shown' = [shown EXCEPT !.checked = i]
    /\ IF niri.up /\ i \in DOMAIN niri.names
       THEN /\ niri' = [niri EXCEPT !.current = i]
            /\ Says(<<[event |-> "KeyboardLayoutSwitched", current |-> i]>>)
       ELSE UNCHANGED <<niri, stream>>
    /\ UNCHANGED <<connected, timer, spaces, windows, focused, layouts, told>>

\* on_scroll: the workspace before or after the focused one of the list.
Scroll(down) ==
    \E i \in DOMAIN spaces :
        /\ spaces[i].focused /\ \A j \in 1..(i - 1) : ~spaces[j].focused
        /\ IF down THEN i < Len(spaces) ELSE i > 1
        /\ Activate(spaces[IF down THEN i + 1 ELSE i - 1].id, TRUE)

\* on_close_clicked, on_app_icon_clicked, on_workspace_label_clicked.
CloseShown == \E next \in Windows \cup {None} : Close(shown.window.id, next)
FocusIcon  == \E i \in DOMAIN shown.tasks : \E id \in Range(shown.tasks[i].icons) : FocusOn(id)
PickSpace  == \E i \in DOMAIN shown.tasks : Activate(shown.tasks[i].id, TRUE)

\* shell_compositor_focus_app: the first window whose title contains the name.
FocusApp(name) ==
    \E i \in DOMAIN windows :
        /\ Matches(windows[i].title, name)
        /\ \A j \in 1..(i - 1) : ~Matches(windows[j].title, name)
        /\ FocusOn(windows[i].id)

\* The stream is cut; niri itself may be gone for a while.
Cut(stays) ==
    /\ Event /\ niri' = [niri EXCEPT !.up = stays] /\ niri.up
    /\ Says(<<[event |-> "eof"]>>) /\ UNCHANGED shell

Return == Event /\ ~niri.up /\ niri' = [niri EXCEPT !.up = TRUE] /\ UNCHANGED <<stream, shell>>

Init ==
    /\ \E sp \in Workspaces, names \in Layouts :
          niri = [up |-> TRUE, spaces |-> sp, windows |-> <<>>, focused |-> None,
                  active |-> {sp[i].id : i \in {j \in DOMAIN sp :
                                 \A k \in 1..(j - 1) : sp[k].output # sp[j].output}},
                  focus |-> sp[1].id, names |-> names, current |-> 1]
    /\ stream = Everything(niri) /\ connected = TRUE /\ timer = FALSE
    /\ spaces = <<>> /\ windows = <<>> /\ focused = NoWindow /\ told = FALSE
    /\ layouts = [names |-> <<>>, current |-> 1]
    /\ shown = [tasks |-> <<>>, window |-> NoWindow, radios |-> <<>>, checked |-> None,
                panel |-> NoLayout]
    /\ events = 0

Next ==
    \/ ReadLine \/ StreamEnds \/ Reconnect \/ Return \/ CloseShown \/ FocusIcon \/ PickSpace
    \/ \E id \in Windows, title \in Titles, space \in 1..3 :
          Open(id, title, space) \/ Rename(id, title, space)
    \/ \E id \in Windows \cup {None} : FocusOn(id)
    \/ \E id \in Windows, next \in Windows \cup {None} : Close(id, next)
    \/ \E id \in 1..3, focus \in BOOLEAN : Activate(id, focus)
    \/ \E sp \in Workspaces : Rearrange(sp)
    \/ \E names \in Layouts, current \in 1..2 : SetLayouts(names, current)
    \/ \E i \in 1..2 : PickLayout(i)
    \/ \E down \in BOOLEAN : Scroll(down)
    \/ \E name \in Titles : FocusApp(name)
    \/ \E stays \in BOOLEAN : Cut(stays)

\* The main loop reads and its timer fires.
Spec == Init /\ [][Next]_vars /\ WF_vars(ReadLine) /\ WF_vars(StreamEnds) /\ WF_vars(Reconnect)

-----------------------------------------------------------------------------
(* Properties.                                                             *)

\* When every line was read the shell has niri's workspaces, windows and layouts, and
\* its focused window if a line has told of one since the stream began; and the widgets
\* show just that: the names on the radio buttons aside, their number is right.
InSync ==
    connected /\ stream = <<>> =>
        /\ {[id |-> s.id, active |-> s.active, focused |-> s.focused] : s \in Range(spaces)}
             = {[id |-> s.id, active |-> s.id \in niri.active, focused |-> s.id = niri.focus]
                  : s \in Range(niri.spaces)}
        /\ \A i \in DOMAIN spaces : i > 1 => spaces[i - 1].idx <= spaces[i].idx
        /\ Range(windows) = Range(niri.windows) /\ Len(windows) = Len(niri.windows)
        /\ layouts = [names |-> niri.names, current |-> niri.current]
        /\ told => focused = IF niri.focused = None THEN NoWindow ELSE Find(niri.windows, niri.focused)
        /\ shown.tasks = Tasks(spaces, windows) /\ shown.window = focused
        /\ Len(shown.radios) = Len(niri.names) /\ shown.checked = niri.current
        /\ shown.panel = niri.names[niri.current]

\* A niri that is there for good is in the end followed again.
FollowsAgain == <>[](niri.up) => <>[](connected /\ stream = <<>>)
=============================================================================
