--------------------------- MODULE ConfigReload ---------------------------
(***************************************************************************)
(* One configuration file and the processes that share it: the shell,       *)
(* which reads it when it starts and when the socket says so, and whose     *)
(* widgets write it; the pages of the settings application, which read,     *)
(* change and write it; and the editor, which watches it.  Nothing guards   *)
(* the file.  A configuration is a value for each setting (0 is a number    *)
(* that a load keeps and a save replaces) and the widgets of the sections   *)
(* of the panel.                                                            *)
(***************************************************************************)
EXTENDS Naturals, Sequences, FiniteSets, SequencesExt

CONSTANTS
    HandFiles,      \* what somebody may write in the file by hand
    Shipped,        \* the defaults file that is installed
    Addable,        \* the widgets that can be added on the widgets page
    MaxRows,        \* bound on the rows of the widgets page
    MaxActs,        \* bound on what is done to pages, files and widgets
    MaxStarts       \* bound on the starts of the shell

Settings == {"panel", "rotate", "accent", "ide"}
Pages == Settings \cup {"widgets"}
Default == [s \in Settings |-> 1]
None == "none"                          \* no page; an id, a mode or a command not given
Sections == 1..3                        \* left, center, right

VARIABLES
    file,       \* [kind, set, layout] of ~/.config/kajo/config.json
    css,        \* the override sheet: [accent, ide]
    controls,   \* what the pages show, 0 for a page that was not opened
    rows,       \* the rows of the widgets page, a sequence for each section
    dirty,      \* the editor's page has changes that were not saved
    draft,      \* a page between reading the file and writing it
    shell,      \* "off", "starting" (no socket yet) or "on"
    config,     \* ShellApp.config
    themed,     \* the override sheet the shell shows
    conns,      \* connections to the socket
    idle,       \* commands that wait for the main loop
    ide,        \* the configuration the editor shows, 0 if it does not run
    noticed,    \* the editor's monitor has an event
    missed,     \* the shell was not told of a change: the reload was lost, somebody
                \* edited the file, or a page wrote back what it had read before
    acts, starts

pages == <<controls, rows, dirty, draft>>
vars == <<file, css, pages, shell, config, themed, conns, idle, ide, noticed,
          missed, acts, starts>>

NoDraft == [page |-> None, read |-> Shipped, config |-> [set |-> Default, layout |-> <<>>]]
Bare == <<<<>>, <<>>, <<>>>>

---------------------------------------------------------------------------
(* Loading and saving.                                                     *)

\* An entry without an id is dropped; one without a mode has the panel's.
Entry(w) ==
    [id |-> w.id, mode |-> IF w.mode = None THEN "icon" ELSE w.mode, cmd |-> w.cmd]
WidgetsOf(entries) ==
    LET kept[n \in 0..Len(entries)] ==
          IF n = 0 THEN <<>>
          ELSE IF entries[n].id = None THEN kept[n - 1]
          ELSE Append(kept[n - 1], Entry(entries[n]))
    IN  kept[Len(entries)]

SettingsOf(f) ==
    [s \in Settings |-> IF s \in DOMAIN f.set THEN f.set[s] ELSE Default[s]]

LayoutOf(f) ==
    LET layout == [i \in Sections |-> WidgetsOf(f.layout[i])]
    IN  IF \A i \in Sections : layout[i] = <<>>
        THEN [i \in Sections |-> WidgetsOf(Shipped.layout[i])] ELSE layout

Load(f) ==
    LET found == IF f.kind = "absent" THEN Shipped ELSE f
    IN  IF found.kind = "broken" THEN [set |-> Default, layout |-> Bare]
        ELSE [set |-> SettingsOf(found), layout |-> LayoutOf(found)]

SavedValue(c, s) == IF c.set[s] = 0 THEN Default[s] ELSE c.set[s]
SavedSettings(c) == [s \in Settings |-> SavedValue(c, s)]
Save(c) == [kind |-> "file", set |-> SavedSettings(c), layout |-> c.layout]

Write(c) ==
    /\ file' = Save(c)
    /\ noticed' = (ide # 0)

Act == acts < MaxActs /\ acts' = acts + 1

\* The sheet a process writes (shell_theme_sync_from_config).
SheetOf(c) == [accent |-> c.set["accent"], ide |-> SavedValue(c, "ide")]

---------------------------------------------------------------------------
(* The shell.                                                              *)

Start ==
    /\ shell = "off" /\ starts < MaxStarts
    /\ shell' = "starting" /\ starts' = starts + 1
    /\ config' = Load(file) /\ themed' = css /\ missed' = FALSE
    /\ UNCHANGED <<file, css, pages, conns, idle, ide, noticed, acts>>

\* The rest of the shell and its socket; the widgets are NotificationCenter's.
Activate ==
    /\ shell = "starting"
    /\ shell' = "on"
    /\ UNCHANGED <<file, css, pages, config, themed, conns, idle, ide, noticed, missed,
                   acts, starts>>

\* The reads and the commands that wait are cancelled and never carried out.
Quit ==
    /\ shell = "on"
    /\ shell' = "off" /\ conns' = <<>> /\ idle' = <<>>
    /\ UNCHANGED <<file, css, pages, config, themed, ide, noticed, missed, acts, starts>>

\* A command line, or the settings application, sends a command.
Told(cmd) ==
    conns' = IF shell = "on" THEN Append(conns, [cmd |-> cmd, late |-> FALSE]) ELSE conns
Sent(cmd) ==
    /\ Told(cmd)
    /\ missed' = (missed \/ (cmd = "reload-config" /\ shell = "starting"))

Cli(cmd) ==
    /\ Act
    /\ Sent(cmd)
    /\ UNCHANGED <<file, css, pages, shell, config, themed, idle, ide, noticed, starts>>

\* on_ipc_read_timeout: the main loop was busy for a second.
Late(i) ==
    /\ ~conns[i].late
    /\ conns' = [conns EXCEPT ![i].late = TRUE]
    /\ UNCHANGED <<file, css, pages, shell, config, themed, idle, ide, noticed,
                   missed, acts, starts>>

LineRead(i) ==
    /\ idle' = IF conns[i].late THEN idle ELSE Append(idle, conns[i].cmd)
    /\ missed' = (missed \/ (conns[i].late /\ conns[i].cmd = "reload-config"))
    /\ conns' = RemoveAt(conns, i)
    /\ UNCHANGED <<file, css, pages, shell, config, themed, ide, noticed, acts, starts>>

\* The idle callbacks; shell_app_reload_config and shell_app_reload_theme.
Take(cmd) == idle # <<>> /\ Head(idle) = cmd /\ idle' = Tail(idle)

ReloadConfig ==
    /\ Take("reload-config")
    /\ config' = Load(file)
    /\ missed' = FALSE
    /\ UNCHANGED <<file, css, pages, shell, themed, conns, ide, noticed, acts, starts>>

ReloadTheme ==
    /\ Take("reload-theme")
    /\ themed' = css
    /\ UNCHANGED <<file, css, pages, shell, config, conns, ide, noticed, missed,
                   acts, starts>>

\* The shell's own monitor of the sheet.
SheetChanged ==
    /\ shell # "off" /\ themed # css /\ themed' = css
    /\ UNCHANGED <<file, css, pages, shell, config, conns, idle, ide, noticed, missed,
                   acts, starts>>

\* A slip: the file is changed and the shell's configuration is not.
BacklightSavesFile(v) ==
    /\ Act /\ shell = "on" /\ config.set["rotate"] # v
    /\ Write([Load(file) EXCEPT !.set["rotate"] = v])
    /\ UNCHANGED <<config, css, pages, shell, themed, conns, idle, ide, missed, starts>>

\* backlight_save_config_Order: the shell's own configuration is written.
BacklightSaves(v) ==
    /\ Act /\ shell = "on" /\ config.set["rotate"] # v
    /\ config' = [config EXCEPT !.set["rotate"] = v]
    /\ Write(config')
    /\ UNCHANGED <<css, pages, shell, themed, conns, idle, ide, missed, starts>>

\* apply_accent_preset: the theme widget reads the file, and the shell does not.
AccentPicked(v) ==
    /\ Act /\ shell = "on"
    /\ LET c == [Load(file) EXCEPT !.set["accent"] = v]
       IN  css' = SheetOf(c) /\ Write(c)
    /\ UNCHANGED <<pages, shell, config, themed, conns, idle, ide, missed, starts>>

---------------------------------------------------------------------------
(* The settings application.  A page is built when it is first opened and  *)
(* not again: it shows what the file said then.                            *)

PanelPage(c) == [controls EXCEPT !["panel"] = SavedValue(c, "panel")]
DisplaysPage(c) == [controls EXCEPT !["rotate"] = SavedValue(c, "rotate")]
ThemePage(c) == [controls EXCEPT !["accent"] = SavedValue(c, "accent")]
IdePage(c) == [controls EXCEPT !["ide"] = SavedValue(c, "ide")]
Row(w) == [id |-> w.id, mode |-> w.mode]
WidgetsPage(c) ==
    [i \in Sections |-> [k \in DOMAIN c.layout[i] |-> Row(c.layout[i][k])]]

Opened(p) == IF p = "widgets" THEN rows # <<>> ELSE controls[p] # 0
OpenPage(p) ==
    /\ Act
    /\ ~Opened(p)
    /\ LET c == Load(file)
       IN  \/ p = "widgets" /\ rows' = WidgetsPage(c) /\ controls' = controls
          \/ /\ rows' = rows
             /\ \/ p = "panel" /\ controls' = PanelPage(c)
                \/ p = "rotate" /\ controls' = DisplaysPage(c)
                \/ p = "accent" /\ controls' = ThemePage(c)
                \/ p = "ide" /\ controls' = IdePage(c)
    /\ UNCHANGED <<file, css, dirty, draft, shell, config, themed, conns, idle, ide,
                   noticed, missed, starts>>

Turn(p, v) ==
    /\ Act
    /\ controls[p] \notin {0, v}
    /\ controls' = [controls EXCEPT ![p] = v]
    /\ dirty' = (dirty \/ p = "ide")
    /\ UNCHANGED <<file, css, rows, draft, shell, config, themed, conns, idle, ide,
                   noticed, missed, starts>>

\* on_revert_ide_clicked
Revert ==
    /\ Act
    /\ dirty /\ dirty' = FALSE
    /\ controls' = [controls EXCEPT !["ide"] = SavedValue(Load(file), "ide")]
    /\ UNCHANGED <<file, css, rows, draft, shell, config, themed, conns, idle, ide,
                   noticed, missed, starts>>

\* A row goes up, goes to the next section, or away; a row is added.
RowUp(i, k) == k > 1 /\ rows' = [rows EXCEPT ![i] =
                   [@ EXCEPT ![k] = rows[i][k - 1], ![k - 1] = rows[i][k]]]
RowMoves(i, k) == rows' = [rows EXCEPT ![i] = RemoveAt(@, k),
                                       ![(i % 3) + 1] = Append(@, rows[i][k])]
RowRemoved(i, k) == rows' = [rows EXCEPT ![i] = RemoveAt(@, k)]
RowAdded(i, id) == rows' = [rows EXCEPT ![i] = Append(@, Row([id |-> id, mode |-> "full"]))]
EditRows ==
    /\ Act
    /\ draft.page = None /\ rows # <<>>
    /\ \E i \in Sections :
          \/ \E k \in DOMAIN rows[i] : RowUp(i, k) \/ RowMoves(i, k) \/ RowRemoved(i, k)
          \/ \E id \in Addable : Len(rows[1] \o rows[2] \o rows[3]) < MaxRows /\ RowAdded(i, id)
    /\ UNCHANGED <<file, css, controls, dirty, draft, shell, config, themed, conns,
                   idle, ide, noticed, missed, starts>>

\* collect_card_widget_configs: a row takes the command of the first widget of
\* its name in the same section.
CommandOf(id, ws) ==
    LET same == {k \in DOMAIN ws : ws[k].id = id}
    IN  IF same = {} THEN None ELSE ws[Min(same)].cmd
Collected(i, c) ==
    [k \in DOMAIN rows[i] |-> [id |-> rows[i][k].id, mode |-> rows[i][k].mode,
                               cmd |-> CommandOf(rows[i][k].id, c.layout[i])]]

WidgetsApplied(c) == [c EXCEPT !.layout = [i \in Sections |-> Collected(i, c)]]
PanelApplied(c) == [c EXCEPT !.set["panel"] = controls["panel"]]
DisplaysApplied(c) == [c EXCEPT !.set["rotate"] = controls["rotate"]]
ThemeApplied(c) == [c EXCEPT !.set["accent"] = controls["accent"]]
IdeApplied(c) == [c EXCEPT !.set["ide"] = controls["ide"]]

\* Apply is clicked: the file is read and, by two pages, the sheet is written ...
ApplyLoads(p) ==
    /\ Act /\ draft.page = None
    /\ Opened(p)
    /\ p = "ide" => dirty
    /\ \E c \in {Load(file)} : draft' = [page |-> p, read |-> file, config |->
          CASE p = "widgets" -> WidgetsApplied(c)
            [] p = "panel"   -> PanelApplied(c)
            [] p = "rotate"  -> DisplaysApplied(c)
            [] p = "accent"  -> ThemeApplied(c)
            [] p = "ide"     -> IdeApplied(c)]
    /\ css' = IF p \in {"accent", "ide"} THEN SheetOf(draft'.config) ELSE css
    /\ UNCHANGED <<file, controls, rows, dirty, shell, config, themed, conns, idle, ide,
                   noticed, missed, starts>>

\* ... and the file is written, and the shell told, if the page does that.
ApplySaves ==
    /\ draft.page # None
    /\ Write(draft.config)
    /\ draft' = NoDraft
    /\ dirty' = (dirty /\ draft.page # "ide")
    /\ CASE draft.page = "ide"    -> conns' = conns /\ missed' = (missed \/ file # draft.read)
         [] draft.page = "accent" -> Told("reload-theme") /\ missed' = (missed \/ file # draft.read)
         [] OTHER                 -> Sent("reload-config")
    /\ UNCHANGED <<css, controls, rows, shell, config, themed, idle, ide, acts,
                   starts>>

---------------------------------------------------------------------------
(* The editor and an editor's user.                                        *)

\* ide_window_apply_config: when it starts and when the file has changed.
Applies ==
    /\ ide' = SavedValue(Load(file), "ide")
    /\ css' = SheetOf(Load(file))
    /\ noticed' = FALSE
    /\ UNCHANGED <<file, pages, shell, config, themed, conns, idle, missed, starts>>
IdeStarts == ide = 0 /\ Applies /\ acts' = acts
FileNoticed == noticed /\ Applies /\ acts' = acts

\* ide_window_zoom_editor_font saves to no path at all, which fails.
Zoom(px) ==
    /\ Act /\ ide \notin {0, px} /\ Applies

EditedByHand(f) ==
    /\ Act /\ f # file
    /\ file' = f /\ noticed' = (ide # 0) /\ missed' = TRUE
    /\ UNCHANGED <<css, pages, shell, config, themed, conns, idle, ide, starts>>

---------------------------------------------------------------------------
Init ==
    /\ file \in {Shipped, [Shipped EXCEPT !.kind = "absent"]}
    /\ css = SheetOf([set |-> Default])
    /\ controls = [s \in Settings |-> 0] /\ rows = <<>> /\ dirty = FALSE /\ draft = NoDraft
    /\ shell = "off" /\ config = [set |-> Default, layout |-> Bare]
    /\ themed = css /\ conns = <<>> /\ idle = <<>>
    /\ ide = 0 /\ noticed = FALSE /\ missed = FALSE /\ acts = 0 /\ starts = 0

Next ==
    \/ Start \/ Activate \/ Quit
    \/ \E cmd \in {"reload-config", "reload-theme"} : Cli(cmd)
    \/ \E i \in DOMAIN conns : Late(i) \/ LineRead(i)
    \/ ReloadConfig \/ ReloadTheme \/ SheetChanged
    \/ \E v \in 1..2 : BacklightSaves(v) \/ AccentPicked(v) \/ Zoom(v)
    \/ \E p \in Pages : OpenPage(p) \/ ApplyLoads(p)
    \/ \E p \in Settings, v \in 1..2 : Turn(p, v)
    \/ Revert \/ EditRows \/ ApplySaves
    \/ IdeStarts \/ FileNoticed
    \/ \E f \in HandFiles : EditedByHand(f)

Spec == Init /\ [][Next]_vars

---------------------------------------------------------------------------
(* Properties.                                                             *)

\* When no reload is under way and none was missed, the shell works with what the file
\* says, but for the accent and the editor's settings: whoever saves tells the
\* shell, or is the shell.  The sheet that everything is styled with says what
\* the file says while the editor watches it.  (A file that cannot be read leaves
\* the panel bare, and the next save makes a file without widgets of it.)
Quiet == draft.page = None /\ conns = <<>> /\ idle = <<>> /\ ~noticed
ShellFollows ==
    Quiet /\ shell = "on" /\ ~missed =>
        /\ \A s \in {"panel", "rotate"} : SavedValue(config, s) = SavedValue(Load(file), s)
        /\ config.layout \in {Load(file).layout, Bare}
SheetFollows ==
    Quiet /\ ide # 0 => css = SheetOf(Load(file)) /\ ide = css.ide
ConfigurationsAgree == ShellFollows /\ SheetFollows

=============================================================================
