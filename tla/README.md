# Verification of Kajo

Kajo is a desktop shell for the niri compositor (panel, notifications, lock
screen, launcher, on-screen keyboard), a greeter for greetd, an IDE, a file
manager and a media player: programs in C over GTK 4 that run on GLib's main
loop. Here are TLA+ models of the parts where callbacks, processes and the user
meet in an order nobody wrote down, model-checked by TLC, with proofs that TLAPS
checks. `PROJECT.json` lists components, runs, mutants, the lines of the source
that each definition translates, findings, hazards and theorems. Paths below are
relative to `src/src/` unless they begin with `src/` or `docs/`.

How the program runs decides how it is modelled. Each program has one thread
that matters, its main loop: **a callback runs to its end before the next one
starts, so one action is one callback**, with everything it calls. What
interleaves is the order of callbacks, and processes, threads and services
outside. Those outside (debug adapters, language servers, GTK, the compositor,
logind, PAM, greetd, mpv, coding agents, the file system) are modelled from how
the code uses them and marked external in the map.

## 1. Inventory

### Modelled

| Component | State it keeps | Operations | What is hard, what must hold | Module |
|---|---|---|---|---|
| Debug session, `ide/ide_dap.c` | session state, generation, client, frames, breakpoints, the Java start under way | start, stop, restart, pause, step, toggle, select a frame; answers and events | Answers of an ended session, breakpoints toggled during the handshake. An ended session shows nothing; the adapter holds the editor's breakpoints; STARTING ends | DapSession |
| Debug adapter client, `ide/ide_dap_client.c` | pending requests, write queue, one read outstanding, process or socket | request, answer, event, stop, free | The exit is noticed in two ways. Every request settles once; the exit is told once | DapClient |
| Language server client, `ide/ide_lsp_client.c` | state, pending requests, `preinit_queue`, write queue, kill timer | start, request, notify, cancel, stop, free | Messages before `initialize` is answered; callbacks that call the client; grace period against exit | LspClient |
| Language server manager, `ide/ide_lsp.c` | documents with version and timer, clients, the popover's request | open, change, save, ask, format, close, replace a dead client | Pointers to a freed client; debounced changes against everything else. The server's text follows the buffer's | LspDocSync |
| Buffers and agent review, `ide/ide_buffer.c`, `ide/ide_agent_ipc.c` | text, what was read or written last, snapshot, transactions | open, edit, save, close, reload, `diff`, accept, revert | Late reports; agents that write where the user edits. No silent divergence; reverting restores | AgentReview |
| Editor's keyboard, `ide/ide_fsm.c`, `ide_window.c`, `ide_actions.c`, `ide_picker.c`, `ide_tree.c`, `ide_search.c` | mode, chord, what is shown, who has the focus | every key, click and late answer | Modes and what is shown are set on different paths. Keys go to what is on the screen; Esc leads back | IdeInput |
| Session lock, saver, idle, `lock/`, `widgets/idle-inhibitor.c` | lock object and windows, PAM check, saver, monitors' power, Keep Awake | lock, unlock, submit, plug, idle, resume, suspend, reload | A PAM answer for a lock that is gone; timeouts that undo each other. Every monitor is covered | SessionGuard |
| Tablet: `osk/`, `posture/`, `hardware/touch_gestures.c`, `hardware/kbd_backlight.c` | sticky modifiers, repeat, keymap; posture, inhibited devices, claim, rotation; fingers | keys and fields; hinge, sensors, reload, crash; swipes | What a key shows is what it types; the devices follow the posture and outlive no crash; one swipe per touch | OnScreenKeyboard, Posture, TouchGestures |
| Greeter, `greeter/` | users, sessions, the card and its surfaces, the worker's conversation | choose, submit, cancel, monitors, restart | The worker runs while the card changes. One attempt, one password, nothing left behind in greetd | Greeter |
| Panel and autohide, `panel.c`, `autohide.c` | autohide state, hide timer, animation, holders, pointer | enter, leave, timer, popovers, swipes, reload | A popover closed in several ways. Stays while used, hides in the end | PanelAutohide |
| Notifications, `notifications/daemon.c`, `widgets/notifications.c`, `widgets/dnd.c` | toasts with timers, history, Do Not Disturb, the widgets' callbacks | Notify, Close, expire, swipe, click, reload | Callbacks into widgets that a reload destroyed; reused identifiers. Nothing pops up in Do Not Disturb; who is gone was told of | NotificationCenter |
| niri, `compositor/niri.c`, `widgets/workspaces.c`, `window.c`, `keyboard-layout.c` | workspaces, windows, layouts, the stream | lines of the stream, its end, reconnection, clicks | What was kept from before a reconnection. The shell has what niri has, the widgets show it | NiriStream |
| Configuration, shell, IPC, theme, settings pages: `config.c`, `shell.c`, `ipc/`, `theme.c`, `settings/`, `widgets/backlight.c`, `widgets/theme.c` | the file and who read it when; connections | save, reload, commands, pages, editing by hand | Several writers of one file that each write all of it. The shell has what the file says | ConfigReload |
| Player, `player/` | queue, shuffle, repeat; a mirror of mpv's state; full screen | load, next, volume, streams, MPRIS, HUD | Late events of the file before. The window shows what plays; a file ends once | MediaPlayer |
| Files, `files/` | history, list and selection, Quick Look, clipboard, operations in threads | navigate, filter, copy, move, trash, restore, rename, preview | A folder read in a thread while the window moves on. The window shows its folder; nothing touches a closed one | FileBrowser |

Also modelled, as parts: the writer that both protocol clients have in common
(`FramedWriter`) and what a client promises those who issue requests
(`RequestLedger`).

They meet like this. The debug session drives the adapter client and tells the
editor; buffers tell the language server manager, which drives a client per
server. The configuration's reload goes by the socket to the shell, which
reloads panel, widgets, idle manager, lock, posture and gestures in turn; each
model has the reload as one of its actions, with what it does to that part.
Touch gestures and the panel's swipes act on autohide; locking hides launcher
and keyboard; the posture decides when the keyboard comes by itself. Programs
(shell, settings, IDE, files, player, greeter) share only files and the socket.

### Not modelled, and why

- **Launcher**: lists what was typed matches; `SessionGuard` has that locking hides it.
- **Status widgets** (network, Bluetooth, battery, power, clock, CPU, privacy,
  custom-script), **media, tray, volume, control center, OSD**, and the settings
  pages that only call services: they show what a service outside reports. Tray
  items and players that go while their properties are fetched are the hazard here.
- **Syntax, Tree-sitter, Markdown, Mermaid, tasks, gutter, PDF, icons**: functions
  of a text or a picture, without state that lasts.
- **Launching of debuggers and servers** (`ide_dap_java.c`, `ide_dap_launch.c`,
  `ide_lsp_servers.c`): tables of commands; of the Java chain `DapSession` has the
  beginning and the end.
- **Sidebar of the file manager** (mounting), thumbnails; the greeter's preview mode.
- Hardware probes, data, protocols, vendored code, tests (read for what they say).

## 2. Modules

**DapSession** (`ide_dap.c`) joins the view and an adapter by two FIFO channels.
Each response callback and each event handler is an action (`OnStackTrace`,
`OnStopped`, ...), and so is each thing the user may do. A request carries the
generation it was asked in, as `IdeDapToken` does, and `TokenValid` is the code's
comparison. The adapter is a small program of its own: it reads requests, may
refuse those in `MayFail`, stops, goes on, and dies at any point. Of the Java
start only the call back at the end of the chain is modelled.

**FramedWriter**, **LspClient**, **DapClient**. The writer holds the queue and
the one write in flight; both clients EXTEND it. The clients have one action per
call of the owner and per completion (`ReadMessage`, `WriteCompletes`,
`ProcessExited`, `KillGraceElapsed`, ...). The callbacks of requests that fail
when a client dies may call the client again, as those of `ide_lsp.c` do; that
happens inside the action that empties the table. `DapClient` has both
transports, and writes that take a part of a message: what follows such a write
is a `torn` message that nobody can read.

**RequestLedger** is the abstract specification of both: a request is open, then
answered, failed or dropped; its callback runs when it is answered or failed,
once. Both clients refine it by the mapping `Status(c)` from their tables.

**LspDocSync** (`ide_lsp.c`) takes the client as it is promised there (in order,
nothing lost, requests fail when it dies) and models the documents: version,
`sent_open`, the debounce timer, which client they point to, and the server's
copies. A text is its revision.

**AgentReview** (`ide_buffer.c`, `ide_agent_ipc.c`, the callbacks of
`ide_window.c` that join them) models each file's buffer, what the file holds,
the monitor's reports that are yet to come, the requests of agents on their way
(each on a connection of its own, so in any order) and the transactions under
review.

**IdeInput** has the whole state machine as tables per mode, and the dispatch of
every action with what it does to modes, panes, popovers and the focus. Text and
rows are left out: an action that depends on them has the successors of each
case. Callbacks of the window's buttons and of popovers, and answers of servers
that come late, are actions of their own.

**SessionGuard** (`lock/`) models the lock object, its windows per monitor, the
PAM checks on their threads, the saver, the monitors' power, the three idle
notifications, Keep Awake with its two switches, logind, which may refuse the
inhibitor, and the reload.

**OnScreenKeyboard**, **Posture**, **TouchGestures** (`osk/`, `posture/`,
`hardware/touch_gestures.c`). A keymap is a table of what each code gives with
Shift and AltGr, so that labels and what is typed come from the same place as in
the code and may still differ. The inhibit files of `Posture` outlive a killed
shell; the hinge moves whenever it likes. A step of `TouchGestures` is one report
of the kernel, in millimetres, on a screen that may turn under the fingers.

**Greeter** (`greeter/`): greetd answers anything its protocol allows, while the
user, the monitors and restarts go on; users and sessions are listed by rank; what is
remembered is in two places, of which one may not be writable.

**PanelAutohide** (`autohide.c`, `panel.c`, the parts of `shell.c` and
`hardware/touch_gestures.c` that act on the panel) models the bar as a record and
each function of `autohide.c` as an operator on it. An animation has a beginning
and an end, no frames. A panel not higher than its strip is left out by
the assumption, since `config.c` does not reject one.

**NotificationCenter**: a toast is an identifier and the number of the call that
made it, for programs reuse identifiers. The reload of the panel's layout keeps,
creates, disables and destroys widgets as `shell.c` does, and the daemon's
callbacks hold pointers to them.

**NiriStream**: niri tells all it has when a stream begins and each change after
that; the stream ends at any point, with lines unread or not. Workspaces are
sorted stably by place, and closing a window takes out the first of its identifier.

**ConfigReload**: the file is shared by the shell, its widgets, the settings
pages, the editor and a hand; each reads all of it, changes its part and writes
all of it back. One setting stands for those of each page. Sections of widgets
are kept, because saving them is where the pages do more than an assignment.

**MediaPlayer**: mpv is a queue of commands and a queue of what it reports,
which is read in batches. **FileBrowser**: a folder is read by a thread whose
answer is one of several steps; operations on files are steps of threads, and
another program creates, removes and rewrites files in the same folders, of which
the window is told unless a file was rewritten in place or the folder is not watched.
The compositor may change the player's window while a request is on its way.

### Suites

`MC*` modules give constants their values. Parts that share no variable share a
run: `MCClients`, `MCBuffers`, `MCSession`, `MCShell` and `MCApps` extend one
module, instantiate the others, and let **one part move per behaviour**, chosen
by `part` in the initial state, while the others rest where they begin. The
states of the parts add up and do not multiply, and each part is explored as it
would be alone. A property of the suite is the conjunction of the named
properties of its module (`KeyboardFollows == Keyboard!TypesWhatItShows /\
Keyboard!ComesAndGoes`).

`*Proofs` modules hold the theorems about the modules they extend.
LspClientProofs has those of the run `clients`, AgentReviewProofs of `buffers`,
SessionGuardProofs of `session`, ShellProofs of `shell`, ApplicationsProofs of `apps`. Operators whose
names begin like a definition and go on to say what is wrong with it
(`UnlockOfAnother`, `LoadKeepingBaseline`, ...) are faults for mutation: replacing
the definition by one of them must violate a property. Nothing else uses them.

## 3. Runs

States are those TLC finds with the `.cfg` of the run; all bounds are CONSTANTS.

| Run | Bounds | Question |
|---|---|---|
| `dap_session` (2.5 M) | two frames, of which one can be shown; one line; process and socket; two sessions, two stops, one operation; `initialize`, `launch` and `configurationDone` may be refused | What the panel shows, the breakpoints the adapter holds, whose client is in use, and that STARTING ends or its refusal is told |
| `dap_session_revived` | one frame, one session, one stop, no operation | Violation: an ended session comes to life by an event under way |
| `clients` (0.9 M) | language server: two calls, one request of the server, which may close its output early; debug adapter: two requests, two messages, both transports, short writes | Order and grammar of the conversation, settling, one exit, the writers, the ledger of both, the end of both |
| `buffers` (0.6 M) | two files, three revisions, three operations; two documents, two edits, four operations, one replacement of the server | No silent drift, reverts restore, changes arrive in the editor and at the server, no pointer to a freed client |
| `lsp_doc_sync_tabs` | two documents as above | Violation: the other tab's document stays unopened after a replacement |
| `agent_review_unsaved` | one file | Violation: an agent's request discards unsaved edits |
| `agent_review_own_save` | one file | Violation: the editor's own save is put up for review |
| `session` (0.5 M) | two monitors, three configurations, two passwords, four events; two layouts of keys, ten keys, four events; three configurations of the tablet, two orientations, three events; four fingers, six reports, one turn; two lists of users and of sessions, two monitors, two prompts, five events | The lock is complete, checks end, Keep Awake; keys type what they show; devices follow the posture, and come back after a crash; swipes are recognised once; attempts to log in are clean and end |
| `session_guard_dark` | the default order of timeouts, three events | Violation: a timeout lights monitors that another one had switched off |
| `shell` (0.2 M) | two popovers, two heights, six events; three layouts of the panel, four operations on notifications; two windows, two titles, two lists of workspaces and of layouts, three events; one shipped file and two written by hand, three acts, one start | The panel stays while used and hides; notifications and their widgets agree; the shell follows niri, and the file |
| `apps` (0.8 M) | thirty-one keys, eleven commands of the palette, no bound on the number of keys; a folder of four files, three presses; two folders, of which one cannot be watched, a trash and an unreadable folder, three acts, one write of another program, in place or not | Keys go where the screen says; the player and its window agree; the folder shown is the folder, as far as its window is told |
| `files_prompt` | as the files of `apps` | Violation: the prompt deletes another file than the one it names |

What the properties of the suites are conjunctions of is in the `MC` module,
each part next to its code in the module it is defined in.

Why the bounds are enough to be interesting. Two sessions are needed for an
answer to arrive in the wrong one, two stops for a stack to be of the one before;
two calls to overtake one another, of which one may be made by a callback while
the table is being emptied; two documents because what goes wrong
concerns the one that is not in front, and one replacement because a second one
repeats the situation of the first; two monitors for one that comes while the
other is locked, two passwords for a check that outlives its lock, and
configurations in which each pair of timeouts comes in both orders or one is off;
three revisions for a text before, the agent's and the user's; two popovers so
that the panel is held by one when the other lets go, two heights for a reload
while it moves. Two layouts of keys differ in where "@" is, so that a change of
group must change labels and what is typed; three events of the tablet are a
fold, a crash and an unfold; four fingers are the largest gesture, and a fifth
finger is treated as the fourth. Three operations on notifications let a program
replace one, close it and use the identifier again, and the fourth changes the
layout under it. One list of workspaces has one more than the other, in another
order; two windows are as many as have a focus to lose. Three acts on the
configuration let one writer read, another write and the first write. The
player's folder has a file that plays, one with streams and chapters, a hidden
one and one that cannot be played. In the trash is a file with the name of
another, which a restore meets. `IdeInput` has no bound: its states are finite,
and each group of keys that a mode tells apart has one key.

Deadlock is not checked: every model stops when its bounded environment has
nothing more to do, and what must not stop is stated as a liveness property.

### Fairness

- The main loop runs callbacks that are ready (`ClientStep`, `ReadMessage`,
  `WriteCompletes`, `ProcessExited`, the stream of niri, `Complete` of the
  greeter): weak fairness. GLib dispatches sources of equal priority in turn, and
  no modelled callback blocks.
- Timers fire: the kill timer, the debounce timer, the hide timer, the timers of
  toasts (`TimersFire`), the hinge's poll (`Tick`), the one that opens niri's
  stream again (`Reconnect`); the frame clock of a mapped window runs
  (`AnimationEnds`).
- Services answer where the code relies on it and has no timeout of its own: a
  PAM check ends and the compositor answers a request for the lock
  (VerifyingEnds), greetd answers each message (AttemptEnds), inotify reports a
  change (ReachesEditor), a debug adapter serves what it has read (StartSettles)
  and leaves when its input was closed and it was killed (StopOfProcessIsHeard), a
  language server reads (EditsArrive). Where the code has a timeout of its own no
  fairness is assumed of the peer: a language server need not react to `shutdown`
  (StoppedServerLeaves rests on the kill timer).
- The user, agents, other programs, monitors, fingers, the compositor's changes
  and the death of processes have none; nobody need start a killed shell again.
  FollowsAgain and InputsReturn say what happens if niri stays up, or if in the end
  the shell runs and the hinge stays where it is.

### Disagreements the runs show

1. `dap_session_revived`: `on_dap_event` looks at no state, so `stopped` or
   `continued` after `end_session` makes the session active again.
2. `lsp_doc_sync_tabs`: documents not in front when a dead server was replaced are
   never opened with the new one.
3. `session_guard_dark`: with the default timeouts (saver, monitors off, lock) the
   lock stops the saver, which turns on the monitors that the DPMS timeout had
   switched off (`session_lock.c:708`, `screensaver.c:338`), and nothing switches
   them off again.
4. `agent_review_unsaved`: `on_agent_reload_cb` reloads a modified buffer, against
   `ide_buffer.c:770` ("never overwrite unsaved user edits").
5. `agent_review_own_save`: the flag that would make the monitor ignore the
   editor's own save is down again before the monitor reports it.
6. `files_prompt`: the prompt acts on what is selected when it is confirmed, not
   on what it named (`files_window.c:222`, `306`); when the folder is read again in
   between, the selection is another file.

### Others met while modelling, no run shows them

- Debugging: an event read after the exit was told is still handled
  (`ide_dap_client.c:257`, at most one: OneLateEvent); a breakpoint toggled in
  STARTING is sent only with the next stop or toggle (`ide_dap.c:433`; left out of
  BreakpointsAgree by name); a refused `configurationDone`
  leaves the panel in STARTING and is told on the console only (`ide_dap.c:447`;
  StartSettles says so); locals of the frame before may be shown under the one
  selected since (`ide_dap.c:222`); closing a socket with a write outstanding is
  refused and not tried again (`ide_dap_client.c:335`); a short write loses the
  rest (`ide_dap_client.c:152`); the host of a Java start is freed while its chain
  may go on (`ide_dap.c:668`).
- Language servers: one that closes its output and runs on is never killed,
  although `ide_lsp_client.h` promises it: the end of the output makes the client
  STOPPED, and `ide_lsp_client_stop` then returns at once
  (`ide_lsp_client.c:575`); the completion of a cancelled write stores into the
  freed client (`ide_lsp_client.c:185`); edits that never go through
  `notify_change` (`ide_buffer.c:782`, `1195`, `ide_search.c:998`, `1060`, `1143`,
  `ide_actions.c:583`, `ide_window.c:1019`, `ide_lsp.c:2282`); format edits for an
  older text (`ide_lsp.c:2371`); a request to format looks at the client and not at
  `sent_open`, so a server that replaced another is asked about a document it was
  not told of (`ide_lsp.c:2385-2408`; left out of AsksAboutCurrentText by name);
  SAVE_ALL sends no `didSave` (`ide_actions.c:725`).
- Buffers: saving ignores the collision flag (`ide_buffer.c:964`); SAVE_ALL writes
  unmodified buffers too, over a newer file (`ide_actions.c:725`); `reject_all`
  drops transactions whose write failed, and leaves an empty file where there was
  none; a snapshot taken by the monitor without a `diff` outlives ACCEPT ALL; the
  per-buffer revert (`ide_buffer.c:1189`) has no caller;
  `docs/kajo_ide_manual.md:395-407` names methods the socket does not have.
- The editor's keyboard, all of them behaviours of `IdeInput` that KeysGoToWhatIsShown
  leaves room for: F1 with a popover open leaves it open with HELP and then NORMAL,
  and the prompt of a rename then takes typed text (`ide_window.c:853`); a hover
  answered late takes the keys of the palette that is on the screen, a definition
  answered late ends INSERT (`ide_window.c:855`), a completion answered after Esc
  types into NORMAL; the tree's prompt stays after a click into the editor, without
  its mode, and 'd' then trashes; the hints show "g d Go to Definition" in TREE and
  SELECT, where d trashes and deletes (`ide_fsm.c:231-246`, `343-346`); the drawer's
  close button in DIFF_REVIEW keeps the mode; F1 with the debugger's field focused
  sends keys there; the header's Build button does not save the buffers and
  Space r b does; the search drawer keeps a pointer to a buffer that was closed
  (`ide_search.c:816`), and so does the popover (`ide_lsp.c:1056`, `1311-1330`).
- Locking: a check begun in one lock unlocks a later one (`session_lock.c:190`); a
  reload or Keep Awake destroys notifications that had fired, and their `resumed`
  with them (`idle_manager.c:331`); when logind refuses the inhibitor, or there is no
  bus, Keep Awake is shown as on without it and logind is not asked again
  (`idle_manager.c:238-281`; KeptAwake does not say that it is held, only that it is not
  when Keep Awake is off); an Unlock of logind while the lock is asked for
  is lost; IPC can start the saver over a locked session (`shell.c:135`).
- Tablet: the processes that rotate the screen are not waited for, so two
  rotations may be carried out in the other order (`posture_manager.c:62`); with
  Shift locked the keyboard types other characters than it shows (left out of
  TypesWhatItShows by name).
- Greeter: the choice is read from `/var/cache` when that cannot be written, and is
  then never remembered; two sessions of one identifier and different types are
  told apart nowhere; a monitor unplugged during an attempt rebuilds a card that
  can be used, so that what is saved may not be what was started; the worker has no
  timeout.
- Panel: a reload with another height while the panel slides out lets the running
  animation end at the old height (`autohide.c:199`): going from 48 to 32 pixels
  leaves no strip on the screen, against `autohide.c:150` ("keep active edge
  strip for motion enter"), until the next reload or swipe from the bezel; a
  popover that was open over a reload may be shown again without holding the panel.
- niri: radio buttons keep their old names when another list of layouts has as many
  (`keyboard-layout.c:117`); after a reconnection the title may be that of a window
  which is gone, until a line tells of the focus.
- Configuration: values out of range are kept by a load and replaced by a save;
  a second `kajo` activates the first again, which makes another ShellApp and
  leaks the one it had; collecting
  the rows of a page gives every custom script of a section the command of the
  first; a file that cannot be parsed makes a bare panel, and the next save writes
  over it; pages built once show old values (`page_ide.c:170` says that saving
  "reloads every running Kajo process", and `page_ide.c:204` sends no command).
- Player: Next pressed as the file ends skips one (`player_mpv.c:575`); chapters of
  the file before stay (`511`), and rows with the same identifiers keep their labels
  (`333`); two quick presses of speed or delay count once (`946`); MPRIS is not told
  of the volume (`player_mpris.c:319`), and its Seek starts playing; a file that
  cannot be played counts as playing and the queue stops; the controls stay after
  a popover (`player_window.c:193`), against `src/README.md:34`.
- Files: a folder that cannot be read leaves the items and the selection of the one
  before (`files_window.c:859`); a file rewritten in place keeps its old size and date
  in the list, for the monitor's report of a change is not heeded (`847-851`), and a
  folder that cannot be watched (`915-923`) is shown as it was when last read (both
  are left out of FilesInStep by name); moving and restoring overwrite silently
  (`files_ops.c:489`), two copies may choose one name (`363`), a folder copied into
  itself recurses; the clipboard forgets a cut whose move fails; a cancelled
  password is asked for again without end (`files_sidebar.c:231`), of two mounts at
  once the first is not answered (`154`); Quick Look stays open on an item that is
  gone when the folder becomes empty.

## 4. Proofs

Each theorem is for every value of the constants that the named assumptions
allow (bounds are naturals, sets are finite where they are counted), and for a
`Spec` whose fairness is not used. Every safety invariant and every action
property that a passing run checks is also a theorem. The
theorem states the definition that the run checks; where a suite checks the
property of an instance, a module with nothing but the instance and the property
(`AdapterClient`, `ServerDocs`, `Convertible`, `LoginScreen`, `ShellParts`,
`Applications`) stands between the two, so that both the `MC` module and the proofs extend it.

| Theorems | In | Inductive invariant, and why the property alone is not inductive |
|---|---|---|
| EndedShowsNothing, PanelAgrees | DapSessionProofs | `ScreenInv` (`Tokens`, `OldAnswers`): a stale answer could fill the panel, which ending a session prevents by a new generation. PanelAgrees adds `Numbered` (the numbers of requests rise along both channels), `AnswersOnPause`, `StopAnnounced` (a debuggee that is stopped has said so), `MarksArrive` (the breakpoints of the last message on its way are the editor's) and `PrepsInv` for the Java start. The theorem assumes, as the run does, that setBreakpoints is not refused (`MayFail`): after a refusal the code sends nothing again |
| ClientKeptDuringSession | DapSessionProofs | An action property, from the same types |
| StoppedSettles, KeepsLedger | LspClientProofs | `LedgerInv`: a request has no fate exactly while it is open or not made, its callback ran exactly if it was answered or failed. With it each action is a step of RequestLedger or a stutter |
| MessagesFollow | LspClientProofs | `MessageInv` = `Typing` / `Lifetime` / `NothingAsked` / `Conversation`: what was accepted is, in this order, read, written, in flight, queued or waiting for `initialize` |
| ExitIsClean, AdapterKeepsLedger | DapClientProofs | `LedgerInv`, `ExitInv` (what the exit leaves) and `WriterInv` (a queue that is not empty has its write in flight) |
| ServerKnowsTheText | LspDocSyncProofs | `Agrees`, by places on the wire: 0 is the server, i the i-th message. Each message fits the last place before it (`Sensible`), and the last of all tells what the manager believes (`Knows`). It says of messages under way what ServerFollows can only say when there are none. A request to format a document the server was not told of is possible only after a replacement |
| NoSilentDrift, RejectRestores, types | AgentReviewProofs | `Inv`: with `FirstTextKept`, a transaction holds the text from before its first edit |
| LockIsComplete, BusyHasACheck, KeptAwake, types | SessionGuardProofs | `LockInv`: LockIsComplete says nothing of a lock that was asked for and not answered; `AskedIsCovered` says that every monitor has its window by then. |
| InputsFollow | SessionGuardProofs | `Claimed`: a claim on the accelerometer left from before the posture was known would be carried over |
| KeyboardFollows | SessionGuardProofs | `Synchronized`: TypesWhatItShows is about the key typed last; that the next one is right rests on the labels and the compositor's modifiers being those of the moment. `Windowed`: no finger is on the key that hides |
| GesturesAreRight | SessionGuardProofs | `Tracked` and `Triggers`: OneSwipeATouch counts what a touch did and does not say why it does no more; `Triggers` ties it to the two flags that hold further swipes back. Lemmas on sums over finite sets carry the way of the fingers |
| AttemptsAreClean | SessionGuardProofs | `LoginInv`. `AttemptInv`: an answer was sent exactly when the worker holds that it was supplied, and whom greetd asks for is whom the attempt is for. `CardInv`: the surfaces are those of the monitors in their order; and while an attempt is made on the card it began on, that card cannot be touched, so that what is saved is what was started. `ListInv`: sessions are listed once each, niri first, by lemmas on the ranks of a finite order |
| StaysWhileUsed, WillHide, types | ShellProofs | Their conjunction with LocksCounted (the panel is held once by each open popover and by nothing else), by lemmas on what each function of `autohide.c` does to a panel that is `Good` |
| NotificationsFollow | ShellProofs | `DaemonInv` = `Screen` (toasts, identifiers, who was told) and `Mirror` (callbacks point to widgets there are, and these have the history) |
| ConfigurationsAgree | ShellProofs | `FilesAgree`: file, shell and sheet are well formed, and a shell that differs from the file has a reload to come or missed one. Two lemmas carry it: what a load returns is clean, and a clean layout is loaded as it is (`CleanStays`) |
| InSync | ShellProofs | `StreamInv`: InSync says nothing while lines wait. `KeepsUp` says that the lines that wait *lead* from what the shell has to what niri has (`Leads`: there is a history of views, one per line, each following from the one before), and that the checked button is right unless a line about layouts still waits |
| KeysGoToWhatIsShown, OnePopover | ApplicationsProofs | `Good`: a key is handled in two halves, mode first and then action. `Owed` is what the second half has to make good; the first leaves no more than that, row by row of its tables (`SafeTables`), and each action makes it good |
| TwoEscapesReachNormal | ApplicationsProofs | The same invariant: the escapes are computed in each state that is `Good` |
| FolderIsShown | ApplicationsProofs | `FilesInv`: the window reads the folder it is in, is told of each change but a rewriting in place if the folder can be watched, lists what it read by rank, and a file is the only one at its path (`Sound`), which every operation keeps |
| ClosedStaysClosed | ApplicationsProofs | `FilesInv`, and Quick Look goes with its window |
| PlayerFollows | ApplicationsProofs | `PlayerInv`: PlayerFollows says nothing of player and mpv while commands or events wait. `MpvObeys` and `LoadsIt` say that the last command of each kind, or mpv itself when none waits, is what the window shows (`Agrees`); `Mirrored` and `OfFile` that what is kept of mpv is so or is among what changed; `Heard` that the last of the events tell how the chosen file fared. While the window is not what the program takes it for, the last request to the compositor is for that (`ScreenInv`). `EndsBound`: an end that has not been acted on has not been counted as followed |

Three arguments recur. *Sequences without induction*: a queue is described by
places and the last place that matters, or by a history that is assumed and
extended, so that `Append` and `Tail` preserve it by a single step. *Induction
over data*, where it cannot be avoided (inserting into a sorted list, placing
toasts), is the least counterexample: naturals are well founded, and the least
index at which the claim fails gives the contradiction. *Sorting* is by ranks: the
item at place i is the one with i-1 items before it, which is how `SortedByIdx`,
the list of a folder, the player's siblings of a file and the greeter's users and
sessions are defined; it is stable, as `g_array_sort` and `g_ptr_array_sort` are.
That such a list has each item once is one lemma (`RankedLists`).

Assumptions on constants are what the code or the machine gives: `DiskAssumption`
(the disk begins with one file at a path), `PanelsAssumption`, `FilesAssumption`
(layouts and configurations are those a file may hold), `NiriAssumption`
(niri's lists have one entry per identifier), `LoginAssumption` (users and session
files come in lists, names have an order), `TouchAssumption`, `KeysAssumption`,
`CommandsAssumption` (the palette does not list an action that takes a number) and
`MoviesAssumption` (the player's folder has finitely many files of different names).
TLC evaluates each of them in the run of its suite.

What failed proofs said of the models. An extraction whose folder has no free
name would have put a second file at one path; the code then extracts into the
folder there is, and so does the model now. Closing a window takes out the first
window of its identifier, and workspaces are sorted by place with equal
ones left in niri's order. An identifier that a program made up and that the
daemon's counter reaches later belongs to two toasts for as long as both stay
(`daemon.c:332`); the property names that exception (`Kept`). AttemptsAreClean once
said that greetd has no other user's session when an attempt ends, which the
bounds of its run kept true: an attempt broken by the socket cancels nothing, and
when the next one, for another user, is refused, the old session is still there.
It now says so of a worker that talks to greetd. Two sessions of the identifier
"niri" are ordered by their names, as `compare_sessions` does.

Only model-checked is *liveness*, which is beyond the proof system here:
StartSettles, StoppedServerLeaves, StopOfProcessIsHeard, EditsArrive,
VerifyingEnds, ReachesEditor, AwayHides, InputsReturn, AttemptEnds, ToastsLeave,
FollowsAgain. A recursive operator, or a fold, is seen by the prover without its
definition; so what mpv reports is not folded into the player event by event: `Told`
names what the last of a batch leaves, and `Changes` what each property that changed
is now; the order of the events of a batch matters only between a start and a failure.
What IdeInput and its keys say has no bound, so TLC's answer is complete for the keys
and commands it is given; the theorems are for any others.

## 5. Assumptions and limits

- SessionGuard: `gtk4-session-lock` refuses a request while one is pending and
  emits `unlocked` before its call returns; notifications made together fire in
  the order of their timeouts; a compositor without the lock protocol is left out.
- AgentReview: files are neither deleted nor renamed, and are UTF-8; the monitor's
  reports of one file that are still to come count as one.
- LspDocSync: one server and one root; every server syncs whole documents.
- IdeInput: every buffer has a view; remapped keys (`ide_fsm.c:378-615`) are left
  out, nothing calls what sets one; an action that depends on text or rows may do
  any of the things it can do.
- OnScreenKeyboard: a compositor without the virtual keyboard protocol is left out.
- Posture: a hinge that can be read at a tick gives its angle in one of three
  ranges; the inhibit files can be written.
- TouchGestures: fingers move in strides from a few spots, along an axis.
- Greeter: greetd carries out what it answers with success; state files are written
  whole; no user is given by `--user` or `KAJO_GREETER_USER` (`main.c:966-977`).
- NotificationCenter: the daemon owns its name; NiriStream: lines are whole and the
  first connection succeeds, and an application is looked for by the titles of windows
  (`FocusApp` is the first of the four passes of `shell_compositor_focus_app`);
  ConfigReload: a save is not cut off half way.
- MediaPlayer: mpv carries out its commands in order, choosing a subtitle among
  them (`player_mpv.c:960` sets it at once), and pauses at the end of a file; subtitles
  are visible; FileBrowser: folders are flat, an operation is on a file or an empty folder.
- Time is order: a timer that is set may fire at once or late. Where two timers
  race, both orders are explored.
- Names, paths, layout and wording are left out, and so is the end of a program.
- Numbers do not overflow in what is modelled: versions, identifiers and
  generations are counted by events of a session.

## 6. Plan

What is left, in order:

1. Proofs: that DapClient implements a writer of its own (FramedWriter) for every
   transport.
2. The Java chain (`ide_dap_java.c`), so that a start that is freed under its chain
   is a step of the model; the media and tray widgets.
3. Composition: DapSession over DapClient (its channel implemented by the client),
   LspDocSync over LspClient.
