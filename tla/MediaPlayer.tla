------------------------------ MODULE MediaPlayer ------------------------------
(***************************************************************************)
(* The media player: its queue (player_queue.c), what it keeps of mpv      *)
(* (player_mpv.c), its window (player_window.c) and what it tells other    *)
(* programs (player_mpris.c).  mpv is external: it carries out commands    *)
(* when it likes, pauses at the end of a file (keep-open), and reports     *)
(* events first and then the properties that have changed, as they are     *)
(* when they are read.                                                     *)
(***************************************************************************)
EXTENDS Integers, Sequences, FiniteSets

CONSTANTS
    Folder,         \* the files of a folder by name: [name, media, hidden, broken, long, subs, chapters]
    Drops,          \* what is opened at once: sequences of indices of Folder
    MaxPresses      \* bound on what the user does

VARIABLES
    tracks, current,    \* the queue, and its index (0: none)
    core,       \* mpv: [file, pause, eof, loop, volume, mute, speed, sub]
    cmds,       \* asynchronous commands on their way to mpv
    events, changed,    \* events, and properties that have changed, not yet read
    player,     \* KajoMpvState: [media, playing, paused, eof, error, dur, speed, list, chapters]
    win,        \* the window's fields
    mpris,      \* [media, playing, title, dur, volume]
    screen,     \* [full, window, header, deck, timer, popover]
    asked,      \* requests about full screen that the compositor has not answered
    ends, advances, \* files that played to their end, and what followed by itself
    presses

playback == <<tracks, current, core, cmds, events, changed, player, win, mpris, ends, advances>>
vars == <<playback, screen, asked, presses>>

None == 0
Properties == {"pause", "eof", "dur", "speed", "list", "chapters"}

\* The files of the folder, and nothing: no duration, tracks or chapters.
Info(t) ==
    IF t = None THEN [name |-> 0, media |-> FALSE, hidden |-> FALSE, broken |-> TRUE,
                      long |-> 0, subs |-> 0, chapters |-> 0]
    ELSE Folder[t]

Press == presses < MaxPresses /\ presses' = presses + 1

---------------------------------------------------------------------------
(* The queue.                                                              *)

\* kajo_player_is_supported_media, and the file that was asked for in any case.
Wanted(t, target) == t = target \/ (Folder[t].media /\ ~Folder[t].hidden)

\* kajo_player_queue_load_file_and_siblings: the folder, sorted by name.
Siblings(target) ==
    LET chosen == {t \in DOMAIN Folder : Wanted(t, target)}
        nth(k) == CHOOSE t \in chosen :
                      Cardinality({s \in chosen : Folder[s].name < Folder[t].name}) = k - 1
    IN  [k \in 1..Cardinality(chosen) |-> nth(k)]

\* kajo_player_queue_set_files: one file brings its folder along.
Filled(files) == IF Len(files) = 1 THEN Siblings(files[1]) ELSE files

---------------------------------------------------------------------------
(* The window.                                                             *)

\* A slip: which of them is chosen is left out.
HashOfStreams(list) == <<list.subs, 0>>

\* compute_tracks_hash looks at identifiers and what is selected, not at the file.
Hash(list) == <<list.subs, list.sub>>
NoHash == <<>>

Listed(w, pl) ==
    IF Hash(pl.list) = w.hash THEN w
    ELSE [w EXCEPT !.hash = Hash(pl.list), !.rows = pl.list]

\* rebuild_chapters_ui
Chaptered(w, pl) ==
    IF pl.chapters = w.count THEN w
    ELSE [w EXCEPT !.count = pl.chapters, !.chapterRows = pl.chapters]

\* kajo_player_mpris_update_track, sync_mpris_state
Synced(m, w, pl) ==
    [m EXCEPT !.media = pl.media, !.playing = pl.media /\ pl.playing,
              !.dur = IF pl.media THEN pl.dur ELSE 0, !.volume = w.volume]

\* update_transport_ui and update_stream_badge
Shown(w, t, pl) ==
    [w EXCEPT !.shows = [file |-> t, playing |-> pl.media /\ pl.playing, error |-> pl.error]]

Refreshed(w, t, pl) == Shown(Chaptered(Listed(w, pl), pl), t, pl)

\* A slip: the end of the file before is kept.
LoadFileAtEnd(pl) ==
    [pl EXCEPT !.media = TRUE, !.error = FALSE, !.dur = 0,
               !.list = [subs |-> 0, sub |-> 0], !.chapters = 0]

\* kajo_player_mpv_load_file: what is kept of the file before is forgotten.
LoadFile(pl) ==
    [pl EXCEPT !.media = TRUE, !.eof = FALSE, !.error = FALSE, !.dur = 0,
               !.list = [subs |-> 0, sub |-> 0], !.chapters = 0]

\* on_queue_track_selected.  The pause is lifted and the repetition set at once,
\* the rest goes to mpv as commands.
TrackSelected(q, i, pl, news) ==
    /\ tracks' = q /\ current' = i
    /\ player' = LoadFile(pl)
    /\ core' = [core EXCEPT !.pause = FALSE, !.loop = win.loop]
    /\ changed' = news \cup (IF core.pause THEN {"pause"} ELSE {})
    /\ cmds' = cmds \o <<[do |-> "volume", arg |-> win.volume],
                         [do |-> "mute", arg |-> IF win.muted THEN 1 ELSE 0],
                         [do |-> "load", arg |-> q[i]]>>
    /\ win' = Shown([win EXCEPT !.lastEof = FALSE, !.hash = NoHash, !.count = 0], q[i], player')
    /\ mpris' = [Synced(mpris, win, player') EXCEPT !.title = q[i]]

\* on_mpv_state_changed: a file that has ended is followed by the next of the queue.
Notified(pl) ==
    LET ended == pl.eof /\ ~win.lastEof /\ ~win.loop
    IN  IF ended /\ current + 1 <= Len(tracks)
        THEN TrackSelected(tracks, current + 1, pl, {}) /\ advances' = advances + 1
        ELSE /\ player' = pl
             /\ win' = Refreshed([win EXCEPT !.lastEof = pl.eof /\ (@ \/ ended)],
                                 IF current = 0 THEN None ELSE tracks[current], pl)
             /\ mpris' = Synced(mpris, win, pl)
             /\ changed' = {}
             /\ UNCHANGED <<tracks, current, core, cmds, advances>>

---------------------------------------------------------------------------
(* What mpv reports, read in the main loop.                                *)

\* The last event of those, and whether there is one.
Said(es, those) == \E i \in DOMAIN es : es[i] \in those
LastOf(es, those) ==
    es[CHOOSE i \in DOMAIN es :
          es[i] \in those /\ \A j \in DOMAIN es : j > i => es[j] \notin those]

\* The events one after the other: a file that starts clears the error, a file that
\* starts or is loaded the end of the one before, and one that was stopped nothing.
Told(pl, es) ==
    [pl EXCEPT !.error = IF Said(es, {"start", "failed"})
                         THEN LastOf(es, {"start", "failed"}) = "failed" ELSE @,
               !.media = @ \/ Said(es, {"start", "loaded"}),
               !.eof = @ /\ ~Said(es, {"start", "loaded"})]

\* handle_property_change; parse_track_list_node, parse_chapter_list_node.  Without
\* a file there is no end and no duration, and those that are kept stay.
Changes(pl, news) ==
    LET file == Info(core.file)
    IN  [pl EXCEPT
           !.paused = IF "pause" \in news THEN core.pause ELSE @,
           !.eof = IF "eof" \in news /\ core.file # None THEN core.eof ELSE @,
           !.dur = IF "dur" \in news /\ core.file # None THEN file.long ELSE @,
           !.speed = IF "speed" \in news THEN core.speed ELSE @,
           !.list = IF "list" \in news THEN [subs |-> file.subs, sub |-> core.sub] ELSE @,
           !.chapters = IF "chapters" \in news THEN file.chapters ELSE @]

\* on_main_thread_mpv_events, notify_state
ReadEvents ==
    /\ (events # <<>> \/ changed # {})
    /\ LET pl == Changes(Told(player, events), changed)
       IN  Notified([pl EXCEPT !.playing = pl.media /\ ~pl.paused /\ ~pl.eof])
    /\ events' = <<>>
    /\ UNCHANGED <<screen, asked, ends, presses>>

---------------------------------------------------------------------------
(* mpv.                                                                    *)

CoreLoads(t) ==
    /\ core' = [core EXCEPT !.file = IF Info(t).broken THEN None ELSE t, !.eof = FALSE, !.sub = 0]
    /\ events' = events \o (IF core.file = None THEN <<>> ELSE <<"stopped">>)
                        \o (IF Info(t).broken THEN <<"start", "failed">> ELSE <<"start", "loaded">>)
    /\ changed' = changed \cup {"eof", "dur", "list", "chapters"}

CoreSets(field, v, props) ==
    /\ core' = [core EXCEPT ![field] = v]
    /\ changed' = changed \cup (IF core[field] = v THEN {} ELSE props) /\ events' = events

CoreRuns ==
    /\ cmds # <<>> /\ cmds' = Tail(cmds)
    /\ LET c == Head(cmds)
       IN  \/ c.do = "load" /\ CoreLoads(c.arg)
           \/ c.do = "volume" /\ CoreSets("volume", c.arg, {})
           \/ c.do = "mute" /\ CoreSets("mute", c.arg = 1, {})
           \/ c.do = "pause" /\ CoreSets("pause", c.arg = 1, {"pause"})
           \/ c.do = "speed" /\ CoreSets("speed", c.arg, {"speed"})
           \/ c.do = "rewind" /\ CoreSets("eof", FALSE, {"eof"})
           \/ c.do = "sub" /\ CoreSets("sub", IF c.arg <= Info(core.file).subs THEN c.arg ELSE 0, {"list"})
    /\ UNCHANGED <<tracks, current, player, win, mpris, ends, advances, screen, asked, presses>>

\* The file is played to its end: it stays open, and paused.
CoreEnds ==
    /\ core.file # None /\ ~core.pause /\ ~core.eof /\ ~core.loop
    /\ ends < MaxPresses /\ ends' = ends + 1
    /\ core' = [core EXCEPT !.eof = TRUE, !.pause = TRUE]
    /\ changed' = changed \cup {"eof", "pause"}
    /\ UNCHANGED <<tracks, current, cmds, events, player, win, mpris, advances, screen, asked, presses>>

---------------------------------------------------------------------------
(* The user: buttons, keys, drops and the commands of other programs.      *)

Open(files) ==
    /\ Press /\ files # <<>>
    /\ LET q == Filled(files)
           i == IF Len(files) = 1 THEN CHOOSE k \in DOMAIN q : q[k] = files[1] ELSE 1
       IN  TrackSelected(q, i, player, changed)
    /\ UNCHANGED <<events, screen, asked, ends, advances>>

\* kajo_player_queue_next, _prev and a click on another row; the ends meet.
Pick(i) ==
    /\ Press /\ tracks # <<>> /\ TrackSelected(tracks, i, player, changed)
    /\ UNCHANGED <<events, screen, asked, ends, advances>>
NextTrack == tracks # <<>> /\ Pick((current % Len(tracks)) + 1)
PrevTrack == tracks # <<>> /\ Pick(((current + Len(tracks) - 2) % Len(tracks)) + 1)
RowSelected == \E i \in DOMAIN tracks : i # current /\ Pick(i)

Send(list) ==
    /\ Press /\ cmds' = cmds \o list
    /\ UNCHANGED <<tracks, current, core, events, changed, player, mpris, screen, asked,
                   ends, advances>>

Rewind == [do |-> "rewind", arg |-> 0]
SetPause(b) == [do |-> "pause", arg |-> IF b THEN 1 ELSE 0]

\* kajo_player_mpv_set_playing
SetPlaying(on) ==
    /\ player.media
    /\ Send((IF on /\ player.eof THEN <<Rewind>> ELSE <<>>) \o <<SetPause(~on)>>) /\ win' = win
TogglePlayPause == SetPlaying(~(player.media /\ ~player.paused /\ ~player.eof))
SeekBack == player.media /\ Send(<<Rewind>>) /\ win' = win

\* on_mpris_command: Stop pauses and goes to the beginning; Seek plays.
StopCommand == player.media /\ Send(<<SetPause(TRUE), Rewind>>) /\ win' = win

\* kajo_player_mpv_adjust_speed, from the speed that was last reported; the delays
\* and the scale of subtitles are changed in the same way.
AdjustSpeed(d) ==
    LET v == player.speed + d
    IN  v \in 1..3 /\ Send(<<[do |-> "speed", arg |-> v]>>) /\ win' = win

\* on_subs_row_activated, kajo_player_mpv_cycle_sub; audio streams are chosen alike.
SubsRowActivated ==
    \E n \in 0..win.rows.subs :
        Send(<<[do |-> "sub", arg |-> n]>>) /\ win' = [win EXCEPT !.hash = NoHash]

SetVolume(v) ==
    /\ Press /\ v # win.volume
    /\ cmds' = Append(cmds, [do |-> "volume", arg |-> v])
    /\ win' = [win EXCEPT !.volume = v]
    /\ mpris' = Synced(mpris, win', player)
    /\ UNCHANGED <<tracks, current, core, events, changed, player, screen, asked, ends, advances>>

ToggleMute ==
    /\ Send(<<[do |-> "mute", arg |-> IF win.muted THEN 0 ELSE 1]>>)
    /\ win' = [win EXCEPT !.muted = ~@]

ToggleLoop ==
    /\ Press /\ win' = [win EXCEPT !.loop = ~@]
    /\ core' = [core EXCEPT !.loop = ~win.loop]
    /\ UNCHANGED <<tracks, current, cmds, events, changed, player, mpris, screen, asked,
                   ends, advances>>

---------------------------------------------------------------------------
(* The whole screen, and what hides there.                                 *)

HideChrome(s) == IF s.full /\ ~s.popover THEN [s EXCEPT !.header = FALSE, !.deck = FALSE] ELSE s
Queue(s) == [s EXCEPT !.queue = s.wanted /\ ~s.full]

\* A slip: the controls hidden on the whole screen stay hidden.
ModeHidden(s, full) ==
    IF s.full = full THEN s
    ELSE IF full THEN HideChrome(Queue([s EXCEPT !.full = TRUE, !.timer = FALSE]))
    ELSE Queue([s EXCEPT !.full = FALSE, !.timer = FALSE])

\* set_fullscreen_mode
Mode(s, full) ==
    IF s.full = full THEN s
    ELSE IF full THEN HideChrome(Queue([s EXCEPT !.full = TRUE, !.timer = FALSE]))
    ELSE Queue([s EXCEPT !.full = FALSE, !.timer = FALSE, !.header = TRUE, !.deck = TRUE])

ToggleFullscreen ==
    /\ Press /\ screen' = Mode(screen, ~screen.full)
    /\ asked' = IF screen.window = screen'.full THEN asked ELSE Append(asked, screen'.full)
    /\ UNCHANGED playback

\* A slip: what the compositor does is not heeded while a request is on its way.
FullscreenedUnheeded(full) ==
    /\ screen' = [(IF asked = <<>> THEN Mode(screen, full) ELSE screen) EXCEPT !.window = full]
    /\ UNCHANGED playback

\* on_window_fullscreened_notify, which comes when the window's state is another one: the
\* compositor has done what was asked first, or acted on its own, also before that.
Fullscreened(full) ==
    /\ screen' = IF full = screen.window THEN screen ELSE [Mode(screen, full) EXCEPT !.window = full]
    /\ UNCHANGED playback
Answered == asked # <<>> /\ asked' = Tail(asked) /\ presses' = presses /\ Fullscreened(Head(asked))
ByCompositor(full) == Press /\ full # screen.window /\ asked' = asked /\ Fullscreened(full)

\* on_pointer_motion, in the zone below, above or between.
Motion(zone) ==
    /\ Press /\ screen.full
    /\ screen' = IF screen.popover THEN [screen EXCEPT !.deck = TRUE]
                 ELSE [screen EXCEPT !.deck = zone = "bottom", !.header = zone = "top", !.timer = TRUE]
    /\ UNCHANGED <<playback, asked>>

\* seek_relative_seconds shows the deck.
SeekBy ==
    /\ Press /\ screen' = IF screen.full THEN [screen EXCEPT !.deck = TRUE, !.timer = TRUE] ELSE screen
    /\ cmds' = IF player.media THEN Append(cmds, Rewind) ELSE cmds
    /\ UNCHANGED <<tracks, current, core, events, changed, player, win, mpris, ends, advances, asked>>

HudTimeout ==
    /\ screen.timer /\ screen' = HideChrome([screen EXCEPT !.timer = FALSE])
    /\ UNCHANGED <<playback, asked, presses>>

Popover ==
    /\ Press /\ (screen.popover \/ screen.deck)
    /\ screen' = [screen EXCEPT !.popover = ~@] /\ UNCHANGED <<playback, asked>>

ToggleDrawer ==
    /\ Press /\ screen' = Queue([screen EXCEPT !.wanted = ~@]) /\ UNCHANGED <<playback, asked>>

---------------------------------------------------------------------------
Init ==
    /\ tracks = <<>> /\ current = 0 /\ cmds = <<>> /\ events = <<>> /\ changed = {}
    /\ core = [file |-> None, pause |-> FALSE, eof |-> FALSE, loop |-> FALSE, volume |-> 2,
               mute |-> FALSE, speed |-> 2, sub |-> 0]
    /\ player = [media |-> FALSE, playing |-> FALSE, paused |-> FALSE, eof |-> FALSE,
                 error |-> FALSE, dur |-> 0, speed |-> 2,
                 list |-> [subs |-> 0, sub |-> 0], chapters |-> 0]
    /\ win = [lastEof |-> FALSE, loop |-> FALSE, volume |-> 2, muted |-> FALSE,
              hash |-> NoHash, count |-> 0, rows |-> player.list, chapterRows |-> player.chapters,
              shows |-> [file |-> None, playing |-> FALSE, error |-> FALSE]]
    /\ mpris = [media |-> FALSE, playing |-> FALSE, title |-> None, dur |-> 0, volume |-> 2]
    /\ screen = [full |-> FALSE, window |-> FALSE, header |-> TRUE, deck |-> TRUE,
                 timer |-> FALSE, popover |-> FALSE, queue |-> TRUE, wanted |-> TRUE]
    /\ asked = <<>> /\ ends = 0 /\ advances = 0 /\ presses = 0

Next ==
    \/ ReadEvents \/ CoreRuns \/ CoreEnds
    \/ \E files \in Drops : Open(files)
    \/ NextTrack \/ PrevTrack \/ RowSelected
    \/ \E on \in BOOLEAN : SetPlaying(on)
    \/ TogglePlayPause \/ SeekBack \/ StopCommand
    \/ \E d \in {-1, 1} : AdjustSpeed(d)
    \/ SubsRowActivated \/ ToggleMute \/ ToggleLoop
    \/ \E v \in 1..2 : SetVolume(v)
    \/ ToggleFullscreen \/ Answered \/ HudTimeout \/ Popover \/ ToggleDrawer \/ SeekBy
    \/ \E full \in BOOLEAN : ByCompositor(full)
    \/ \E zone \in {"bottom", "top", "middle"} : Motion(zone)

Spec == Init /\ [][Next]_vars

---------------------------------------------------------------------------
(* Properties.                                                             *)

\* When mpv has done what it was told and all it said was read, it plays the file
\* of the queue, and the window and the other programs show just that: title,
\* length, playing or not, as many subtitles as it has and the one chosen.  (Only
\* the number: the rows of a file with the same streams are kept with its labels.
\* A file that cannot be played counts as playing, with an error; and the
\* chapters of the file before stay when a file has none.)
Quiet == cmds = <<>> /\ events = <<>> /\ changed = {}
PlayerInStep ==
    Quiet /\ current > 0 =>
        LET t == tracks[current]
            playing == ~core.pause /\ ~core.eof
        IN  /\ mpris.title = t /\ win.shows.file = t
            /\ core.volume = win.volume /\ core.mute = win.muted /\ core.loop = win.loop
            /\ mpris.volume = win.volume /\ player.speed = core.speed
            /\ player.error = Info(t).broken
            /\ ~Info(t).broken =>
                 /\ core.file = t
                 /\ player.eof = core.eof /\ mpris.playing = playing /\ win.shows.playing = playing
                 /\ mpris.dur = Info(t).long
                 /\ win.rows = [subs |-> Info(t).subs, sub |-> core.sub]
                 /\ Info(t).chapters > 0 => win.chapterRows = Info(t).chapters

\* Each end of a file is followed by one file at the most.
AdvancesOnce == advances <= ends

\* The window is what the compositor made of it when that has answered; all of its
\* parts are there when it is not the whole screen, the queue is not when it is.
ScreenFollows ==
    /\ asked = <<>> => screen.full = screen.window
    /\ ~screen.full => screen.header /\ screen.deck /\ ~screen.timer
    /\ screen.queue = (screen.wanted /\ ~screen.full)

=============================================================================
