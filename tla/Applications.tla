----------------------------- MODULE Applications ----------------------------
(***************************************************************************)
(* The programs that run beside the editor, the media player and a window  *)
(* of the file manager, under names that stand beside the editor's.        *)
(***************************************************************************)
EXTENDS Integers, Sequences, FiniteSets

CONSTANTS
  Movies, Dropped, Presses,                       \* MediaPlayer
  Folders, Unreadable, Unwatched, Stored, Media, Dots, FileActs, FileWrites  \* FileBrowser

VARIABLES
  tracks, current, core, cmds, player_events, changed, player, player_win, mpris,
  screen, asked, ends, advances, presses,
  disk, files_win, reading, look, clip, jobs, acts, writes

Player == INSTANCE MediaPlayer WITH
  Folder <- Movies, Drops <- Dropped, MaxPresses <- Presses,
  events <- player_events, win <- player_win

Files == INSTANCE FileBrowser WITH
  MaxActs <- FileActs, MaxWrites <- FileWrites, win <- files_win

PlayerVars ==
  <<tracks, current, core, cmds, player_events, changed, player, player_win, mpris,
    screen, asked, ends, advances, presses>>
FilesVars ==
  <<disk, files_win, reading, look, clip, jobs, acts, writes>>

-----------------------------------------------------------------------------
\* The disk has finitely many files, one at a path, in folders there are, as are the
\* one the window begins in and the trash; names and sizes are ordered as numbers are.
ASSUME DiskAssumption ==
  /\ {"home", "trash"} \subseteq Folders
  /\ IsFiniteSet(Stored)
  /\ Stored \subseteq [dir : Folders, name : Int, data : Int,
                      from : [dir : Folders \cup {Files!Nowhere}, name : Int]]
  /\ \A r, s \in Stored : Files!Path(r) = Files!Path(s) => r = s

\* The player is given files of its folder, which has finitely many of different names.
ASSUME MoviesAssumption ==
  /\ Movies \in Seq([name : Int, media : BOOLEAN, hidden : BOOLEAN, broken : BOOLEAN,
                     long : Nat, subs : Nat, chapters : Nat])
  /\ \A t, u \in DOMAIN Movies : Movies[t].name = Movies[u].name => t = u
  /\ Dropped \subseteq Seq(DOMAIN Movies)

-----------------------------------------------------------------------------
\* The player shows the queue and the file as they are, a file that ends goes on to
\* the next one, once, and full screen, cursor and controls go together.
PlayerFollows ==
  /\ Player!PlayerInStep
  /\ Player!AdvancesOnce
  /\ Player!ScreenFollows
\* The window shows the files there are in a folder that can be watched, as they are but
\* for those rewritten in place, and Quick Look has the contents of the file it names.
FolderIsShown == Files!FilesInStep /\ Files!LookFollows
\* Nothing that completes later changes a closed window of the file manager.
ClosedStaysClosed == Files!ClosedStaysClosed
\* What is deleted or renamed is what the prompt named (files_window.c:306).
ActsOnWhatItNamed == Files!ActsOnWhatItNamed
=============================================================================
