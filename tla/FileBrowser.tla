------------------------------ MODULE FileBrowser ------------------------------
(***************************************************************************)
(* A window of the file manager: where it is and has been, the folder read *)
(* by a worker thread, the filtered and sorted view with its selection,    *)
(* Quick Look, the prompt and the menu, and the operations on files that   *)
(* run in threads (files_window*.c, files_ops.c, files_quicklook.c,        *)
(* files_model.c).  The disk is external: others write to it as well.      *)
(***************************************************************************)
EXTENDS Integers, Sequences, FiniteSets, SequencesExt

CONSTANTS
    Folders,        \* the folders there are, "trash" among them
    Unreadable,     \* those that cannot be read
    Unwatched,      \* those that cannot be watched: GIO has no monitor for them
    Stored,         \* what the disk holds at first: [dir, name, data, from]
    Media,          \* the data that is sound or video
    Dots,           \* names that are hidden
    MaxActs,        \* bound on what the user does
    MaxWrites       \* bound on what other programs do

VARIABLES
    disk,           \* a set of [dir, name, data, from]; from: where it was trashed
    win,            \* the window
    reading,        \* the enumeration: [step, dir, got]
    look,           \* Quick Look: [open, shows, loads, text, plays]
    clip,           \* the clipboard: [file, cut]
    jobs,           \* operations in threads: [do, file, to, named, step]
    acts,
    writes          \* of other programs: how many, and the files that were rewritten in
                    \* place since a folder was read last (history)

vars == <<disk, win, reading, look, clip, jobs, acts, writes>>

Nowhere == ""
NoPath == [dir |-> Nowhere, name |-> 0]
Nothing == [dir |-> Nowhere, name |-> 0, data |-> 0]
Path(e) == [dir |-> e.dir, name |-> e.name]
At(p) == {r \in disk : Path(r) = p}
Plain(p, data) == [dir |-> p.dir, name |-> p.name, data |-> data, from |-> NoPath]
NewFolder == 99

Act == acts < MaxActs /\ acts' = acts + 1 /\ writes' = writes

---------------------------------------------------------------------------
(* The view.                                                               *)

\* kajo_file_item_matches_filter
Matches(w, e) == (w.hidden \/ e.name \notin Dots) /\ w.query \in {0, e.name}

\* kajo_file_item_compare_full: equal sizes are ordered by name, from the first.
Before(w, a, b) ==
    LET less(x, y) == IF w.asc THEN x < y ELSE y < x
    IN  IF w.by = "size" /\ a.data # b.data THEN less(a.data, b.data)
        ELSE IF w.by = "size" THEN a.name < b.name
        ELSE less(a.name, b.name)

\* A slip: the reads for the file before are not cancelled.
PopulateOver(l, e) ==
    [l EXCEPT !.shows = e, !.text = Nothing,
              !.plays = IF e.data \in Media THEN e.data ELSE 0,
              !.loads = IF e.data \in Media THEN @ ELSE @ \cup {e}]

\* populate_quicklook_modal
Populate(l, e) ==
    [l EXCEPT !.shows = e, !.text = Nothing,
              !.plays = IF e.data \in Media THEN e.data ELSE 0,
              !.loads = IF e.data \in Media THEN {} ELSE {e}]

\* kajo_quicklook_set_item: with no item, an open Quick Look stays as it is.
SetItem(l, e) == IF e = Nothing \/ ~l.open THEN l ELSE Populate(l, e)

Hidden(l) == [l EXCEPT !.open = FALSE, !.loads = {}, !.plays = 0]

\* The place of an entry is after those that come before it.
Sorted(w, es) ==
    [i \in 1..Cardinality(es) |->
        CHOOSE e \in es : Cardinality({d \in es : Before(w, d, e)}) = i - 1]

\* files_window_rebuild_filtered_view: the items are compared by identity, so the
\* selection is kept when the same items are filtered or sorted anew, and not when
\* they were read again.
Rebuilt(w, again) ==
    LET view == Sorted(w, {e \in w.all : Matches(w, e)})
        kept == ~again /\ w.sel \in ToSet(view)
    IN  [w EXCEPT !.view = view, !.page = IF view = <<>> THEN "empty" ELSE "items",
                  !.sel = IF view = <<>> THEN Nothing ELSE IF kept THEN w.sel ELSE view[1]]

Show(w) == win' = w /\ look' = SetItem(look, w.sel)

---------------------------------------------------------------------------
(* Reading the folder.                                                     *)

NotReading == [step |-> "none", dir |-> Nowhere, got |-> {}]

\* A slip: an enumeration that runs is left to end.
ReloadOnce(dir) ==
    reading' = IF reading = NotReading THEN [step |-> "started", dir |-> dir, got |-> {}]
               ELSE reading

\* files_window_reload_directory: cancels the enumeration, watches and starts anew.
Reload(dir) == reading' = [step |-> "started", dir |-> dir, got |-> {}]

\* enumerate_thread_cb
Enumerate ==
    /\ reading.step = "started"
    /\ reading' = [reading EXCEPT
          !.step = IF reading.dir \in Unreadable THEN "failed" ELSE "read",
          !.got = {[dir |-> r.dir, name |-> r.name, data |-> r.data] :
                      r \in {x \in disk : x.dir = reading.dir}}]
    /\ writes' = [writes EXCEPT !.inplace = {}]
    /\ UNCHANGED <<disk, win, look, clip, jobs, acts>>

\* on_directory_enumerated: after an error the items, and the selection, are those
\* of the folder before.
Enumerated ==
    /\ reading.step \in {"read", "failed"} /\ reading' = NotReading
    /\ IF reading.step = "failed" THEN win' = [win EXCEPT !.page = "error", !.failed = TRUE] /\ look' = look
       ELSE Show(Rebuilt([win EXCEPT !.all = reading.got, !.of = win.dir, !.failed = FALSE], TRUE))
    /\ UNCHANGED <<disk, clip, jobs, acts, writes>>

\* on_dir_monitor_debounce_timeout
Debounced ==
    /\ win.open /\ win.timer /\ win' = [win EXCEPT !.timer = FALSE]
    /\ Reload(win.dir) /\ UNCHANGED <<disk, look, clip, jobs, acts, writes>>

\* on_dir_monitor_changed, for what is created, removed or renamed there.
Watched(dirs) ==
    IF win.open /\ win.dir \in dirs \ Unwatched THEN [win EXCEPT !.timer = TRUE] ELSE win

\* What another program creates or removes, or rewrites in place: the report of a file
\* that has changed is ignored.
Elsewhere ==
    /\ writes.count < MaxWrites
    /\ \E d \in Folders \ {"trash"}, n \in {1, 2} :
          LET p == [dir |-> d, name |-> n]
              new == Plain(p, 50 + writes.count)
          IN  \/ /\ disk' = IF At(p) = {} THEN disk \cup {new} ELSE disk \ At(p)
                 /\ win' = Watched({d}) /\ writes' = [writes EXCEPT !.count = @ + 1]
              \/ /\ At(p) # {} /\ disk' = (disk \ At(p)) \cup {new} /\ win' = win
                 /\ writes' = [count |-> writes.count + 1, inplace |-> writes.inplace \cup {p}]
    /\ UNCHANGED <<reading, look, clip, jobs, acts>>

---------------------------------------------------------------------------
(* Where the window is.                                                    *)

\* kajo_files_window_navigate_uri
Went(w, dir) ==
    [w EXCEPT !.dir = dir, !.history = Append(SubSeq(@, 1, w.pos), dir), !.pos = @ + 1]

Back(w) == [w EXCEPT !.pos = @ - 1, !.dir = w.history[w.pos - 1]]
Forth(w) == [w EXCEPT !.pos = @ + 1, !.dir = w.history[w.pos + 1]]

Move(w) == Act /\ win.open /\ win' = w /\ Reload(w.dir) /\ UNCHANGED <<disk, look, clip, jobs>>

\* Places, breadcrumbs, the address, Up, and a folder that is opened.
Navigate == \E d \in Folders : Move(Went(win, d))
GoBack == win.pos > 1 /\ Move(Back(win))
GoForward == win.pos < Len(win.history) /\ Move(Forth(win))
Refresh == Move(win)

View(w) == Act /\ win.open /\ Show(Rebuilt(w, FALSE)) /\ UNCHANGED <<disk, reading, clip, jobs>>
ToggleHidden == View([win EXCEPT !.hidden = ~@])
Search == \E q \in {0, 1} : q # win.query /\ View([win EXCEPT !.query = q])

\* select_or_toggle_sort_field; sizes begin with the largest.
SortBy(field) ==
    View([win EXCEPT !.by = field, !.asc = IF win.by = field THEN ~@ ELSE field = "name"])

\* Arrows in the view and in Quick Look, a click.
Select ==
    /\ Act /\ win.open /\ win.page = "items"
    /\ \E e \in ToSet(win.view) \ {win.sel} : Show([win EXCEPT !.sel = e])
    /\ UNCHANGED <<disk, reading, clip, jobs>>

---------------------------------------------------------------------------
(* Quick Look.                                                             *)

Looks(l) == Act /\ win.open /\ look' = l /\ UNCHANGED <<disk, win, reading, clip, jobs>>
LookAt == ~look.open /\ win.sel # Nothing /\ Looks(Populate([look EXCEPT !.open = TRUE], win.sel))
LookAway == look.open /\ Looks(Hidden(look))

\* on_text_bytes_ready, on_folder_preview_enum_ready
PreviewReady ==
    /\ \E e \in look.loads : look' = [look EXCEPT !.text = e, !.loads = @ \ {e}]
    /\ UNCHANGED <<disk, win, reading, clip, jobs, acts, writes>>

---------------------------------------------------------------------------
(* Operations.                                                             *)

Start(do, file, to, named) ==
    jobs' = Append(jobs, [do |-> do, file |-> file, to |-> to, named |-> named, step |-> "queued"])

Ask(w) == Act /\ win.open /\ ~look.open /\ win' = w
          /\ UNCHANGED <<disk, reading, look, clip, jobs>>

\* files_window_show_inline_prompt: a rename or a deletion needs a selection.
Prompt ==
    \E kind \in {"mkdir", "rename", "delete"} :
        Ask([win EXCEPT !.prompt = kind,
                        !.says = IF kind = "mkdir" \/ win.sel = Nothing THEN @ ELSE Path(win.sel)])
Cancelled == win.prompt # "none" /\ Ask([win EXCEPT !.prompt = "none"])

\* open_context_menu_at, for an item or the folder
OpenMenu == win.page = "items" /\ Ask([win EXCEPT !.menu = Path(win.sel)])

\* on_prompt_submit_clicked: acts on what is selected by now.
Submit ==
    /\ Act /\ win.open /\ ~look.open /\ win.prompt # "none"
    /\ win' = [win EXCEPT !.prompt = "none"]
    /\ CASE win.prompt = "mkdir" -> Start("mkdir", [dir |-> win.dir, name |-> 3], NoPath, NoPath)
         [] win.prompt # "mkdir" /\ win.sel # Nothing ->
               Start(win.prompt, Path(win.sel), [dir |-> win.sel.dir, name |-> 4], win.says)
         [] OTHER -> jobs' = jobs
    /\ UNCHANGED <<disk, reading, look, clip>>

Operate(do, file, to, named) ==
    /\ Act /\ win.open /\ Start(do, file, to, named)
    /\ win' = [win EXCEPT !.menu = NoPath] /\ UNCHANGED <<disk, reading, look, clip>>

\* files_window_trash_selected_item, by its key or in the menu.
Trash ==
    /\ win.sel # Nothing /\ win.dir # "trash"
    /\ \E named \in {NoPath, win.menu} : Operate("trash", Path(win.sel), NoPath, named)

\* on_trash_restore_clicked; the item was listed with the path it had.
Restore ==
    /\ win.sel # Nothing
    /\ \E r \in At(Path(win.sel)) : r.from # NoPath /\ Operate("restore", Path(r), r.from, NoPath)
EmptyTrash == win.of = "trash" /\ Operate("empty", NoPath, NoPath, NoPath)
Extract == win.sel # Nothing /\ Operate("extract", Path(win.sel), [dir |-> win.dir, name |-> 3], NoPath)

\* kajo_files_clipboard_set
Copy(cut) ==
    /\ Act /\ win.open /\ win.sel # Nothing
    /\ clip' = [file |-> Path(win.sel), cut |-> cut] /\ UNCHANGED <<disk, win, reading, look, jobs>>

\* kajo_files_clipboard_paste_async: what was cut is pasted once.
Paste ==
    /\ Act /\ win.open /\ clip.file # NoPath
    /\ Start(IF clip.cut THEN "move" ELSE "copy", clip.file,
             [dir |-> win.dir, name |-> clip.file.name], NoPath)
    /\ clip' = IF clip.cut THEN [file |-> NoPath, cut |-> FALSE] ELSE clip
    /\ UNCHANGED <<disk, win, reading, look>>

---------------------------------------------------------------------------
(* The worker of an operation.                                             *)

\* resolve_unique_dest_child: the name, or one with a number; bounded here by 4.
Unique(p) ==
    LET free == {n \in {p.name + 10 * k : k \in 0..3} : At([dir |-> p.dir, name |-> n]) = {}}
    IN  [dir |-> p.dir, name |-> IF free = {} THEN p.name
                                 ELSE CHOOSE n \in free : \A m \in free : n <= m]

\* copy_file_recursive_sync, g_file_move and g_file_trash; folders are not replaced.
Fits(from, to) ==
    At(from) # {} /\ \A r \in At(from), s \in At(to) : NewFolder \notin {r.data, s.data}
Moved(from, to, origin) ==
    (disk \ (At(from) \cup At(to))) \cup
        {[Plain(to, r.data) EXCEPT !.from = origin] : r \in At(from)}
Copied(from, to) == (disk \ At(to)) \cup {Plain(to, r.data) : r \in At(from)}

Wrote(i, d, dirs) == disk' = d /\ jobs' = [jobs EXCEPT ![i].step = "done"] /\ win' = Watched(dirs)
\* What can be done is done, or fails.
Does(i, can, d, dirs) == (can /\ Wrote(i, d, dirs)) \/ Wrote(i, disk, {})

\* batch_op_worker, and the renaming and the folder that GIO makes by itself.
Work(i) ==
    LET j == jobs[i]
        bin == Unique([dir |-> "trash", name |-> j.file.name])
        both == {j.file.dir, j.to.dir}
    IN  /\ j.step \in {"queued", "resolved"}
        /\ \/ j.do = "trash" /\ Does(i, At(j.file) # {}, Moved(j.file, bin, j.file), {j.file.dir, "trash"})
           \/ j.do = "delete" /\ Does(i, At(j.file) # {}, disk \ At(j.file), both)
           \/ j.do = "restore" /\ Does(i, Fits(j.file, j.to), Moved(j.file, j.to, NoPath), both)
           \/ j.do = "rename" /\ Does(i, At(j.file) # {} /\ At(j.to) = {}, Moved(j.file, j.to, NoPath), both)
           \/ j.do = "mkdir" /\ Does(i, At(j.file) = {}, disk \cup {Plain(j.file, NewFolder)}, both)
           \/ /\ j.do = "extract"      \* into the folder there is, if no name is free
              /\ Does(i, At(j.file) # {} /\ At(Unique(j.to)) = {},
                      disk \cup {Plain(Unique(j.to), NewFolder)}, both)
           \/ j.do = "move" /\ Does(i, j.file # j.to /\ Fits(j.file, j.to), Moved(j.file, j.to, NoPath), both)
           \/ /\ j.do = "copy" /\ j.step = "queued"
              /\ jobs' = [jobs EXCEPT ![i].to = Unique(j.to), ![i].step = "resolved"]
              /\ UNCHANGED <<disk, win>>
           \/ /\ j.do = "copy" /\ j.step = "resolved"
              /\ Does(i, At(j.file) # {}, Copied(j.file, j.to), {j.to.dir})
           \/ /\ j.do = "empty"
              /\ \/ \E r \in disk : r.dir = "trash" /\ disk' = disk \ {r} /\ jobs' = jobs
                                    /\ win' = Watched({"trash"})
                 \/ Wrote(i, disk, {})         \* nothing is left, or a deletion fails
        /\ UNCHANGED <<reading, look, clip, acts, writes>>

\* A slip: the window is not looked for before it is used.
OpCompletedRaw(i) ==
    /\ jobs[i].step = "done" /\ jobs' = [k \in 1..(Len(jobs) - 1) |-> jobs[IF k < i THEN k ELSE k + 1]]
    /\ Reload(win.dir) /\ UNCHANGED <<disk, win, look, clip, acts, writes>>

\* files_window_on_file_op_completed: nothing, when the window is gone.
OpCompleted(i) ==
    /\ jobs[i].step = "done" /\ jobs' = [k \in 1..(Len(jobs) - 1) |-> jobs[IF k < i THEN k ELSE k + 1]]
    /\ IF win.open THEN Reload(win.dir) ELSE reading' = reading
    /\ UNCHANGED <<disk, win, look, clip, acts, writes>>

\* kajo_files_window_dispose
Close ==
    /\ Act /\ win.open
    /\ win' = [win EXCEPT !.open = FALSE, !.timer = FALSE]
    /\ reading' = NotReading /\ look' = Hidden(look)
    /\ UNCHANGED <<disk, clip, jobs>>

---------------------------------------------------------------------------
Init ==
    /\ disk = Stored
    /\ win = [open |-> TRUE, dir |-> "home", of |-> Nowhere, page |-> "empty", all |-> {}, view |-> <<>>,
              sel |-> Nothing, hidden |-> FALSE, query |-> 0, by |-> "name", asc |-> TRUE,
              timer |-> FALSE, failed |-> FALSE, history |-> <<"home">>, pos |-> 1, prompt |-> "none",
              says |-> NoPath, menu |-> NoPath]
    /\ reading = [step |-> "started", dir |-> "home", got |-> {}]
    /\ look = [open |-> FALSE, shows |-> Nothing, loads |-> {}, text |-> Nothing, plays |-> 0]
    /\ clip = [file |-> NoPath, cut |-> FALSE] /\ jobs = <<>> /\ acts = 0
    /\ writes = [count |-> 0, inplace |-> {}]

Next ==
    \/ Enumerate \/ Enumerated \/ Debounced \/ Elsewhere
    \/ Navigate \/ GoBack \/ GoForward \/ Refresh
    \/ ToggleHidden \/ Search \/ Select
    \/ \E field \in {"name", "size"} : SortBy(field)
    \/ LookAt \/ LookAway \/ PreviewReady
    \/ Prompt \/ Cancelled \/ OpenMenu \/ Submit
    \/ Trash \/ Restore \/ EmptyTrash \/ Extract
    \/ \E cut \in BOOLEAN : Copy(cut)
    \/ Paste
    \/ \E i \in DOMAIN jobs : Work(i) \/ OpCompleted(i)
    \/ Close

Spec == Init /\ [][Next]_vars

---------------------------------------------------------------------------
(* Properties.                                                             *)

InDir == {[dir |-> r.dir, name |-> r.name, data |-> r.data] : r \in {x \in disk : x.dir = win.dir}}
Told(es) == {e \in es : Path(e) \notin writes.inplace}

\* A window at rest shows files of the folder it is in, and those there are, if the
\* folder can be watched: each as it is on the disk, but for those that were rewritten
\* in place since it was read, of which the window is not told.  The selection is in
\* the view and the place in the history is where the window is.  (A folder that
\* cannot be read leaves the items of the one before, and one of them selected.)
FilesInStep ==
    /\ win.history[win.pos] = win.dir
    /\ win.open /\ reading = NotReading /\ ~win.timer /\ ~win.failed =>
         /\ win.of = win.dir /\ \A e \in win.all : e.dir = win.dir
         /\ win.dir \notin Unwatched =>
               /\ {Path(e) : e \in win.all} = {Path(e) : e \in InDir}
               /\ Told(win.all) = Told(InDir)
         /\ ToSet(win.view) = {e \in win.all : Matches(win, e)}
         /\ IF win.view = <<>> THEN win.sel = Nothing ELSE win.sel \in ToSet(win.view)

\* Quick Look shows what is selected, if anything is: its text and no other, and
\* nothing is played or read when it is closed.
LookFollows ==
    /\ look.open /\ win.sel # Nothing =>
         /\ look.shows = win.sel /\ look.text \in {Nothing, win.sel}
         /\ look.plays = IF win.sel.data \in Media THEN win.sel.data ELSE 0
    /\ ~look.open => look.loads = {} /\ look.plays = 0

\* A window that was closed is not used by what ends later.
ClosedStaysClosed == [][~win.open => UNCHANGED <<win, reading, look>>]_vars

\* What the prompt named is what is deleted or renamed, what the menu was opened
\* for is what it trashes.
ActsOnWhatItNamed == \A i \in DOMAIN jobs : jobs[i].named \in {NoPath, jobs[i].file}
=============================================================================
