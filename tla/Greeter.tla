------------------------------- MODULE Greeter -------------------------------
(***************************************************************************)
(* The login screen (greeter/main.c), its thread that talks to greetd      *)
(* (greeter/greetd_ipc.c), and the users, sessions and the remembered      *)
(* choice (greeter/greeter_users.c).  The worker asks greetd one thing at  *)
(* a time while the user and the monitors go on; greetd itself is external *)
(* and answers anything its protocol allows.  Names of users and sessions  *)
(* are numbers, for their order.  The preview mode (--test) is left out.   *)
(***************************************************************************)
EXTENDS Naturals, Sequences, SequencesExt, FiniteSets

CONSTANTS
    Accounts,       \* what the system's user list may be: sequences of [name, uid, shell]
    Installed,      \* session files by directory, the first goes first: sequences of
                    \*   [id, type, name, exec, hidden]
    Command,        \* the --cmd option, or ""
    Monitors,
    Greeters, Nobody,   \* the names of the greeter's own account and of nobody
    Rounds,         \* how many prompts an attempt may have: 8 in the code
    MaxEvents       \* bound: what user, monitors and restarts do in a run

VARIABLES
    running,        \* the greeter runs
    users, sessions,
    user, session,  \* app->selected_user_idx, selected_session_idx
    monitors,       \* the display's monitors
    surfaces,       \* app->surfaces, of [monitor, primary, sensitive]
    entry,          \* the text of the password entry
    busy,           \* app->auth_in_progress
    job,            \* the worker's: [user, session, password]
    worker,         \* where it is: [at, asked, round, supplied, ok]
    greetd,         \* the session greetd prepares: [state, user]
    broken,         \* the socket failed in this attempt
    answers,        \* passwords sent in this attempt
    stored,         \* the state files: [sys, own], each <<user, session>> or <<>>
    cache,          \* /var/cache/kajo-greeter: "absent", "readonly", "writable"
    rebuilt,        \* the card was built anew during the attempt
    headless,       \* the greeter started without a monitor
    started,        \* what greetd started last: <<user, session>> or <<>>
    events

ui   == <<user, session, monitors, surfaces, entry, busy, rebuilt, headless>>
auth == <<job, worker, greetd, broken, answers, started>>
vars == <<running, users, sessions, stored, cache, events, ui, auth>>

NoText == ""

-----------------------------------------------------------------------------
(* Users and sessions.                                                     *)

is_valid_login_shell(shell) == shell \notin {NoText, "nologin", "false", "sync"}

\* greeter_discover_users: people's accounts, each once, by name; else the greeter's own.
DiscoverUsers(accounts) ==
    LET people == {a.name : a \in {b \in Range(accounts) :
                     /\ b.uid >= 1000 /\ b.uid < 60000
                     /\ b.name \notin {Greeters, Nobody} /\ is_valid_login_shell(b.shell)}}
        nth(k) == CHOOSE p \in people : Cardinality({q \in people : q < p}) = k - 1
    IN  IF people = {} THEN <<Greeters>> ELSE [k \in 1..Cardinality(people) |-> nth(k)]

Entry(id, type, name, exec) == [id |-> id, type |-> type, name |-> name, exec |-> exec]

\* scan_session_directory: a file of a directory before hides one of the same name.
Offered(file) == ~file.hidden /\ file.exec # NoText
Found(files) ==
    {i \in DOMAIN files : /\ Offered(files[i])
                          /\ \A j \in 1..i - 1 : Offered(files[j]) =>
                                files[j].id # files[i].id \/ files[j].type # files[i].type}

Answers(s, choice) == s.id = choice \/ s.exec = choice

\* The session at a place: the command line's own stands before those of the files.
SessionAt(files, i) ==
    IF i = 0 THEN Entry(Command, "wayland", 0, Command)
    ELSE Entry(files[i].id, files[i].type, files[i].name, files[i].exec)

\* compare_sessions: niri first, the others by their name; equal ones stay in their order.
Earlier(a, b) ==
    \/ a.id = "niri" /\ b.id # "niri"
    \/ (a.id = "niri" <=> b.id = "niri") /\ a.name < b.name
Before(files, j, i) ==
    LET a == SessionAt(files, j)
        b == SessionAt(files, i)
    IN  Earlier(a, b) \/ (~Earlier(b, a) /\ j < i)

\* greeter_discover_sessions_from_dirs: the command line may add one; there is always one.
Places(files) ==
    IF Command = NoText \/ \E i \in Found(files) : Answers(SessionAt(files, i), Command)
    THEN Found(files) ELSE Found(files) \cup {0}
DiscoverSessions(files) ==
    LET places == Places(files)
        nth(k) == CHOOSE i \in places : Cardinality({j \in places : Before(files, j, i)}) = k - 1
    IN  IF places = {} THEN <<Entry("niri", "wayland", 0, "niri-session")>>
        ELSE [k \in 1..Cardinality(places) |-> SessionAt(files, nth(k))]

\* resolve_state_file_path, to read and to write.
ReadFrom  == IF cache = "absent" THEN stored.own ELSE stored.sys
WrittenTo(choice) ==
    IF cache = "writable" THEN [stored EXCEPT !.sys = choice] ELSE [stored EXCEPT !.own = choice]

\* The first that the choice fits, or the first of all.
Selected(s, Fits(_)) == IF SelectInSeq(s, Fits) = 0 THEN 1 ELSE SelectInSeq(s, Fits)

\* main, before the application runs.
Choice(us, ss, state) ==
    LET wanted == IF Command # NoText THEN Command ELSE IF state # <<>> THEN state[2] ELSE "-"
    IN  /\ user' = (IF state = <<>> THEN 1 ELSE Selected(us, LAMBDA u : u = state[1]))
        /\ session' = Selected(ss, LAMBDA s : Answers(s, wanted))

-----------------------------------------------------------------------------
(* The card and its surfaces.                                              *)

\* build_greeter_surface.
Surface(m, primary) == [monitor |-> m, primary |-> primary, sensitive |-> TRUE]

AllSurfaces(ms) == [i \in DOMAIN ms |-> Surface(ms[i], i = 1)]

\* set_greeter_auth_state: the primary surface's fields are usable or not.
Sensitive(on) == [i \in DOMAIN surfaces |->
                     IF surfaces[i].primary THEN [surfaces[i] EXCEPT !.sensitive = on] ELSE surfaces[i]]

Usable == \E i \in DOMAIN surfaces : surfaces[i].primary /\ surfaces[i].sensitive

Event == running /\ events < MaxEvents /\ events' = events + 1

Kept == UNCHANGED <<running, users, sessions, stored, cache>>

\* on_user_dropdown_changed, on_session_dropdown_changed.
SelectUser(i) ==
    /\ Event /\ Usable /\ i \in DOMAIN users \ {user}
    /\ user' = i /\ entry' = NoText
    /\ Kept /\ UNCHANGED <<session, monitors, surfaces, busy, rebuilt, headless, auth>>

SelectSession(i) ==
    /\ Event /\ Usable /\ i \in DOMAIN sessions \ {session}
    /\ session' = i
    /\ Kept /\ UNCHANGED <<user, monitors, surfaces, entry, busy, rebuilt, headless, auth>>

Type(password) ==
    /\ Event /\ Usable /\ entry = NoText /\ entry' = password
    /\ Kept /\ UNCHANGED <<user, session, monitors, surfaces, busy, rebuilt, headless, auth>>

\* on_greeter_key_pressed, Escape.
Escape ==
    /\ Event /\ ~busy /\ entry # NoText /\ entry' = NoText /\ surfaces' = Sensitive(TRUE)
    /\ Kept /\ UNCHANGED <<user, session, monitors, busy, rebuilt, headless, auth>>

Primary == \E i \in DOMAIN surfaces : surfaces[i].primary

MonitorRemovedKeeping(i) ==
    /\ Event /\ i \in DOMAIN monitors /\ monitors' = RemoveAt(monitors, i)
    /\ surfaces' = IF i \in DOMAIN surfaces THEN RemoveAt(surfaces, i) ELSE surfaces
    /\ Kept /\ UNCHANGED <<user, session, entry, busy, rebuilt, headless, auth>>

\* on_monitors_changed, with one removed: its place in the array goes; if the card went
\* with it every surface is built anew.
MonitorRemoved(i) ==
    /\ Event /\ i \in DOMAIN monitors /\ monitors' = RemoveAt(monitors, i)
    /\ LET left == IF i \in DOMAIN surfaces THEN RemoveAt(surfaces, i) ELSE surfaces
           gone == left # <<>> /\ \A j \in DOMAIN left : ~left[j].primary
       IN  /\ surfaces' = IF gone THEN AllSurfaces(monitors') ELSE left
           /\ entry' = IF \A j \in DOMAIN left : ~left[j].primary THEN NoText ELSE entry
           /\ rebuilt' = (rebuilt \/ gone)
    /\ Kept /\ UNCHANGED <<user, session, busy, headless, auth>>

\* With one added, which the display lists last.
MonitorAdded(m) ==
    /\ Event /\ m \notin Range(monitors) /\ monitors' = Append(monitors, m)
    /\ surfaces' = IF surfaces # <<>> /\ ~Primary THEN AllSurfaces(monitors')
                   ELSE Append(surfaces, Surface(m, ~Primary))
    /\ rebuilt' = (rebuilt \/ ~Primary)
    /\ Kept /\ UNCHANGED <<user, session, entry, busy, headless, auth>>

-----------------------------------------------------------------------------
(* An attempt.                                                             *)

At(where) == worker' = [worker EXCEPT !.at = where]

\* submit_greeter_login: nothing while one is under way, no attempt without a password.
Submit ==
    /\ Event /\ Usable /\ ~busy /\ entry # NoText
    /\ entry' = NoText /\ busy' = TRUE /\ surfaces' = Sensitive(FALSE) /\ rebuilt' = FALSE
    /\ job' = [user |-> users[user], session |-> sessions[session].id, password |-> entry]
    /\ worker' = [at |-> "create", asked |-> "-", round |-> 0, supplied |-> FALSE, ok |-> FALSE]
    /\ answers' = 0 /\ broken' = FALSE
    /\ Kept /\ UNCHANGED <<user, session, monitors, headless, greetd, started>>

\* What greetd may answer: to what it is told in the state it is in.
Questions == {"secret", "visible", "info", "error message"}

Waits == UNCHANGED <<running, users, sessions, stored, cache, events, ui, job>>

\* cancel_greetd_session_quiet, and the attempt has failed.
CancelAndFail ==
    /\ greetd' = IF broken' THEN greetd ELSE [state |-> "none", user |-> 0]
    /\ worker' = [worker EXCEPT !.at = "ended", !.ok = FALSE]

\* create_session: greetd refuses when it has a session; else it may ask at once, have
\* nothing to ask, or refuse the user; the socket may fail, and nothing is cancelled.
CreateSession ==
    /\ worker.at = "create"
    /\ \/ /\ greetd.state = "none" /\ \E q \in Questions :
                worker' = [worker EXCEPT !.at = "prompt", !.asked = q]
          /\ greetd' = [state |-> "asking", user |-> job.user] /\ UNCHANGED broken
       \/ /\ greetd.state = "none" /\ At("start")
          /\ greetd' = [state |-> "ready", user |-> job.user] /\ UNCHANGED broken
       \/ UNCHANGED broken /\ CancelAndFail
       \/ /\ worker' = [worker EXCEPT !.at = "ended"]
          /\ broken' = TRUE /\ UNCHANGED greetd
    /\ Waits /\ UNCHANGED <<answers, started>>

AnswerAgain ==
    /\ worker.at = "prompt" /\ answers' = answers + 1
    /\ \E q \in Questions : worker' = [worker EXCEPT !.asked = q]
    /\ Waits /\ UNCHANGED <<started, broken, greetd>>

AnswerForever ==
    /\ worker.at = "prompt" /\ \E q \in Questions \ {worker.asked} : worker' = [worker EXCEPT !.asked = q]
    /\ Waits /\ UNCHANGED <<answers, started, broken, greetd>>

\* The loop over the prompts: the password answers the first that wants one; a second
\* that does ends the attempt; so do more prompts than there are rounds.
Answer ==
    /\ worker.at = "prompt"
    /\ LET wants == worker.asked \in {"secret", "visible"}
       IN  IF worker.round = Rounds \/ (wants /\ worker.supplied)
           THEN UNCHANGED <<answers, broken>> /\ CancelAndFail
           ELSE /\ answers' = IF wants THEN answers + 1 ELSE answers
                /\ LET next == [worker EXCEPT !.round = @ + 1, !.supplied = @ \/ wants]
                   IN  \/ /\ \E q \in Questions : worker' = [next EXCEPT !.asked = q]
                          /\ UNCHANGED <<greetd, broken>>
                       \/ /\ next.supplied /\ job.password = "right"
                          /\ worker' = [next EXCEPT !.at = "start"]
                          /\ greetd' = [greetd EXCEPT !.state = "ready"] /\ UNCHANGED broken
                       \/ broken' \in BOOLEAN /\ CancelAndFail
    /\ Waits /\ UNCHANGED started

\* start_session.
StartSession ==
    /\ worker.at = "start"
    /\ \/ /\ worker' = [worker EXCEPT !.at = "ended", !.ok = TRUE]
          /\ greetd' = [greetd EXCEPT !.state = "started"]
          /\ started' = <<greetd.user, job.session>> /\ UNCHANGED broken
       \/ broken' \in BOOLEAN /\ CancelAndFail /\ UNCHANGED started
    /\ Waits /\ UNCHANGED answers

\* on_greetd_auth_complete.  On success the choice on the card is saved and the greeter
\* ends (quit_greeter_compositor_and_app).
Complete ==
    /\ running /\ worker.at = "ended" /\ At("idle")
    /\ busy' = FALSE /\ entry' = NoText /\ surfaces' = Sensitive(TRUE)
    /\ running' = ~worker.ok
    /\ stored' = IF worker.ok THEN WrittenTo(<<users[user], sessions[session].id>>) ELSE stored
    /\ UNCHANGED <<users, sessions, cache, user, session, monitors, rebuilt, headless, events,
                   job, greetd, broken, answers, started>>

-----------------------------------------------------------------------------
(* Starting.                                                               *)

\* on_activate: a surface for each monitor, or one for none.
Activate(ms) ==
    /\ monitors' = ms /\ headless' = (ms = <<>>)
    /\ surfaces' = IF ms = <<>> THEN <<Surface("none", TRUE)>> ELSE AllSurfaces(ms)

\* The session has ended and greetd starts the greeter again.
Start(ms) ==
    /\ ~running /\ events < MaxEvents /\ events' = events + 1 /\ running' = TRUE
    /\ Choice(users, sessions, ReadFrom) /\ Activate(ms)
    /\ entry' = NoText /\ busy' = FALSE /\ rebuilt' = FALSE
    /\ worker' = [worker EXCEPT !.at = "idle"] /\ greetd' = [state |-> "none", user |-> 0]
    /\ UNCHANGED <<users, sessions, stored, cache, job, broken, answers, started>>

Init ==
    /\ running = FALSE
    /\ \E a \in Accounts, f \in Installed : users = DiscoverUsers(a) /\ sessions = DiscoverSessions(f)
    /\ user = 1 /\ session = 1 /\ monitors = <<>> /\ surfaces = <<>>
    /\ entry = NoText /\ busy = FALSE /\ rebuilt = FALSE /\ headless = FALSE
    /\ job = [user |-> 0, session |-> "-", password |-> NoText]
    /\ worker = [at |-> "idle", asked |-> "-", round |-> 0, supplied |-> FALSE, ok |-> FALSE]
    /\ greetd = [state |-> "none", user |-> 0] /\ broken = FALSE /\ answers = 0
    /\ started = <<>> /\ stored = [sys |-> <<>>, own |-> <<>>]
    /\ cache \in {"absent", "readonly", "writable"} /\ events = 0

Next ==
    \/ Escape \/ Submit \/ CreateSession \/ Answer \/ StartSession \/ Complete
    \/ \E i \in 1..3 : SelectUser(i) \/ SelectSession(i) \/ MonitorRemoved(i)
    \/ \E m \in Monitors : MonitorAdded(m)
    \/ \E password \in {"right", "wrong"} : Type(password)
    \/ \E ms \in {<<>>} \cup {<<m>> : m \in Monitors} : Start(ms)

\* The worker goes on, and its result is delivered.
Spec == Init /\ [][Next]_vars
        /\ WF_vars(CreateSession) /\ WF_vars(Answer) /\ WF_vars(StartSession) /\ WF_vars(Complete)

-----------------------------------------------------------------------------
(* Properties.                                                             *)

\* While there is a monitor the login card is on the first one and only there, whichever
\* came and went since the greeter started with one.
CardIsThere ==
    running /\ ~headless /\ monitors # <<>> =>
        \A i \in DOMAIN surfaces : surfaces[i].primary <=> surfaces[i].monitor = monitors[1]

\* A password is sent once an attempt at most; greetd starts nobody but the user who was
\* on the card when it was sent; an attempt that failed leaves no session in greetd,
\* which would refuse the next, if the socket did not fail; and what is remembered is
\* what was started if the card was not built anew meanwhile.
AttemptsAreClean ==
    /\ answers <= 1
    /\ worker.at \in {"prompt", "start"} => greetd.user = job.user
    /\ worker.at \in {"idle", "ended"} /\ ~worker.ok /\ ~broken => greetd.state = "none"
    /\ worker.at = "ended" /\ worker.ok => started = <<job.user, job.session>>
    /\ ~running /\ started # <<>> /\ worker.ok /\ ~rebuilt => started \in {stored.sys, stored.own}
    /\ sessions # <<>> /\ users # <<>>
    /\ \A i, j \in DOMAIN sessions :
          /\ sessions[i].id = "niri" => i = 1 \/ sessions[1].id = "niri"
          /\ sessions[i].id = sessions[j].id /\ sessions[i].type = sessions[j].type => i = j

\* An attempt ends, and the card can be used again or the greeter is done.
AttemptEnds == busy ~> ~busy
=============================================================================
