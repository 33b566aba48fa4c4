---------------------------- MODULE SessionGuard ----------------------------
(***************************************************************************)
(* Locking, idling and the screen saver of the shell (src/lock/): the      *)
(* session lock with its PAM checks, the three idle notifications, the     *)
(* saver, Keep Awake, and everything that turns the monitors on or off.    *)
(*                                                                         *)
(* External: the compositor's lock protocol as gtk4-session-lock offers it,*)
(* idle notifications, logind, PAM.  The notifications are created and     *)
(* reset together, so they fire in the order of their timeouts.            *)
(***************************************************************************)
EXTENDS Naturals, FiniteSets

CONSTANTS
  Monitors,   \* the monitors there can be
  Configs,    \* the configurations a reload can bring
  MaxChecks,  \* bound on the passwords submitted
  MaxOps      \* bound on the events from outside

Kinds == {"saver", "dpms", "lock"}
Widgets == {"panel", "center"}  \* the two Keep Awake switches
Modes == {"overlay", "dpms", "disabled"}
Config == [mode : Modes, timeout : [Kinds -> Nat], onSuspend : BOOLEAN]

ASSUME SessionGuardAssumption ==
  Configs \subseteq Config /\ MaxChecks \in Nat /\ MaxOps \in Nat

VARIABLES
  \* ShellSessionLock
  instance,        \* the lock object: "free", "asked" (no answer yet) or "held"
  isLocked, authBusy, hint, clock,
  surfaces,        \* the monitors whose lock window is alive
  \* PAM (external): the checks under way, numbered
  checks, submitted,
  \* ShellScreensaver and the monitors' power
  saver,           \* "off", "overlay" or "dpms"
  screensOn,
  launcher,        \* the launcher is shown
  \* ShellIdleManager
  inhibited, logindFd,
  notif,           \* per kind "none", "armed" or "idled"
  listening,       \* the switches that are enabled
  switch,          \* what they show
  \* surroundings
  config, monitors, ops

lockVars == <<instance, isLocked, authBusy, hint, clock, surfaces>>
pamVars == <<checks, submitted>>
screenVars == <<saver, screensOn>>
idleVars == <<inhibited, logindFd, notif, listening, switch>>
vars == <<lockVars, pamVars, screenVars, launcher, idleVars, config, monitors, ops>>

\* Mutant.
ArmedAlways(c, inh) ==
  [k \in Kinds |->
     IF c.timeout[k] > 0 /\ (k = "saver" => c.mode # "disabled") THEN "armed" ELSE "none"]

Armed(c, inh) ==
  [k \in Kinds |->
     IF ~inh /\ c.timeout[k] > 0 /\ (k = "saver" => c.mode # "disabled")
     THEN "armed" ELSE "none"]

Init ==
  /\ instance = "free" /\ isLocked = FALSE /\ authBusy = FALSE
  /\ hint = FALSE /\ clock = FALSE /\ surfaces = {}
  /\ checks = {} /\ submitted = 0
  /\ saver = "off" /\ screensOn = TRUE /\ launcher = FALSE
  /\ inhibited = FALSE /\ logindFd = FALSE
  /\ config \in Configs /\ notif = Armed(config, FALSE)
  /\ listening = Widgets /\ switch = [w \in Widgets |-> FALSE]
  /\ monitors \in (SUBSET Monitors) \ {{}} /\ ops = 0

Outside == ops < MaxOps /\ ops' = ops + 1

-----------------------------------------------------------------------------
(* The saver and the monitors' power.                                      *)

SetDpms(on) == screensOn' = on /\ UNCHANGED saver

StartSaver ==
  IF saver # "off" \/ config.mode = "disabled" THEN UNCHANGED screenVars
  ELSE /\ saver' = config.mode
       /\ screensOn' = (screensOn /\ config.mode # "dpms")

StopSaver ==
  IF saver = "off" THEN UNCHANGED screenVars
  ELSE saver' = "off" /\ screensOn' = TRUE

\* A key, a click or a motion on the overlay; those right after it appeared
\* are ignored.
SaverInput ==
  /\ saver = "overlay" /\ Outside
  /\ StopSaver
  /\ UNCHANGED <<lockVars, pamVars, launcher, idleVars, config, monitors>>

-----------------------------------------------------------------------------
(* The lock.                                                               *)

\* shell_session_lock_activate.  The lock object shows a window on every
\* monitor when the request is sent; it refuses a second request.
Activate ==
  IF isLocked \/ instance = "held"
  THEN UNCHANGED <<lockVars, screenVars, launcher>>
  ELSE /\ StopSaver
       /\ launcher' = FALSE
       /\ authBusy' = FALSE
       /\ \/ /\ instance = "free"
             /\ instance' = "asked" /\ isLocked' = TRUE
             /\ surfaces' = monitors
          \/ isLocked' = FALSE /\ UNCHANGED <<instance, surfaces>>
       /\ UNCHANGED <<hint, clock>>

\* Mutant.
UnlockOfAnother ==
  /\ isLocked' = (instance = "asked") /\ UNCHANGED authBusy
  /\ IF instance = "held"
     THEN /\ instance' = "free" /\ hint' = FALSE /\ clock' = FALSE
          /\ surfaces' = {}
          /\ SetDpms(TRUE)
     ELSE UNCHANGED <<instance, hint, clock, surfaces, screenVars>>

\* on_session_unlocked, which gtk_session_lock_instance_unlock runs.
Unlock ==
  /\ isLocked' = FALSE /\ authBusy' = FALSE
  /\ IF instance = "held"
     THEN /\ instance' = "free" /\ hint' = FALSE /\ clock' = FALSE
          /\ surfaces' = {}
          /\ SetDpms(TRUE)
     ELSE UNCHANGED <<instance, hint, clock, surfaces, screenVars>>

SessionLocked ==
  /\ instance = "asked"
  /\ instance' = "held" /\ isLocked' = TRUE /\ hint' = TRUE /\ clock' = TRUE
  /\ UNCHANGED <<authBusy, surfaces, pamVars, screenVars, launcher, idleVars,
                 config, monitors, ops>>

LockFailed ==
  /\ instance = "asked"
  /\ instance' = "free" /\ isLocked' = FALSE /\ authBusy' = FALSE
  /\ clock' = FALSE /\ surfaces' = {}
  /\ UNCHANGED <<hint, pamVars, screenVars, launcher, idleVars, config, monitors, ops>>

\* Enter or the button of a lock window with a password in the entry.
Submit(m) ==
  /\ m \in surfaces /\ ~authBusy /\ isLocked /\ submitted < MaxChecks
  /\ authBusy' = TRUE
  /\ submitted' = submitted + 1 /\ checks' = checks \cup {submitted'}
  /\ UNCHANGED <<instance, isLocked, hint, clock, surfaces, screenVars, launcher,
                 idleVars, config, monitors, ops>>

\* Mutant.
CheckEndsSilently(c, ok) ==
  /\ checks' = checks \ {c}
  /\ IF ok THEN Unlock
     ELSE UNCHANGED <<lockVars, screenVars>>
  /\ UNCHANGED <<submitted, launcher, idleVars, config, monitors, ops>>

\* on_pam_auth_complete: the thread's result comes to the main loop.
CheckEnds(c, ok) ==
  /\ checks' = checks \ {c}
  /\ IF ok THEN Unlock
     ELSE /\ authBusy' = FALSE
          /\ UNCHANGED <<instance, isLocked, hint, clock, surfaces, screenVars>>
  /\ UNCHANGED <<submitted, launcher, idleVars, config, monitors, ops>>

\* A lock window offers to turn the monitors off.
ScreenOffButton ==
  /\ surfaces # {} /\ Outside
  /\ SetDpms(FALSE)
  /\ UNCHANGED <<lockVars, pamVars, launcher, idleVars, config, monitors>>

\* Mutant.
PlugInUncovered(m) ==
  /\ m \in Monitors \ monitors /\ Outside
  /\ monitors' = monitors \cup {m}
  /\ UNCHANGED <<lockVars, pamVars, screenVars, launcher, idleVars, config>>

PlugIn(m) ==
  /\ m \in Monitors \ monitors /\ Outside
  /\ monitors' = monitors \cup {m}
  /\ surfaces' = IF instance # "free" THEN surfaces \cup {m} ELSE surfaces
  /\ UNCHANGED <<instance, isLocked, authBusy, hint, clock, pamVars, screenVars,
                 launcher, idleVars, config>>

\* The compositor takes the window with the monitor; on_lock_window_destroy
\* leaves an entry without widgets.
Unplug(m) ==
  /\ m \in monitors /\ monitors # {m} /\ Outside
  /\ monitors' = monitors \ {m} /\ surfaces' = surfaces \ {m}
  /\ UNCHANGED <<instance, isLocked, authBusy, hint, clock, pamVars, screenVars,
                 launcher, idleVars, config>>

-----------------------------------------------------------------------------
(* Idle notifications and Keep Awake.                                      *)

\* The notification of kind k fires: nobody did anything for its timeout.
Idles(k) ==
  /\ notif[k] = "armed"
  /\ \A j \in Kinds : notif[j] = "armed" => config.timeout[k] <= config.timeout[j]
  /\ notif' = [notif EXCEPT ![k] = "idled"]
  /\ \/ inhibited /\ UNCHANGED <<lockVars, screenVars, launcher>>
     \/ /\ ~inhibited /\ k = "saver"
        /\ IF isLocked \/ instance = "held" THEN UNCHANGED screenVars ELSE StartSaver
        /\ UNCHANGED <<lockVars, launcher>>
     \/ ~inhibited /\ k = "dpms" /\ SetDpms(FALSE) /\ UNCHANGED <<lockVars, launcher>>
     \/ ~inhibited /\ k = "lock" /\ Activate
  /\ UNCHANGED <<pamVars, inhibited, logindFd, listening, switch, config, monitors, ops>>

\* The user is back: the notifications that had fired report `resumed`.
Resumes ==
  /\ \E k \in Kinds : notif[k] = "idled"
  /\ Outside
  /\ notif' = [k \in Kinds |-> IF notif[k] = "idled" THEN "armed" ELSE notif[k]]
  /\ screensOn' = TRUE
  /\ saver' = IF notif["saver"] = "idled" THEN "off" ELSE saver
  /\ UNCHANGED <<lockVars, pamVars, launcher, inhibited, logindFd, listening, switch,
                 config, monitors>>

\* A switch is used; the manager tells every listener.  logind may refuse the
\* inhibitor, or may not be there to ask; it is not asked again.
KeepAwake(w) ==
  /\ w \in listening /\ Outside
  /\ inhibited' = ~switch[w]
  /\ IF inhibited' = inhibited
     THEN switch' = [switch EXCEPT ![w] = inhibited'] /\ UNCHANGED <<logindFd, notif>>
     ELSE /\ switch' = [v \in Widgets |->
                          IF v \in listening \cup {w} THEN inhibited' ELSE switch[v]]
          /\ logindFd' \in IF inhibited' THEN BOOLEAN ELSE {FALSE}
          /\ notif' = Armed(config, inhibited')
  /\ UNCHANGED <<lockVars, pamVars, screenVars, launcher, listening, config, monitors>>

WidgetOff(w) ==
  /\ w \in listening /\ Outside
  /\ listening' = listening \ {w}
  /\ UNCHANGED <<lockVars, pamVars, screenVars, launcher, inhibited, logindFd, notif,
                 switch, config, monitors>>

WidgetOn(w) ==
  /\ w \notin listening /\ Outside
  /\ listening' = listening \cup {w} /\ switch' = [switch EXCEPT ![w] = inhibited]
  /\ UNCHANGED <<lockVars, pamVars, screenVars, launcher, inhibited, logindFd, notif,
                 config, monitors>>

\* shell_app_reload_config: the notifications are made anew.
Reload ==
  /\ Outside
  /\ config' \in Configs
  /\ notif' = Armed(config', inhibited)
  /\ UNCHANGED <<lockVars, pamVars, screenVars, launcher, inhibited, logindFd, listening,
                 switch, monitors>>

-----------------------------------------------------------------------------
(* Commands of the IPC socket and signals of logind.                       *)

AskLock ==
  /\ Outside /\ Activate
  /\ UNCHANGED <<pamVars, idleVars, config, monitors>>

AskSaver ==
  /\ Outside /\ StartSaver
  /\ UNCHANGED <<lockVars, pamVars, launcher, idleVars, config, monitors>>

ToggleLauncher ==
  /\ Outside /\ launcher' = ~launcher
  /\ UNCHANGED <<lockVars, pamVars, screenVars, idleVars, config, monitors>>

LogindUnlock ==
  /\ Outside /\ Unlock
  /\ UNCHANGED <<pamVars, launcher, idleVars, config, monitors>>

GoesToSleep == config.onSuspend /\ AskLock

WakesUp ==
  /\ Outside /\ SetDpms(TRUE)
  /\ UNCHANGED <<lockVars, pamVars, launcher, idleVars, config, monitors>>

Next ==
  \/ SaverInput \/ SessionLocked \/ LockFailed \/ ScreenOffButton
  \/ \E m \in Monitors : Submit(m) \/ PlugIn(m) \/ Unplug(m)
  \/ \E c \in checks, ok \in BOOLEAN : CheckEnds(c, ok)
  \/ \E k \in Kinds : Idles(k)
  \/ Resumes \/ Reload
  \/ \E w \in Widgets : KeepAwake(w) \/ WidgetOff(w) \/ WidgetOn(w)
  \/ AskLock \/ AskSaver \/ ToggleLauncher \/ LogindUnlock \/ GoesToSleep \/ WakesUp

Spec == Init /\ [][Next]_vars

\* Every PAM check ends, and the compositor answers a request to lock.
FairSpec ==
  /\ Spec
  /\ \A n \in 1 .. MaxChecks : WF_vars(\E ok \in BOOLEAN : n \in checks /\ CheckEnds(n, ok))
  /\ WF_vars(SessionLocked \/ LockFailed)

-----------------------------------------------------------------------------
\* The variables have their types.
TypeOK ==
  /\ instance \in {"free", "asked", "held"}
  /\ isLocked \in BOOLEAN /\ authBusy \in BOOLEAN /\ hint \in BOOLEAN /\ clock \in BOOLEAN
  /\ surfaces \subseteq monitors /\ monitors \subseteq Monitors /\ monitors # {}
  /\ submitted \in 0 .. MaxChecks /\ checks \subseteq 1 .. submitted
  /\ saver \in {"off", "overlay", "dpms"} /\ screensOn \in BOOLEAN /\ launcher \in BOOLEAN
  /\ inhibited \in BOOLEAN /\ logindFd \in BOOLEAN
  /\ notif \in [Kinds -> {"none", "armed", "idled"}]
  /\ listening \subseteq Widgets /\ switch \in [Widgets -> BOOLEAN]
  /\ config \in Configs /\ ops \in 0 .. MaxOps

\* While the session is locked every monitor, plugged in later or not, has a
\* window in which the password can be typed, and logind was told; once it is
\* not, no window, clock or hint is left.
LockIsComplete ==
  /\ instance = "held" => isLocked /\ surfaces = monitors /\ hint /\ clock
  /\ instance = "free" => ~isLocked /\ surfaces = {} /\ ~hint /\ ~clock

\* A lock window that says it is verifying waits for a check that is under way.
BusyHasACheck == authBusy => checks # {} /\ isLocked

\* Keep Awake: while it is on no notification can blank or lock anything, a
\* reload of the configuration included; once it is off the shell idles by the
\* timeouts of the configuration again and holds no inhibitor of logind; and
\* both switches show what the manager does.  That logind is inhibited while it
\* is on is not said: logind may have refused, and the switches do not show it.
KeptAwake ==
  /\ \A k \in Kinds : notif[k] = "none" <=>
       \/ inhibited
       \/ config.timeout[k] = 0
       \/ k = "saver" /\ config.mode = "disabled"
  /\ logindFd => inhibited
  /\ \A w \in listening : switch[w] = inhibited

\* No lock window stays in `Verifying` with its entry disabled.
VerifyingEnds == authBusy ~> ~authBusy

\* Idleness turns monitors off and never on: those the DPMS timeout switched off
\* stay off while nobody touches the machine.
IdleNeverLights == [][(\E k \in Kinds : Idles(k)) => (screensOn' => screensOn)]_vars

=============================================================================
