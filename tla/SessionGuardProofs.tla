------------------------- MODULE SessionGuardProofs -------------------------
(***************************************************************************)
(* What SessionGuard guarantees for any monitors, configurations and       *)
(* number of events: the lock is complete, a lock window never waits for   *)
(* nothing, and Keep Awake holds; and, in parts of their own, that the     *)
(* devices of a convertible follow its posture, that its keyboard comes,   *)
(* goes and types as it shows, that its gestures are what the fingers did, *)
(* and that an attempt to log in on the login screen is clean.             *)
(***************************************************************************)
EXTENDS SessionGuard, Convertible, LoginScreen, FiniteSetTheorems, SequenceTheorems, TLAPS

(* LockIsComplete says nothing of a request without an answer yet, which is*)
(* the state the other two are reached from.                               *)
AskedIsCovered == instance = "asked" => surfaces = monitors /\ ~hint /\ ~clock

LockInv == LockIsComplete /\ AskedIsCovered /\ BusyHasACheck

IInv == TypeOK /\ LockInv /\ KeptAwake

-----------------------------------------------------------------------------
(* The notifications that exist are those the configuration asks for. *)
NotificationsAre(c, inh, n) ==
  \A k \in Kinds : n[k] = "none" <=>
    inh \/ c.timeout[k] = 0 \/ (k = "saver" /\ c.mode = "disabled")

LEMMA ArmedType ==
  ASSUME NEW c \in Configs, NEW inh \in BOOLEAN
  PROVE  /\ Armed(c, inh) \in [Kinds -> {"none", "armed", "idled"}]
         /\ NotificationsAre(c, inh, Armed(c, inh))
<1>1. c.timeout \in [Kinds -> Nat]
  BY SessionGuardAssumption DEF Config
<1> QED
  BY <1>1 DEF Armed, NotificationsAre, Kinds

LEMMA InitInv == Init => IInv
<1> SUFFICES ASSUME Init
             PROVE  IInv
  OBVIOUS
<1>1. /\ notif \in [Kinds -> {"none", "armed", "idled"}]
      /\ NotificationsAre(config, inhibited, notif)
  <2>1. config \in Configs /\ inhibited = FALSE /\ notif = Armed(config, FALSE)
    BY DEF Init
  <2> QED
    BY <2>1, ArmedType
<1>2. monitors \subseteq Monitors /\ monitors # {}
  BY DEF Init
<1>3. switch \in [Widgets -> BOOLEAN] /\ \A w \in Widgets : switch[w] = FALSE
  BY DEF Init
<1>4. submitted \in 0 .. MaxChecks /\ ops \in 0 .. MaxOps
  BY SessionGuardAssumption DEF Init
<1> QED
  BY <1>1, <1>2, <1>3, <1>4
     DEF Init, IInv, TypeOK, LockInv, LockIsComplete, AskedIsCovered, BusyHasACheck, KeptAwake,
         NotificationsAre

(* The saver and the power of the monitors keep their types. *)
LEMMA ScreensTyped ==
  ASSUME TypeOK, (\E on \in BOOLEAN : SetDpms(on)) \/ StartSaver \/ StopSaver
  PROVE  saver' \in {"off", "overlay", "dpms"} /\ screensOn' \in BOOLEAN
<1>1. config.mode \in Modes
  BY SessionGuardAssumption DEF TypeOK, Config
<1> QED
  BY <1>1 DEF TypeOK, SetDpms, StartSaver, StopSaver, screenVars, Modes

(* What Activate and Unlock do to the lock. *)
LEMMA ActivateKeepsLock ==
  ASSUME TypeOK, LockInv, Activate, UNCHANGED <<monitors, pamVars>>
  PROVE  /\ LockInv'
         /\ instance' \in {"free", "asked", "held"} /\ isLocked' \in BOOLEAN
         /\ authBusy' \in BOOLEAN /\ hint' \in BOOLEAN /\ clock' \in BOOLEAN
         /\ surfaces' \subseteq monitors /\ launcher' \in BOOLEAN
         /\ saver' \in {"off", "overlay", "dpms"} /\ screensOn' \in BOOLEAN
<1>1. CASE isLocked \/ instance = "held"
  BY <1>1 DEF Activate, TypeOK, LockInv, LockIsComplete, AskedIsCovered, BusyHasACheck, lockVars,
              screenVars, pamVars
<1>2. CASE ~(isLocked \/ instance = "held")
  <2>1. saver' \in {"off", "overlay", "dpms"} /\ screensOn' \in BOOLEAN
    BY <1>2, ScreensTyped DEF Activate
  <2> QED
    BY <1>2, <2>1 DEF Activate, TypeOK, LockInv, LockIsComplete, AskedIsCovered, BusyHasACheck
<1> QED
  BY <1>1, <1>2

LEMMA UnlockKeepsLock ==
  ASSUME TypeOK, LockInv, Unlock, UNCHANGED monitors
  PROVE  /\ LockInv'
         /\ instance' \in {"free", "asked", "held"} /\ isLocked' \in BOOLEAN
         /\ authBusy' \in BOOLEAN /\ hint' \in BOOLEAN /\ clock' \in BOOLEAN
         /\ surfaces' \subseteq monitors
         /\ saver' \in {"off", "overlay", "dpms"} /\ screensOn' \in BOOLEAN
BY DEF Unlock, TypeOK, LockInv, LockIsComplete, AskedIsCovered, BusyHasACheck, SetDpms,
       screenVars

LEMMA NextInv == IInv /\ [Next]_vars => IInv'
<1> SUFFICES ASSUME IInv, [Next]_vars
             PROVE  IInv'
  OBVIOUS
<1> USE DEF IInv, Outside
<1>A. MaxOps \in Nat /\ MaxChecks \in Nat
  BY SessionGuardAssumption
<1>1. CASE SaverInput
  <2>1. saver' \in {"off", "overlay", "dpms"} /\ screensOn' \in BOOLEAN
    BY <1>1, ScreensTyped DEF SaverInput
  <2> QED
    BY <1>1, <1>A, <2>1 DEF SaverInput, TypeOK, LockInv, LockIsComplete, AskedIsCovered,
       BusyHasACheck, KeptAwake, lockVars, pamVars, idleVars
<1>2. CASE SessionLocked
  BY <1>2, <1>A DEF SessionLocked, TypeOK, LockInv, LockIsComplete, AskedIsCovered, BusyHasACheck,
     KeptAwake, pamVars, screenVars, idleVars
<1>3. CASE LockFailed
  BY <1>3, <1>A DEF LockFailed, TypeOK, LockInv, LockIsComplete, AskedIsCovered, BusyHasACheck,
     KeptAwake, pamVars, screenVars, idleVars
<1>4. CASE ScreenOffButton
  <2>1. UNCHANGED <<lockVars, pamVars, launcher, idleVars, config, monitors, saver>>
    BY <1>4 DEF ScreenOffButton, SetDpms
  <2>2. screensOn' \in BOOLEAN
    BY <1>4, Zenon DEF ScreenOffButton, SetDpms
  <2>3. ops' \in 0 .. MaxOps
    BY <1>4, <1>A DEF ScreenOffButton, TypeOK
  <2> QED
    BY <2>1, <2>2, <2>3 DEF TypeOK, LockInv, LockIsComplete, AskedIsCovered, BusyHasACheck, KeptAwake,
       lockVars, pamVars, idleVars
<1>5. ASSUME NEW m \in Monitors, Submit(m)
      PROVE  IInv'
  BY <1>5, <1>A DEF Submit, TypeOK, LockInv, LockIsComplete, AskedIsCovered, BusyHasACheck,
     KeptAwake, screenVars, idleVars
<1>6. ASSUME NEW m \in Monitors, PlugIn(m)
      PROVE  IInv'
  BY <1>6, <1>A DEF PlugIn, TypeOK, LockInv, LockIsComplete, AskedIsCovered, BusyHasACheck,
     KeptAwake, pamVars, screenVars, idleVars
<1>7. ASSUME NEW m \in Monitors, Unplug(m)
      PROVE  IInv'
  BY <1>7, <1>A DEF Unplug, TypeOK, LockInv, LockIsComplete, AskedIsCovered, BusyHasACheck,
     KeptAwake, pamVars, screenVars, idleVars
<1>8. ASSUME NEW c \in checks, NEW ok \in BOOLEAN, CheckEnds(c, ok)
      PROVE  IInv'
  <2>1. /\ checks' \subseteq checks
        /\ UNCHANGED <<submitted, launcher, inhibited, logindFd, notif, listening, switch,
                       config, monitors, ops>>
    BY <1>8 DEF CheckEnds, idleVars
  <2>2. CASE ok
    <3>1. Unlock
      BY <1>8, <2>2 DEF CheckEnds
    <3> QED
      BY <1>A, <2>1, <3>1, UnlockKeepsLock DEF TypeOK, KeptAwake
  <2>3. CASE ~ok
    BY <1>8, <1>A, <2>1, <2>3 DEF CheckEnds, TypeOK, LockInv, LockIsComplete, AskedIsCovered,
       BusyHasACheck, KeptAwake, screenVars
  <2> QED
    BY <2>2, <2>3
<1>9. ASSUME NEW k \in Kinds, Idles(k)
      PROVE  IInv'
  <2>1. UNCHANGED <<checks, submitted, inhibited, logindFd, listening, switch, config,
                    monitors, ops>>
    BY <1>9 DEF Idles, pamVars
  <2>2. /\ ~inhibited /\ notif' \in [Kinds -> {"none", "armed", "idled"}]
        /\ \A j \in Kinds : notif'[j] = "none" <=> notif[j] = "none"
    BY <1>9 DEF Idles, TypeOK, KeptAwake
  <2>3. CASE k = "lock"
    <3>1. Activate
      BY <1>9, <2>2, <2>3 DEF Idles
    <3> QED
      BY <1>A, <2>1, <2>2, <3>1, ActivateKeepsLock DEF TypeOK, KeptAwake, pamVars
  <2>4. CASE k # "lock"
    <3>1. UNCHANGED <<lockVars, launcher>>
      BY <1>9, <2>2, <2>4 DEF Idles
    <3>2. saver' \in {"off", "overlay", "dpms"} /\ screensOn' \in BOOLEAN
      BY <1>9, <2>2, <2>4, ScreensTyped DEF Idles, TypeOK, screenVars
    <3> QED
      BY <1>A, <2>1, <2>2, <3>1, <3>2 DEF TypeOK, LockInv, LockIsComplete, AskedIsCovered,
         BusyHasACheck, KeptAwake, lockVars
  <2> QED
    BY <2>3, <2>4
<1>10. CASE Resumes
  <2>1. /\ notif' \in [Kinds -> {"none", "armed", "idled"}] /\ ~inhibited
        /\ \A j \in Kinds : notif'[j] = "none" <=> notif[j] = "none"
    BY <1>10 DEF Resumes, TypeOK, KeptAwake
  <2> QED
    BY <1>10, <1>A, <2>1 DEF Resumes, TypeOK, LockInv, LockIsComplete, AskedIsCovered,
       BusyHasACheck, KeptAwake, lockVars, pamVars
<1>11. CASE Reload
  <2>1. inhibited \in BOOLEAN /\ config' \in Configs
    BY <1>11 DEF TypeOK, Reload
  <2>2. notif' = Armed(config', inhibited)
    BY <1>11 DEF Reload
  <2>3. /\ notif' \in [Kinds -> {"none", "armed", "idled"}]
        /\ NotificationsAre(config', inhibited, notif')
    BY <2>1, <2>2, ArmedType
  <2>4. /\ UNCHANGED <<lockVars, pamVars, screenVars, launcher, inhibited, logindFd, listening,
                       switch, monitors>>
        /\ ops' \in 0 .. MaxOps
    BY <1>11, <1>A DEF Reload, TypeOK
  <2>5. LockInv'
    BY <2>4 DEF LockInv, LockIsComplete, AskedIsCovered, BusyHasACheck, lockVars, pamVars
  <2>6. KeptAwake'
    BY <2>3, <2>4 DEF KeptAwake, NotificationsAre
  <2>7. TypeOK'
    BY <2>1, <2>3, <2>4 DEF TypeOK, lockVars, pamVars, screenVars
  <2> QED
    BY <2>5, <2>6, <2>7
<1>12. ASSUME NEW w \in Widgets, KeepAwake(w)
       PROVE  IInv'
  <2>1. inhibited' \in BOOLEAN /\ w \in listening
    BY <1>12 DEF KeepAwake, TypeOK
  <2>2. switch[w] = inhibited /\ inhibited' # inhibited
    BY <1>12, <2>1 DEF KeepAwake, KeptAwake, TypeOK
  <2>3. /\ notif' = Armed(config, inhibited')
        /\ logindFd' \in BOOLEAN /\ (logindFd' => inhibited')
    BY <1>12, <2>1, <2>2 DEF KeepAwake
  <2>4. /\ notif' \in [Kinds -> {"none", "armed", "idled"}]
        /\ NotificationsAre(config, inhibited', notif')
    BY <2>1, <2>3, ArmedType DEF TypeOK
  <2>5. switch' = [v \in Widgets |-> IF v \in listening \cup {w} THEN inhibited' ELSE switch[v]]
    BY <1>12, <2>2 DEF KeepAwake
  <2>6. /\ switch' \in [Widgets -> BOOLEAN]
        /\ \A v \in listening : switch'[v] = inhibited'
    BY <2>1, <2>5 DEF TypeOK
  <2>7. /\ UNCHANGED <<lockVars, pamVars, screenVars, launcher, listening, config, monitors>>
        /\ ops' \in 0 .. MaxOps
    BY <1>12, <1>A DEF KeepAwake, TypeOK
  <2>8. LockInv'
    BY <2>7 DEF LockInv, LockIsComplete, AskedIsCovered, BusyHasACheck, lockVars, pamVars
  <2>9. KeptAwake'
    BY <2>1, <2>3, <2>4, <2>6, <2>7 DEF KeptAwake, NotificationsAre
  <2>10. TypeOK'
    BY <2>1, <2>3, <2>4, <2>6, <2>7 DEF TypeOK, lockVars, pamVars, screenVars
  <2> QED
    BY <2>8, <2>9, <2>10
<1>13. ASSUME NEW w \in Widgets, WidgetOff(w) \/ WidgetOn(w)
       PROVE  IInv'
  <2>1. /\ UNCHANGED <<lockVars, pamVars, screenVars, launcher, inhibited, logindFd, notif,
                       config, monitors>>
        /\ ops' \in 0 .. MaxOps
    BY <1>13, <1>A DEF WidgetOff, WidgetOn, TypeOK
  <2>2. listening' \subseteq Widgets /\ switch' \in [Widgets -> BOOLEAN]
    BY <1>13 DEF WidgetOff, WidgetOn, TypeOK
  <2>3. \A v \in listening' : switch'[v] = inhibited
    BY <1>13 DEF WidgetOff, WidgetOn, TypeOK, KeptAwake
  <2>4. LockInv'
    BY <2>1 DEF LockInv, LockIsComplete, AskedIsCovered, BusyHasACheck, lockVars, pamVars
  <2>5. KeptAwake'
    BY <2>1, <2>3 DEF KeptAwake
  <2>6. TypeOK'
    BY <2>1, <2>2 DEF TypeOK, lockVars, pamVars, screenVars
  <2> QED
    BY <2>4, <2>5, <2>6
<1>14. CASE AskLock \/ GoesToSleep
  <2>1. /\ Activate /\ ops' \in 0 .. MaxOps
        /\ UNCHANGED <<pamVars, inhibited, logindFd, notif, listening, switch, config, monitors>>
    BY <1>14, <1>A DEF AskLock, GoesToSleep, idleVars, TypeOK
  <2> QED
    BY <2>1, ActivateKeepsLock DEF TypeOK, KeptAwake, pamVars
<1>15. CASE AskSaver
  <2>1. saver' \in {"off", "overlay", "dpms"} /\ screensOn' \in BOOLEAN
    BY <1>15, ScreensTyped DEF AskSaver
  <2> QED
    BY <1>15, <1>A, <2>1 DEF AskSaver, TypeOK, LockInv, LockIsComplete, AskedIsCovered,
       BusyHasACheck, KeptAwake, lockVars, pamVars, idleVars
<1>16. CASE ToggleLauncher
  BY <1>16, <1>A DEF ToggleLauncher, TypeOK, LockInv, LockIsComplete, AskedIsCovered,
     BusyHasACheck, KeptAwake, lockVars, pamVars, screenVars, idleVars
<1>17. CASE LogindUnlock
  <2>1. /\ Unlock /\ ops' \in 0 .. MaxOps
        /\ UNCHANGED <<pamVars, launcher, inhibited, logindFd, notif, listening, switch, config,
                       monitors>>
    BY <1>17, <1>A DEF LogindUnlock, idleVars, TypeOK
  <2> QED
    BY <2>1, UnlockKeepsLock DEF TypeOK, KeptAwake, pamVars
<1>18. CASE WakesUp
  BY <1>18, <1>A DEF WakesUp, SetDpms, TypeOK, LockInv, LockIsComplete, AskedIsCovered,
     BusyHasACheck, KeptAwake, lockVars, pamVars, idleVars
<1>19. CASE UNCHANGED vars
  BY <1>19 DEF vars, TypeOK, LockInv, LockIsComplete, AskedIsCovered, BusyHasACheck, KeptAwake,
     lockVars, pamVars, screenVars, idleVars
<1> QED
  BY <1>1, <1>2, <1>3, <1>4, <1>5, <1>6, <1>7, <1>8, <1>9, <1>10, <1>11, <1>12, <1>13, <1>14,
     <1>15, <1>16, <1>17, <1>18, <1>19 DEF Next

-----------------------------------------------------------------------------
(* The inductive invariant: the lock object, its windows and hint, the PAM *)
(* checks and the notifications agree (session_lock.c, idle_manager.c).    *)
THEOREM Invariance == Spec => []IInv
<1>1. IInv /\ [Next]_vars => IInv'
  BY NextInv
<1> QED
  BY <1>1, InitInv, PTL DEF Spec

(* The variables keep their types. *)
THEOREM TypeCorrect == Spec => []TypeOK
<1>1. IInv => TypeOK
  BY DEF IInv
<1> QED
  BY <1>1, Invariance, PTL

(* A locked session has a window on every monitor, and logind knows; an    *)
(* unlocked one keeps nothing of the lock (on_lock_monitor,                *)
(* on_session_locked, on_session_unlocked, on_session_lock_failed).        *)
THEOREM LockIsAlwaysComplete == Spec => []LockIsComplete
<1>1. IInv => LockIsComplete
  BY DEF IInv, LockInv
<1> QED
  BY <1>1, Invariance, PTL

(* auth_in_progress is set only while a PAM check is under way and the     *)
(* session is locked, even when checks of two locks overlap.               *)
THEOREM BusyAlwaysHasACheck == Spec => []BusyHasACheck
<1>1. IInv => BusyHasACheck
  BY DEF IInv, LockInv
<1> QED
  BY <1>1, Invariance, PTL

(* While Keep Awake is on no notification exists, whatever is reloaded;    *)
(* when it is off those of the configuration do, and no inhibitor of       *)
(* logind is held; the switches that listen agree                          *)
(* (shell_idle_manager_set_inhibited, setup_idle_notifications).  Whether  *)
(* logind granted the inhibitor is left open.                              *)
THEOREM AlwaysKeptAwake == Spec => []KeptAwake
<1>1. IInv => KeptAwake
  BY DEF IInv
<1> QED
  BY <1>1, Invariance, PTL

-----------------------------------------------------------------------------
(* The devices follow the posture, for any configurations, orientations    *)
(* and number of events.                                                   *)
(*                                                                         *)
(* InputsFollow says nothing before the posture is known, and so is not    *)
(* inductive: a claim left from then would be carried over when the hinge  *)
(* is read.  Claimed adds that there is none without the service, and none *)
(* before the posture is known.                                            *)
Claimed ==
  /\ state \in {"unknown", "laptop", "folded"} /\ claimed \in BOOLEAN
  /\ claimed => proxy = "ready" /\ state # "unknown"
  /\ ~posture_running => state = "unknown" /\ proxy = "none"

HingeInv == Claimed /\ Hinge!InputsFollow

-----------------------------------------------------------------------------
\* apply_posture_effects brings the devices, the claim and the screen to where
\* the new posture wants them, wherever they were.
LEMMA HingeEffectsFollow ==
  ASSUME Claimed, NEW new \in {"laptop", "folded"}, NEW c, Hinge!Effects(new, c),
         posture_config' = c, UNCHANGED <<proxy, posture_running>>, posture_running'
  PROVE  HingeInv'
<1>1. state' = new /\ claimed' = (proxy = "ready" /\ new = "folded" /\ c.rotate)
  BY DEF Hinge!Effects, Hinge!Claim, Claimed
<1>2. posture_inhibited' = [kbd |-> state' = "folded" /\ posture_config'.kbd,
                            touch |-> state' = "laptop" /\ posture_config'.touch]
  BY <1>1 DEF Hinge!Effects
<1>3. ~(new = "folded" /\ c.rotate) => transform' = "normal"
  BY DEF Hinge!Effects
<1> QED
  BY <1>1, <1>2, <1>3 DEF HingeInv, Claimed, Hinge!InputsFollow

\* posture_tick keeps what holds and does the rest.
LEMMA ReadHingeFollows ==
  ASSUME HingeInv, NEW c, Hinge!ReadHinge(c), posture_config' = c,
         c = posture_config \/ state = "unknown",
         UNCHANGED <<proxy, posture_running>>, posture_running'
  PROVE  HingeInv'
<1>1. ASSUME NEW new \in {"laptop", "folded"}, Hinge!Effects(new, c), posture_running'
      PROVE  HingeInv'
  BY <1>1, HingeEffectsFollow DEF HingeInv
<1>2. CASE state = "folded" /\ Hinge!UpdateFolded(sensed)
           /\ UNCHANGED <<state, posture_inhibited, claimed>>
  <2>1. posture_config' = posture_config
    BY <1>2
  <2>2. ~posture_config.rotate => transform' = transform
    BY <1>2 DEF Hinge!UpdateFolded
  <2> QED
    BY <1>2, <2>1, <2>2 DEF HingeInv, Claimed, Hinge!InputsFollow
<1>3. CASE Hinge!NoEffects
  BY <1>3 DEF Hinge!NoEffects, HingeInv, Claimed, Hinge!InputsFollow
<1> QED
  BY <1>1, <1>2, <1>3 DEF Hinge!ReadHinge, HingeInv, Claimed

-----------------------------------------------------------------------------
\* At the start nothing is claimed and no posture is known.
LEMMA HingeInit == Hinge!Init => HingeInv
BY DEF Hinge!Init, HingeInv, Claimed, Hinge!InputsFollow

\* Every step keeps it, those of the shell, of the machine and of the user.
LEMMA HingeNext == HingeInv /\ [Hinge!Next]_(Hinge!vars) => HingeInv'
<1> SUFFICES ASSUME HingeInv, [Hinge!Next]_(Hinge!vars) PROVE HingeInv'
  OBVIOUS
<1>1. CASE Hinge!Tick
  <2>1. /\ posture_running' /\ posture_config' = posture_config
        /\ UNCHANGED <<proxy, posture_running>>
        /\ Hinge!ReadHinge(posture_config)
    BY <1>1 DEF Hinge!Tick
  <2> QED
    BY <2>1, ReadHingeFollows, Zenon
<1>2. CASE Hinge!ProxyFails
  BY <1>2 DEF Hinge!ProxyFails, HingeInv, Claimed, Hinge!InputsFollow
<1>3. CASE Hinge!Quit \/ Hinge!Crash
  BY <1>3 DEF Hinge!Quit, Hinge!Crash, HingeInv, Claimed, Hinge!InputsFollow
<1>4. ASSUME NEW told, Hinge!ProxyReady(told) PROVE HingeInv'
  <2>1. /\ ~claimed /\ posture_running
        /\ state # "folded" \/ ~posture_config.rotate => transform' = transform
    BY <1>4 DEF Hinge!ProxyReady, Hinge!UpdateFolded, HingeInv, Claimed
  <2> QED
    BY <1>4, <2>1 DEF Hinge!ProxyReady, HingeInv, Claimed, Hinge!InputsFollow
<1>5. ASSUME NEW told, Hinge!Sense(told) PROVE HingeInv'
  <2>1. state # "folded" \/ ~posture_config.rotate => transform' = transform
    BY <1>5 DEF Hinge!Sense, Hinge!UpdateFolded
  <2> QED
    BY <1>5, <2>1 DEF Hinge!Sense, HingeInv, Claimed, Hinge!InputsFollow
<1>6. ASSUME NEW to, Hinge!Turn(to) \/ Hinge!Move(to) \/ Hinge!Dim(to) PROVE HingeInv'
  BY <1>6
  DEF Hinge!Turn, Hinge!Move, Hinge!Dim, Hinge!Around, HingeInv, Claimed, Hinge!InputsFollow
<1>7. ASSUME NEW c, Hinge!Reload(c) PROVE HingeInv'
  <2>1. posture_running' /\ posture_config' = c /\ UNCHANGED <<proxy, posture_running>>
    BY <1>7 DEF Hinge!Reload
  <2>2. CASE state # "unknown" /\ Hinge!Effects(state, c)
    BY <2>1, <2>2, HingeEffectsFollow DEF HingeInv, Claimed
  <2>3. CASE state = "unknown" /\ Hinge!ReadHinge(c)
    BY <2>1, <2>3, ReadHingeFollows, Zenon
  <2>4. CASE state = "unknown" /\ Hinge!NoEffects
    BY <2>1, <2>4 DEF Hinge!NoEffects, HingeInv, Claimed, Hinge!InputsFollow
  <2> QED
    BY <1>7, <2>2, <2>3, <2>4 DEF Hinge!Reload
<1>8. ASSUME NEW read \in BOOLEAN, Hinge!Start(read) PROVE HingeInv'
  <2>1. /\ posture_running' /\ state = "unknown" /\ posture_config' = posture_config
        /\ ~claimed /\ proxy = "none" /\ proxy' # "ready"
    BY <1>8 DEF Hinge!Start, HingeInv, Claimed
  <2>2. CASE Hinge!NoEffects
    BY <2>1, <2>2 DEF Hinge!NoEffects, HingeInv, Claimed, Hinge!InputsFollow
  <2>3. ASSUME NEW new \in {"laptop", "folded"}, Hinge!Effects(new, posture_config)
        PROVE  HingeInv'
    <3>1. ~(new = "folded" /\ posture_config.rotate) => transform' = "normal"
      BY <2>1, <2>3 DEF Hinge!Effects, Hinge!Claim
    <3>2. state' = new /\ claimed' = FALSE
      BY <2>1, <2>3 DEF Hinge!Effects, Hinge!Claim
    <3>3. posture_inhibited' = [kbd   |-> state' = "folded" /\ posture_config'.kbd,
                                touch |-> state' = "laptop" /\ posture_config'.touch]
      BY <2>1, <2>3 DEF Hinge!Effects
    <3> QED
      BY <2>1, <3>1, <3>2, <3>3 DEF HingeInv, Claimed, Hinge!InputsFollow
  <2> QED
    BY <1>8, <2>1, <2>2, <2>3 DEF Hinge!Start, Hinge!ReadHinge
<1>9. CASE UNCHANGED Hinge!vars
  BY <1>9 DEF Hinge!vars, HingeInv, Claimed, Hinge!InputsFollow
<1> QED
  BY <1>1, <1>2, <1>3, <1>4, <1>5, <1>6, <1>7, <1>8, <1>9 DEF Hinge!Next

-----------------------------------------------------------------------------
\* Whatever is folded, turned, reloaded, killed and started, and however late the sensor
\* service answers, a shell that knows the posture has the keyboard, the touchscreen, the
\* claim on the accelerometer and the screen as the configuration wants them in it.
THEOREM InputsAlwaysFollow == Hinge!Spec => []InputsFollow
<1>1. HingeInv => InputsFollow
  BY DEF HingeInv, InputsFollow
<1> QED
  BY HingeInit, HingeNext, <1>1, PTL DEF Hinge!Spec

-----------------------------------------------------------------------------
(* The on-screen keyboard follows the text field and types what it shows,  *)
(* for any keys, keymaps, configurations and number of events.             *)
(*                                                                         *)
(* TypesWhatItShows is about the key typed last; that the next one is also *)
(* right rests on Synchronized: the labels are those of the modifiers and  *)
(* the group of the moment, and the compositor has the same modifiers.     *)
(* ComesAndGoes says which keys may repeat; Windowed adds that a finger is *)
(* never on the key that hides, which no repetition could fire.            *)
Synchronized ==
  /\ mods \in [Keyboard!Modifiers -> {"off", "latched", "locked"}]
  /\ labels = Keyboard!Labels(mods, at)
  /\ sent.mods = Keyboard!Depressed(mods)

Windowed ==
  /\ pressed \subseteq {key \in Keys : key.kind # "hide"}
  /\ repeat = Keyboard!Repeats(repeat.key, repeat.timer)
  /\ edge = [zone |-> edge.zone, margin |-> edge.margin]
  /\ im = [there |-> im.there, pending |-> im.pending, active |-> im.active]
  /\ im.pending \in BOOLEAN /\ im.active \in BOOLEAN
  /\ visible \in BOOLEAN /\ pinned \in BOOLEAN

KeyboardInv ==
  Synchronized /\ Windowed /\ Keyboard!TypesWhatItShows /\ Keyboard!ComesAndGoes

-----------------------------------------------------------------------------
\* A latched modifier goes, one that is locked or off stays, and once is enough.
LEMMA UnlatchedIsStable ==
  ASSUME NEW m \in [Keyboard!Modifiers -> {"off", "latched", "locked"}]
  PROVE  /\ Keyboard!Unlatched(m) \in [Keyboard!Modifiers -> {"off", "latched", "locked"}]
         /\ Keyboard!Unlatched(Keyboard!Unlatched(m)) = Keyboard!Unlatched(m)
BY DEF Keyboard!Unlatched

\* What the compositor is sent is what is on.
LEMMA SyncedMods ==
  ASSUME NEW m, NEW group
  PROVE  Keyboard!Synced(m, group).mods = Keyboard!Depressed(m)
BY DEF Keyboard!Synced

\* clear_latched_modifiers keeps labels and compositor with the modifiers.
LEMMA ClearLatchedKeeps ==
  ASSUME Synchronized, Keyboard!ClearLatched, at' = at
  PROVE  Synchronized' /\ mods' = Keyboard!Unlatched(mods')
<1>1. /\ mods' \in [Keyboard!Modifiers -> {"off", "latched", "locked"}]
      /\ mods' = Keyboard!Unlatched(mods')
  BY UnlatchedIsStable DEF Synchronized, Keyboard!ClearLatched
<1>2. labels' = Keyboard!Labels(mods', at')
  BY DEF Synchronized, Keyboard!ClearLatched
<1>3. sent'.mods = Keyboard!Depressed(mods')
  BY SyncedMods DEF Synchronized, Keyboard!ClearLatched
<1> QED
  BY <1>1, <1>2, <1>3 DEF Synchronized

\* A tap keeps them too, and what it types is right if it was given what is shown.
LEMMA TapKeeps ==
  ASSUME Synchronized, NEW got, NEW shown, Keyboard!Tap(got, shown),
         mods["shift"] = "locked" \/ got = shown
  PROVE  /\ Synchronized' /\ Keyboard!TypesWhatItShows'
         /\ UNCHANGED <<visible, pinned, edge>>
<1>1. /\ mods' \in [Keyboard!Modifiers -> {"off", "latched", "locked"}]
      /\ UNCHANGED <<at, visible, pinned, edge>>
  BY UnlatchedIsStable DEF Synchronized, Keyboard!Tap
<1>2. labels' = Keyboard!Labels(mods', at')
  BY <1>1 DEF Synchronized, Keyboard!Tap
<1>3. sent'.mods = Keyboard!Depressed(mods')
  BY SyncedMods DEF Synchronized, Keyboard!Tap
<1>4. Keyboard!TypesWhatItShows'
  BY DEF Keyboard!TypesWhatItShows, Keyboard!Tap
<1> QED
  BY <1>1, <1>2, <1>3, <1>4 DEF Synchronized

\* Shift and AltGr alone choose a character of a key.
LEMMA ShiftAndAltGrChoose ==
  ASSUME NEW group, NEW code, NEW held, NEW other, NEW caps,
         "shift" \in held <=> "shift" \in other, "altgr" \in held <=> "altgr" \in other
  PROVE  Keyboard!Query(group, code, held, caps) = Keyboard!Query(group, code, other, caps)
<1> DEFINE turned == caps /\ groups[group][code].type = "alphabetic"
           place(h) == (IF ("shift" \in h) # turned THEN 2 ELSE 1) + (IF "altgr" \in h THEN 2 ELSE 0)
<1>1. ASSUME NEW h
      PROVE  Keyboard!Query(group, code, h, caps) = groups[group][code].chars[place(h)]
  BY DEF Keyboard!Query
<1>2. (("shift" \in held) # turned) <=> (("shift" \in other) # turned)
  <2> HIDE DEF turned
  <2>1. CASE "shift" \in held
    <3>1. ("shift" \in held) = TRUE /\ ("shift" \in other) = TRUE
      BY <2>1
    <3> QED
      BY <3>1, Zenon
  <2>2. CASE "shift" \notin held
    <3>1. ("shift" \in held) = FALSE /\ ("shift" \in other) = FALSE
      BY <2>2
    <3> QED
      BY <3>1, Zenon
  <2> QED
    BY <2>1, <2>2
<1>3. place(held) = place(other)
  <2> HIDE DEF turned
  <2> QED
    BY <1>2, Zenon
<1> HIDE DEF place
<1> QED
  BY <1>1, <1>3

\* The label of a key knows of nothing else, so it is what the key gives while Shift is
\* not locked.
LEMMA LabelIsTyped ==
  ASSUME Synchronized, mods["shift"] # "locked", NEW code
  PROVE  Keyboard!Literal(Keyboard!Query(at, code, Keyboard!Depressed(mods),
                                         mods["shift"] = "locked"))
           = Keyboard!KeyLabel(code)
<1> DEFINE held == (IF labels.shift THEN {"shift"} ELSE {})
                     \cup (IF labels.altgr THEN {"altgr"} ELSE {})
<1>1. /\ labels.group = at /\ labels.caps = (mods["shift"] = "locked")
      /\ labels.shift = (mods["shift"] = "latched") /\ labels.altgr = (mods["altgr"] # "off")
  BY DEF Synchronized, Keyboard!Labels
<1>2. /\ ("shift" \in Keyboard!Depressed(mods)) <=> (mods["shift"] # "off")
      /\ ("altgr" \in Keyboard!Depressed(mods)) <=> (mods["altgr"] # "off")
  BY DEF Keyboard!Depressed, Keyboard!Modifiers
<1>3. mods["shift"] \in {"off", "latched", "locked"}
  BY DEF Synchronized, Keyboard!Modifiers
<1>4. /\ "shift" \in held <=> "shift" \in Keyboard!Depressed(mods)
      /\ "altgr" \in held <=> "altgr" \in Keyboard!Depressed(mods)
  <2>1. ("shift" \in held <=> labels.shift) /\ ("altgr" \in held <=> labels.altgr)
    OBVIOUS
  <2>2. mods["shift"] = "latched" <=> mods["shift"] # "off"
    BY <1>3
  <2> HIDE DEF held
  <2>3. labels.shift <=> mods["shift"] = "latched"
    BY <1>1, Zenon
  <2>4. labels.altgr <=> mods["altgr"] # "off"
    BY <1>1, Zenon
  <2> QED
    BY <1>2, <2>1, <2>2, <2>3, <2>4, Zenon
<1> HIDE DEF held
<1>5. Keyboard!Query(at, code, Keyboard!Depressed(mods), mods["shift"] = "locked")
        = Keyboard!Query(labels.group, code, held, labels.caps)
  BY <1>1, <1>4, ShiftAndAltGrChoose
<1> USE DEF held
<1> QED
  BY <1>5 DEF Keyboard!KeyLabel

\* shell_osk_xkb_find_symbol finds a key that gives the symbol on its level.
LEMMA FoundGives ==
  ASSUME NEW symbol, NEW b \in Keyboard!FindSymbol(symbol)
  PROVE  Keyboard!Literal(Keyboard!Query(at, b.code, b.held, FALSE)) = symbol
<1> DEFINE Levels == <<{}, {"shift"}, {"altgr"}, {"shift", "altgr"}>>
           char(p) == Keyboard!Query(at, Codes[p[2]], Levels[p[1]], FALSE)
           has == {p \in (1..4) \X DOMAIN Codes : Keyboard!Literal(char(p)) = symbol}
           live == {p \in has : char(p) = symbol}
           among == IF live # {} THEN live ELSE has
           first == {p \in among : \A q \in among :
                        p[1] < q[1] \/ (p[1] = q[1] /\ p[2] <= q[2])}
<1>1. Keyboard!FindSymbol(symbol) = {[code |-> Codes[p[2]], held |-> Levels[p[1]]] : p \in first}
  BY DEF Keyboard!FindSymbol
<1>2. first \subseteq has
  OBVIOUS
<1>3. \A p \in has : Keyboard!Literal(char(p)) = symbol
  OBVIOUS
<1> HIDE DEF first, has, Levels
<1>4. PICK p \in first : b = [code |-> Codes[p[2]], held |-> Levels[p[1]]]
  BY <1>1
<1>5. Keyboard!Query(at, b.code, b.held, FALSE) = char(p)
  BY <1>4
<1> QED
  BY <1>2, <1>3, <1>4, <1>5

\* Whatever key of the layout fires, but the one that hides the keyboard.
LEMMA FireKeeps ==
  ASSUME Synchronized, Keyboard!TypesWhatItShows, NEW key \in Keys, key.kind # "hide",
         Keyboard!Fire(key)
  PROVE  /\ Synchronized' /\ Keyboard!TypesWhatItShows'
         /\ UNCHANGED <<visible, pinned, edge>>
<1>1. CASE key.kind = "evdev"
  <2>1. Keyboard!Evdev(key)
    BY <1>1 DEF Keyboard!Fire, Keyboard!Modifiers
  <2>2. \/ mods["shift"] = "locked"
        \/ Keyboard!Literal(Keyboard!Query(at, key.code, Keyboard!Depressed(mods),
                                           mods["shift"] = "locked")) = Keyboard!KeyLabel(key.code)
    BY LabelIsTyped
  <2> QED
    BY <2>1, <2>2, TapKeeps DEF Keyboard!Evdev
<1>2. CASE key.kind = "symbol"
  <2>1. Keyboard!Symbol(key)
    BY <1>2 DEF Keyboard!Fire, Keyboard!Modifiers
  <2>2. ASSUME NEW b \in Keyboard!FindSymbol(key.symbol),
               Keyboard!Tap(Keyboard!Literal(Keyboard!Query(at, b.code, b.held,
                                                            mods["shift"] = "locked")), key.symbol)
        PROVE  /\ Synchronized' /\ Keyboard!TypesWhatItShows'
               /\ UNCHANGED <<visible, pinned, edge>>
    <3>1. CASE mods["shift"] = "locked"
      BY <2>2, <3>1, TapKeeps
    <3>2. CASE mods["shift"] # "locked"
      <4>1. Keyboard!Literal(Keyboard!Query(at, b.code, b.held, mods["shift"] = "locked"))
              = key.symbol
        <5>1. (mods["shift"] = "locked") = FALSE
          BY <3>2
        <5> QED
          BY <5>1, FoundGives
      <4> QED
        BY <2>2, <4>1, TapKeeps
    <3> QED
      BY <3>1, <3>2
  <2>3. CASE /\ Keyboard!ClearLatched
             /\ UNCHANGED <<typed, groups, at, visible, pinned, edge>>
    BY <2>3, ClearLatchedKeeps DEF Keyboard!TypesWhatItShows
  <2> QED
    BY <2>1, <2>2, <2>3 DEF Keyboard!Symbol
<1>3. CASE key.kind = "globe"
  <2>1. Keyboard!Globe
    BY <1>3 DEF Keyboard!Fire, Keyboard!Modifiers
  <2>2. sent'.mods = Keyboard!Depressed(mods)
    BY <2>1, SyncedMods DEF Keyboard!Globe
  <2> QED
    BY <2>1, <2>2 DEF Keyboard!Globe, Synchronized, Keyboard!TypesWhatItShows
<1>4. CASE key.kind \in Keyboard!Modifiers
  <2>1. Keyboard!Sticky(key.kind)
    BY <1>4 DEF Keyboard!Fire, Keyboard!Modifiers
  <2>2. sent'.mods = Keyboard!Depressed(mods')
    BY <2>1, SyncedMods DEF Keyboard!Sticky
  <2>3. mods' \in [Keyboard!Modifiers -> {"off", "latched", "locked"}]
    BY <1>4, <2>1 DEF Keyboard!Sticky, Synchronized
  <2> QED
    BY <2>1, <2>2, <2>3 DEF Keyboard!Sticky, Synchronized, Keyboard!TypesWhatItShows
<1> QED
  BY <1>1, <1>2, <1>3, <1>4, KeysAssumption

-----------------------------------------------------------------------------
\* The keyboard appears: what it shows is made anew.
LEMMA ShowKeeps ==
  ASSUME KeyboardInv, NEW pin \in BOOLEAN, Keyboard!Show(pin), UNCHANGED <<typed, at, layout>>,
         im' = [im EXCEPT !.active = im'.active], im'.active \in BOOLEAN, pin \/ im'.active
  PROVE  KeyboardInv'
<1>1. Synchronized'
  BY DEF KeyboardInv, Synchronized, Keyboard!Show
<1>2. Keyboard!TypesWhatItShows'
  BY DEF KeyboardInv, Keyboard!TypesWhatItShows
<1>3. edge' = Keyboard!Edge(TRUE, layout')
  BY DEF Keyboard!Show
<1>4. edge' = [zone |-> edge'.zone, margin |-> edge'.margin]
  BY <1>3 DEF Keyboard!Edge
<1>5. /\ im' = [there |-> im'.there, pending |-> im'.pending, active |-> im'.active]
      /\ im'.pending \in BOOLEAN
  BY DEF KeyboardInv, Windowed
<1>6. Windowed'
  BY <1>4, <1>5 DEF KeyboardInv, Windowed, Keyboard!Show
<1>7. repeat'.timer # "none" => repeat'.key \in pressed'
  BY DEF KeyboardInv, Keyboard!ComesAndGoes, Keyboard!Show
<1>8. Keyboard!ComesAndGoes'
  BY <1>3, <1>7 DEF Keyboard!ComesAndGoes, Keyboard!Show
<1> QED
  BY <1>1, <1>2, <1>6, <1>8 DEF KeyboardInv

\* The keyboard goes, and leaves nothing behind.
LEMMA HideKeeps ==
  ASSUME KeyboardInv, Keyboard!Hide, UNCHANGED <<typed, at>>,
         Windowed => /\ im' = [there |-> im'.there, pending |-> im'.pending,
                               active |-> im'.active]
                     /\ im'.pending \in BOOLEAN /\ im'.active \in BOOLEAN
  PROVE  KeyboardInv'
<1>1. Synchronized' /\ mods' = Keyboard!Unlatched(mods')
  BY ClearLatchedKeeps DEF KeyboardInv, Keyboard!Hide
<1>2. Keyboard!TypesWhatItShows'
  BY DEF KeyboardInv, Keyboard!TypesWhatItShows
<1>3. edge' = [edge EXCEPT !.zone = FALSE]
  BY DEF Keyboard!Hide, Keyboard!Unmapped
<1>4. edge' = [zone |-> edge'.zone, margin |-> edge'.margin] /\ edge'.zone = FALSE
  BY <1>3 DEF KeyboardInv, Windowed
<1>5. repeat' = Keyboard!Repeats(repeat'.key, repeat'.timer) /\ repeat'.timer = "none"
  BY DEF Keyboard!Hide, Keyboard!stop_repeat_timers, Keyboard!Repeats
<1>6. visible' = FALSE /\ pinned' = FALSE /\ pressed' = {}
  BY DEF Keyboard!Hide, Keyboard!Unmapped
<1>7. Windowed'
  BY <1>4, <1>5, <1>6 DEF KeyboardInv, Windowed
<1>8. sent'.mods = Keyboard!Depressed(mods')
  BY <1>1 DEF Synchronized
<1>9. Keyboard!ComesAndGoes'
  BY <1>1, <1>4, <1>5, <1>6, <1>8 DEF Keyboard!ComesAndGoes
<1> QED
  BY <1>1, <1>2, <1>7, <1>9 DEF KeyboardInv

\* At the start it is away.
LEMMA KeyboardInit == Keyboard!Init => KeyboardInv
<1> SUFFICES ASSUME Keyboard!Init PROVE KeyboardInv
  OBVIOUS
<1>1. mods = [which \in Keyboard!Modifiers |-> "off"] /\ at = 1
  BY DEF Keyboard!Init, Keyboard!Off
<1>2. labels = Keyboard!Labels(mods, at) /\ sent = Keyboard!Synced(mods, at)
  BY <1>1 DEF Keyboard!Init, Keyboard!Off
<1>3. Synchronized
  BY <1>1, <1>2, SyncedMods DEF Synchronized
<1>4. repeat = Keyboard!Repeats(repeat.key, repeat.timer) /\ repeat.timer = "none"
  BY DEF Keyboard!Init, Keyboard!stop_repeat_timers, Keyboard!Repeats
<1>5. edge = [zone |-> edge.zone, margin |-> edge.margin] /\ edge.zone = FALSE
  BY DEF Keyboard!Init, Keyboard!Edge
<1>6. Windowed
  BY <1>4, <1>5 DEF Keyboard!Init, Windowed
<1>7. Keyboard!TypesWhatItShows
  BY DEF Keyboard!Init, Keyboard!TypesWhatItShows
<1>8. mods = Keyboard!Unlatched(mods)
  BY <1>1 DEF Keyboard!Unlatched
<1>9. Keyboard!ComesAndGoes
  BY <1>3, <1>4, <1>5, <1>8 DEF Keyboard!Init, Keyboard!ComesAndGoes, Synchronized
<1> QED
  BY <1>3, <1>6, <1>7, <1>9 DEF KeyboardInv

\* Whatever the user, the text fields, the timers and the compositor do.
LEMMA KeyboardNext == KeyboardInv /\ [Keyboard!Next]_(Keyboard!vars) => KeyboardInv'
<1> SUFFICES ASSUME KeyboardInv, [Keyboard!Next]_(Keyboard!vars) PROVE KeyboardInv'
  OBVIOUS
<1>a. Synchronized /\ Windowed /\ Keyboard!TypesWhatItShows /\ Keyboard!ComesAndGoes
  BY DEF KeyboardInv
<1>b. im.active \in BOOLEAN /\ im = [im EXCEPT !.active = im.active]
  BY <1>a DEF Windowed
<1>h. ASSUME Keyboard!Hide, UNCHANGED <<typed, at, im>>
      PROVE  KeyboardInv'
  BY <1>h, HideKeeps DEF Windowed
<1>s. ASSUME Keyboard!Show(TRUE), UNCHANGED <<typed, at, im, layout>>
      PROVE  KeyboardInv'
  BY <1>s, <1>b, ShowKeeps
<1>1. CASE Keyboard!Toggle
  BY <1>1, <1>h, <1>s DEF Keyboard!Toggle
<1>2. CASE Keyboard!ShowOsk
  BY <1>2, <1>s DEF Keyboard!ShowOsk
<1>3. CASE Keyboard!HideOsk
  BY <1>3, <1>h DEF Keyboard!HideOsk
<1>4. CASE Keyboard!ImDone
  <2>1. /\ im' = [im EXCEPT !.active = im.pending] /\ UNCHANGED <<typed, at, layout>>
    BY <1>4 DEF Keyboard!ImDone
  <2>2. /\ im' = [there |-> im'.there, pending |-> im'.pending, active |-> im'.active]
        /\ im'.active = im.pending /\ im'.pending = im.pending /\ im'.active \in BOOLEAN
    BY <2>1, <1>a DEF Windowed
  <2>3. CASE im.pending /\ ~im.active /\ Keyboard!AutoShow
    <3>1. Keyboard!Show(FALSE)
      BY <1>4, <2>3 DEF Keyboard!ImDone
    <3> QED
      BY <2>1, <2>2, <2>3, <3>1, ShowKeeps
  <2>4. CASE ~im.pending /\ im.active /\ visible /\ ~pinned
    <3>1. Keyboard!Hide
      BY <1>4, <2>4 DEF Keyboard!ImDone
    <3> QED
      BY <2>1, <2>2, <3>1, HideKeeps
  <2>5. CASE /\ ~(im.pending /\ ~im.active /\ Keyboard!AutoShow)
             /\ ~(~im.pending /\ im.active /\ visible /\ ~pinned)
    <3>1. Keyboard!Stays
      BY <1>4, <2>5 DEF Keyboard!ImDone
    <3>2. UNCHANGED <<visible, pinned, edge, repeat, pressed, mods, sent, labels, typed, at, layout>>
      BY <2>1, <3>1 DEF Keyboard!Stays, Keyboard!window
    <3>3. Synchronized' /\ Windowed' /\ Keyboard!TypesWhatItShows'
      BY <1>a, <2>1, <2>2, <3>2 DEF Synchronized, Windowed, Keyboard!TypesWhatItShows
    <3>4. visible' => pinned' \/ im'.active
      BY <1>a, <2>2, <2>5, <3>2 DEF Windowed, Keyboard!ComesAndGoes
    <3>5. Keyboard!ComesAndGoes'
      BY <1>a, <3>2, <3>4 DEF Keyboard!ComesAndGoes
    <3> QED
      BY <3>3, <3>5 DEF KeyboardInv
  <2> QED
    BY <2>3, <2>4, <2>5
<1>5. CASE Keyboard!ImUnavailable \/ \E active \in BOOLEAN : Keyboard!ImPending(active)
  <2>1. /\ UNCHANGED <<visible, pinned, edge, repeat, pressed, mods, sent, labels, typed, at, layout>>
    BY <1>5 DEF Keyboard!ImUnavailable, Keyboard!ImPending, Keyboard!keyboard, Keyboard!window
  <2>2. /\ im' = [there |-> im'.there, pending |-> im'.pending, active |-> im'.active]
        /\ im'.active = im.active /\ im'.pending \in BOOLEAN
    BY <1>5, <1>a DEF Keyboard!ImUnavailable, Keyboard!ImPending, Windowed
  <2>3. Synchronized' /\ Windowed' /\ Keyboard!TypesWhatItShows'
    BY <1>a, <2>1, <2>2 DEF Synchronized, Windowed, Keyboard!TypesWhatItShows
  <2>4. Keyboard!ComesAndGoes'
    BY <1>a, <2>1, <2>2 DEF Keyboard!ComesAndGoes
  <2> QED
    BY <2>3, <2>4 DEF KeyboardInv
<1>6. CASE Keyboard!Fold \/ UNCHANGED Keyboard!vars
  <2>1. UNCHANGED <<im, layout, visible, pinned, edge, repeat, pressed, mods, sent, labels, typed, at>>
    BY <1>6 DEF Keyboard!Fold, Keyboard!vars, Keyboard!keyboard, Keyboard!window
  <2>2. Synchronized' /\ Windowed' /\ Keyboard!TypesWhatItShows'
    BY <1>a, <2>1 DEF Synchronized, Windowed, Keyboard!TypesWhatItShows
  <2>3. Keyboard!ComesAndGoes'
    BY <1>a, <2>1 DEF Keyboard!ComesAndGoes
  <2> QED
    BY <2>2, <2>3 DEF KeyboardInv
<1>7. ASSUME NEW l, Keyboard!Reload(l) PROVE KeyboardInv'
  <2>1. /\ UNCHANGED <<im, visible, pinned, repeat, pressed, mods, sent, labels, typed, at>>
        /\ layout' = l /\ edge' = Keyboard!Edge(visible, l)
    BY <1>7 DEF Keyboard!Reload, Keyboard!keyboard
  <2>2. /\ edge' = [zone |-> edge'.zone, margin |-> edge'.margin]
        /\ visible' => edge' = Keyboard!Edge(TRUE, layout')
        /\ ~visible' => ~edge'.zone
    BY <1>a, <2>1 DEF Keyboard!Edge, Windowed
  <2>3. Synchronized' /\ Windowed' /\ Keyboard!TypesWhatItShows'
    BY <1>a, <2>1, <2>2 DEF Synchronized, Windowed, Keyboard!TypesWhatItShows
  <2>4. Keyboard!ComesAndGoes'
    BY <1>a, <2>1, <2>2 DEF Keyboard!ComesAndGoes
  <2> QED
    BY <2>3, <2>4 DEF KeyboardInv
<1>8. ASSUME NEW key \in Keys, Keyboard!Press(key) PROVE KeyboardInv'
  <2>1. CASE key.kind = "hide"
    BY <1>8, <2>1, <1>h DEF Keyboard!Press
  <2>2. CASE key.kind # "hide"
    <3>1. /\ Keyboard!Fire(key) /\ pressed' = pressed \cup {key} /\ visible
          /\ repeat' = IF key.repeatable THEN Keyboard!Repeats(key, "delay")
                       ELSE Keyboard!stop_repeat_timers
          /\ UNCHANGED <<im, layout>>
      BY <1>8, <2>2 DEF Keyboard!Press
    <3>2. /\ repeat' = Keyboard!Repeats(repeat'.key, repeat'.timer)
          /\ repeat'.timer # "none" => repeat'.key = key
      BY <3>1 DEF Keyboard!stop_repeat_timers, Keyboard!Repeats
    <3>3. /\ Synchronized' /\ Keyboard!TypesWhatItShows'
          /\ UNCHANGED <<visible, pinned, edge>>
      BY <1>a, <2>2, <3>1, FireKeeps
    <3>4. Windowed'
      BY <1>a, <2>2, <3>1, <3>2, <3>3 DEF Windowed
    <3>5. Keyboard!ComesAndGoes'
      BY <1>a, <3>1, <3>2, <3>3 DEF Keyboard!ComesAndGoes
    <3> QED
      BY <3>3, <3>4, <3>5 DEF KeyboardInv
  <2> QED
    BY <2>1, <2>2
<1>9. ASSUME NEW key \in Keys, Keyboard!Release(key) PROVE KeyboardInv'
  <2>1. /\ UNCHANGED <<im, layout, mods, sent, labels, typed, at, visible, pinned, edge>>
        /\ pressed' = pressed \ {key}
    BY <1>9 DEF Keyboard!Release, Keyboard!keyboard
  <2>2. repeat' = Keyboard!Repeats(repeat'.key, repeat'.timer) /\ repeat'.timer = "none"
    BY <1>9 DEF Keyboard!Release, Keyboard!stop_repeat_timers, Keyboard!Repeats
  <2>3. Synchronized' /\ Windowed' /\ Keyboard!TypesWhatItShows'
    BY <1>a, <2>1, <2>2 DEF Synchronized, Windowed, Keyboard!TypesWhatItShows
  <2>4. Keyboard!ComesAndGoes'
    BY <1>a, <2>1, <2>2 DEF Keyboard!ComesAndGoes
  <2> QED
    BY <2>3, <2>4 DEF KeyboardInv
<1>10. CASE Keyboard!Repeat
  <2>1. visible /\ repeat.key \in pressed /\ repeat.key \in Keys /\ repeat.key.kind # "hide"
    BY <1>a, <1>10 DEF Keyboard!Repeat, Keyboard!ComesAndGoes, Windowed
  <2>2. /\ Keyboard!Fire(repeat.key) /\ repeat' = [repeat EXCEPT !.timer = "tick"]
        /\ UNCHANGED <<im, layout, pressed>>
    BY <1>10, <2>1 DEF Keyboard!Repeat
  <2>3. repeat' = Keyboard!Repeats(repeat'.key, repeat'.timer) /\ repeat'.key = repeat.key
    BY <1>a, <2>2 DEF Windowed, Keyboard!Repeats
  <2>4. Synchronized' /\ Keyboard!TypesWhatItShows' /\ UNCHANGED <<visible, pinned, edge>>
    BY <1>a, <2>1, <2>2, FireKeeps
  <2>5. Windowed'
    BY <1>a, <2>2, <2>3, <2>4 DEF Windowed
  <2>6. Keyboard!ComesAndGoes'
    BY <1>a, <2>1, <2>2, <2>3, <2>4 DEF Keyboard!ComesAndGoes
  <2> QED
    BY <2>4, <2>5, <2>6 DEF KeyboardInv
<1>11. ASSUME NEW group, Keyboard!GroupChanged(group) PROVE KeyboardInv'
  <2>1. /\ UNCHANGED <<im, layout, mods, typed, visible, pinned, edge, repeat, pressed>>
        /\ labels' = Keyboard!Labels(mods, at') /\ sent' = Keyboard!Synced(mods, group)
    BY <1>11 DEF Keyboard!GroupChanged, Keyboard!window
  <2>2. Synchronized' /\ sent'.mods = sent.mods
    BY <1>a, <2>1, SyncedMods DEF Synchronized
  <2> QED
    BY <1>a, <2>1, <2>2
    DEF KeyboardInv, Windowed, Keyboard!TypesWhatItShows, Keyboard!ComesAndGoes
<1>12. ASSUME NEW map, Keyboard!KeymapChanged(map) PROVE KeyboardInv'
  <2>1. /\ UNCHANGED <<im, layout, mods, sent, typed, visible, pinned, edge, repeat, pressed>>
        /\ labels' = Keyboard!Labels(mods, at')
    BY <1>12 DEF Keyboard!KeymapChanged, Keyboard!window
  <2>2. Synchronized'
    BY <1>a, <2>1 DEF Synchronized
  <2> QED
    BY <1>a, <2>1, <2>2
    DEF KeyboardInv, Windowed, Keyboard!TypesWhatItShows, Keyboard!ComesAndGoes
<1> QED
  BY <1>1, <1>2, <1>3, <1>4, <1>5, <1>6, <1>7, <1>8, <1>9, <1>10, <1>11, <1>12
  DEF Keyboard!Next

-----------------------------------------------------------------------------
\* In any keymap and group and at any moment of the sticky modifiers a key types what it
\* shows while Shift is not locked; and however text fields, gestures, timers and reloads
\* meet, the keyboard comes and goes as it is asked to and leaves nothing behind
\* (osk/osk.c).
THEOREM KeyboardAlwaysFollows == Keyboard!Spec => []KeyboardFollows
<1>1. KeyboardInv => KeyboardFollows
  BY DEF KeyboardInv, KeyboardFollows
<1> QED
  BY KeyboardInit, KeyboardNext, <1>1, PTL DEF Keyboard!Spec

-----------------------------------------------------------------------------
(* Sums over finite sets: MapThenSumSet is defined by recursion over the   *)
(* subsets of the set.  That its result is an integer is an induction over *)
(* the number of elements, carried out as the search for a least           *)
(* counterexample.                                                         *)

\* One step of the recursion for the terms d, and what it means to solve it.
SumStep(d, s, f) ==
  IF s = {} THEN 0 ELSE d[CHOOSE x \in s : TRUE] + f[s \ {CHOOSE x \in s : TRUE}]
SumsUpto(d, T, f) == f = [s \in T |-> SumStep(d, s, f)]

\* A set of naturals that has a member has a least one.
LEMMA LeastNatural ==
  ASSUME NEW B, B \subseteq Nat, B # {}
  PROVE  \E m \in B : \A k \in B : m <= k
<1>1. PICK m \in B : \A k \in B : ~(<<k, m>> \in OpToRel(<, Nat))
  BY NatLessThanWellFounded, WFMin, Zenon
<1>2. \A k \in B : ~(k < m)
  BY <1>1 DEF OpToRel
<1> QED
  BY <1>2

\* The recursion over the subsets of a finite set has a solution.
LEMMA SumsExist ==
  ASSUME NEW d, NEW T, IsFiniteSet(T)
  PROVE  \E f : SumsUpto(d, SUBSET T, f)
<1> DEFINE Small(n) == {s \in SUBSET T : Cardinality(s) <= n}
           B == {n \in Nat : ~ \E f : SumsUpto(d, Small(n), f)}
<1>1. \A s \in SUBSET T : IsFiniteSet(s) /\ Cardinality(s) \in Nat
  BY FS_Subset, FS_CardinalityType
<1>2. B = {}
  <2> SUFFICES ASSUME B # {} PROVE FALSE
    OBVIOUS
  <2>1. PICK m \in B : \A k \in B : m <= k
    BY LeastNatural
  <2>2. m \in Nat /\ ~ \E f : SumsUpto(d, Small(m), f)
    OBVIOUS
  <2>3. CASE m = 0
    <3>1. Small(0) = {{}}
      BY <1>1, FS_EmptySet
    <3> DEFINE f == [s \in {{}} |-> 0]
    <3>2. f = [s \in {{}} |-> SumStep(d, s, f)]
      BY DEF SumStep
    <3>3. SumsUpto(d, {{}}, f)
      BY <3>2 DEF SumsUpto
    <3> QED
      BY <2>2, <2>3, <3>1, <3>3
  <2>4. CASE m # 0
    <3>1. m - 1 \in Nat /\ m - 1 \notin B
      <4>1. m - 1 \in Nat /\ ~(m <= m - 1)
        BY <2>2, <2>4
      <4> HIDE DEF B
      <4> QED
        BY <2>1, <4>1
    <3>2. PICK f : SumsUpto(d, Small(m - 1), f)
      BY <3>1
    <3> DEFINE g == [s \in Small(m) |-> SumStep(d, s, f)]
    <3>3. ASSUME NEW s \in Small(m) PROVE SumStep(d, s, f) = SumStep(d, s, g)
      <4>1. CASE s = {}
        BY <4>1 DEF SumStep
      <4>2. CASE s # {}
        <5> DEFINE x == CHOOSE e \in s : TRUE
                   r == s \ {x}
        <5>1. x \in s
          BY <4>2
        <5>2. Cardinality(r) = Cardinality(s) - 1
          BY <1>1, <5>1, FS_RemoveElement
        <5>3. r \in Small(m - 1) /\ r \in Small(m)
          BY <1>1, <2>2, <5>2
        <5>4. f[r] = SumStep(d, r, f)
          BY <3>2, <5>3 DEF SumsUpto
        <5>5. g[r] = SumStep(d, r, f)
          BY <5>3
        <5> QED
          BY <4>2, <5>4, <5>5 DEF SumStep
      <4> QED
        BY <4>1, <4>2
    <3>4. g = [s \in Small(m) |-> SumStep(d, s, g)]
      BY <3>3
    <3>5. SumsUpto(d, Small(m), g)
      BY <3>4 DEF SumsUpto
    <3> QED
      BY <2>2, <3>5
  <2> QED
    BY <2>3, <2>4
<1>3. Cardinality(T) \in Nat
  BY FS_CardinalityType
<1>4. PICK f : SumsUpto(d, Small(Cardinality(T)), f)
  BY <1>2, <1>3
<1>5. Small(Cardinality(T)) = SUBSET T
  BY FS_Subset
<1> QED
  BY <1>4, <1>5

\* Every solution adds integers to an integer.
LEMMA SumsAreIntegers ==
  ASSUME NEW T, IsFiniteSet(T), NEW d \in [T -> Int], NEW f, SumsUpto(d, SUBSET T, f)
  PROVE  f[T] \in Int
<1> DEFINE B == {n \in Nat : \E s \in SUBSET T : Cardinality(s) = n /\ f[s] \notin Int}
<1>1. \A s \in SUBSET T : IsFiniteSet(s) /\ Cardinality(s) \in Nat
  BY FS_Subset, FS_CardinalityType
<1>2. \A s \in SUBSET T : f[s] = SumStep(d, s, f)
  BY DEF SumsUpto
<1>3. B = {}
  <2> SUFFICES ASSUME B # {} PROVE FALSE
    OBVIOUS
  <2>1. PICK m \in B : \A k \in B : m <= k
    BY LeastNatural
  <2>2. PICK s \in SUBSET T : Cardinality(s) = m /\ f[s] \notin Int
    OBVIOUS
  <2>3. s # {}
    <3>1. s = {} => SumStep(d, s, f) = 0
      BY DEF SumStep
    <3>2. f[s] = SumStep(d, s, f)
      BY <1>2
    <3>3. s = {} => f[s] = 0
      BY <3>1, <3>2
    <3> HIDE DEF B
    <3> QED
      BY <2>2, <3>3
  <2> DEFINE x == CHOOSE e \in s : TRUE
             r == s \ {x}
  <2>4. x \in s /\ x \in T
    BY <2>3
  <2>5. Cardinality(r) = m - 1 /\ Cardinality(r) \in Nat /\ r \in SUBSET T
    BY <1>1, <2>2, <2>4, FS_RemoveElement
  <2>6. f[r] \in Int
    <3>1. m - 1 \notin B /\ m - 1 \in Nat
      BY <2>1, <2>5
    <3> QED
      BY <2>5, <3>1
  <2>7. f[s] = d[x] + f[r]
    BY <1>2, <2>3 DEF SumStep
  <2> QED
    BY <2>2, <2>4, <2>6, <2>7
<1> QED
  BY <1>1, <1>3

\* So the sum over a finite set of integers is an integer.
LEMMA SumIsInteger ==
  ASSUME NEW T, IsFiniteSet(T), NEW d \in [T -> Int]
  PROVE  (CHOOSE f : SumsUpto(d, SUBSET T, f))[T] \in Int
BY SumsExist, SumsAreIntegers

-----------------------------------------------------------------------------
(* The touchscreen's gestures: one swipe a touch, and the way the fingers  *)
(* went, for any number of slots, size of panel, movement and number of    *)
(* reports.                                                                *)
(*                                                                         *)
(* OneSwipeATouch counts what a touch has done and says nothing of why it  *)
(* does no more; Triggers ties it to the two flags that hold further       *)
(* swipes back.                                                            *)
Spot == [x : Int, y : Int]
Finger == [on : BOOLEAN, start : Spot, cur : Spot]

Tracked ==
  /\ slots \in [Slots -> Finger] /\ most \in Nat
  /\ triggered \in BOOLEAN /\ edged \in BOOLEAN
  /\ degrees \in {0, 90, 180, 270} /\ posture \in {0, 90, 180, 270}
  /\ touch_config.panel \in {"top", "bottom"}

Swipes == {"FocusWorkspaceDown", "FocusWorkspaceUp", "FocusColumnRight", "FocusColumnLeft",
           "ToggleOverview"}

Triggers ==
  \/ done = <<>>
  \/ edged /\ done = <<"touch_reveal">>
  \/ triggered /\ \E a \in Swipes : done = <<a>> \/ done = <<"touch_reveal", a>>

TouchInv == Tracked /\ Triggers /\ Touch!GestureIsTheWay

-----------------------------------------------------------------------------
\* Triggers bounds what a touch does.
LEMMA TriggersOnce == Triggers => Touch!OneSwipeATouch
<1> SUFFICES ASSUME Triggers PROVE Touch!OneSwipeATouch
  OBVIOUS
<1>1. CASE done = <<>>
  BY <1>1 DEF Touch!OneSwipeATouch
<1>2. CASE done = <<"touch_reveal">>
  BY <1>2 DEF Touch!OneSwipeATouch
<1>3. ASSUME NEW a \in Swipes, done = <<a>> PROVE Touch!OneSwipeATouch
  BY <1>3 DEF Touch!OneSwipeATouch, Swipes
<1>4. ASSUME NEW a \in Swipes, done = <<"touch_reveal", a>> PROVE Touch!OneSwipeATouch
  <2>1. /\ Len(done) = 2 /\ DOMAIN done = 1..2 /\ done[1] = "touch_reveal" /\ done[2] = a
    BY <1>4
  <2>2. a # "touch_reveal"
    BY DEF Swipes
  <2> QED
    BY <2>1, <2>2 DEF Touch!OneSwipeATouch
<1> QED
  BY <1>1, <1>2, <1>3, <1>4 DEF Triggers

\* The fingers' movement adds up.
LEMMA AddedIsInteger ==
  ASSUME NEW T, IsFiniteSet(T), NEW d \in [T -> Int]
  PROVE  Touch!Added(d) \in Int
<1> DEFINE NextSum(t, f) == IF t = {} THEN 0
                            ELSE d[CHOOSE x \in t : TRUE] + f[t \ {CHOOSE x \in t : TRUE}]
<1>1. Touch!Added(d) = (CHOOSE f : f = [t \in SUBSET T |-> NextSum(t, f)])[T]
  <2>1. DOMAIN d = T
    OBVIOUS
  <2> QED
    BY <2>1 DEF Touch!Added, Touch!MapThenSumSet, Touch!MapThenFoldSet
<1>2. ASSUME NEW f PROVE (f = [t \in SUBSET T |-> NextSum(t, f)]) <=> SumsUpto(d, SUBSET T, f)
  <2>1. ASSUME NEW t \in SUBSET T PROVE NextSum(t, f) = SumStep(d, t, f)
    BY DEF SumStep
  <2> QED
    BY <2>1 DEF SumsUpto
<1>3. (CHOOSE f : f = [t \in SUBSET T |-> NextSum(t, f)])
        = (CHOOSE f : SumsUpto(d, SUBSET T, f))
  BY <1>2
<1> QED
  BY <1>1, <1>3, SumIsInteger

LEMMA MovedIsSpot ==
  ASSUME NEW s \in [Slots -> Finger]
  PROVE  Touch!Moved(s) \in Spot
<1> DEFINE T == Touch!Down(s)
           dx == [i \in T |-> s[i].cur.x - s[i].start.x]
           dy == [i \in T |-> s[i].cur.y - s[i].start.y]
<1>1. T \subseteq Slots /\ IsFiniteSet(T)
  BY TouchAssumption, FS_Subset DEF Touch!Down
<1>2. dx \in [T -> Int] /\ dy \in [T -> Int]
  BY <1>1 DEF Finger, Spot
<1>3. Touch!Added(dx) \in Int /\ Touch!Added(dy) \in Int
  BY <1>1, <1>2, AddedIsInteger
<1> QED
  BY <1>3 DEF Touch!Moved, Spot

-----------------------------------------------------------------------------
\* A movement of the panel on the turned screen: the screen's axes are the panel's,
\* exchanged and turned round.
LEMMA ScreenDeltaIs ==
  ASSUME NEW deg \in {0, 90, 180, 270}, NEW d \in Spot
  PROVE  LET s == Touch!ScreenDelta(deg, d) IN
         /\ s \in Spot
         /\ deg = 0   => s.x = d.x /\ s.y = d.y
         /\ deg = 90  => s.x = -d.y /\ s.y = d.x
         /\ deg = 180 => s.x = -d.x /\ s.y = -d.y
         /\ deg = 270 => s.x = d.y /\ s.y = -d.x
BY DEF Touch!ScreenDelta, Spot

\* Quarter turns of up, as GestureIsTheWay reads them.
LEMMA UpIs ==
  /\ Touch!Quarter([x |-> 0, y |-> -1]) = [x |-> -1, y |-> 0]
  /\ Touch!Quarter([x |-> -1, y |-> 0]) = [x |-> 0, y |-> 1]
  /\ Touch!Quarter([x |-> 0, y |-> 1]) = [x |-> 1, y |-> 0]
  /\ Touch!Quarter([x |-> 1, y |-> 0]) = [x |-> 0, y |-> -1]
BY DEF Touch!Quarter

\* How far a movement goes in the heading of a gesture is a coordinate of it on the turned
\* screen.
Along(g, deg, d) == LET v == Touch!Heading(g, deg) IN d.x * v.x + d.y * v.y

LEMMA HeadingIs ==
  ASSUME NEW deg \in {0, 90, 180, 270}, NEW d \in Spot,
         NEW g \in {"up", "bottom", "down", "top", "left", "right"}
  PROVE  /\ g \in {"up", "bottom"} => Along(g, deg, d) = -Touch!ScreenDelta(deg, d).y
         /\ g \in {"down", "top"}  => Along(g, deg, d) = Touch!ScreenDelta(deg, d).y
         /\ g = "left"  => Along(g, deg, d) = -Touch!ScreenDelta(deg, d).x
         /\ g = "right" => Along(g, deg, d) = Touch!ScreenDelta(deg, d).x
<1> DEFINE N == [x |-> 0, y |-> -1]
           W == [x |-> -1, y |-> 0]
           S == [x |-> 0, y |-> 1]
           E == [x |-> 1, y |-> 0]
           Pointing(up) == CASE g \in {"up", "bottom"} -> up
                         [] g \in {"down", "top"}  -> Touch!Quarter(Touch!Quarter(up))
                         [] g = "left"  -> Touch!Quarter(up)
                         [] g = "right" -> Touch!Quarter(Touch!Quarter(Touch!Quarter(up)))
<1>1. /\ Touch!Quarter(N) = W /\ Touch!Quarter(W) = S
      /\ Touch!Quarter(S) = E /\ Touch!Quarter(E) = N
  BY UpIs
<1>2. Touch!Heading(g, deg) = Pointing(IF deg = 0 THEN N ELSE IF deg = 90 THEN W
                                   ELSE IF deg = 180 THEN S ELSE E)
  <2> HIDE DEF N, W, S, E
  <2>1. /\ deg = 0 => Touch!Heading(g, deg) = Pointing(N)
    BY DEF Touch!Heading, N
  <2>2. deg = 90 => Touch!Heading(g, deg) = Pointing(W)
    BY <1>1 DEF Touch!Heading, N
  <2>3. deg = 180 => Touch!Heading(g, deg) = Pointing(S)
    BY <1>1 DEF Touch!Heading, N
  <2>4. deg = 270 => Touch!Heading(g, deg) = Pointing(E)
    BY <1>1 DEF Touch!Heading, N
  <2> HIDE DEF Pointing
  <2> QED
    BY <2>1, <2>2, <2>3, <2>4
<1>3. /\ g \in {"up", "bottom"} => Pointing(N) = N /\ Pointing(W) = W /\ Pointing(S) = S /\ Pointing(E) = E
      /\ g \in {"down", "top"} => Pointing(N) = S /\ Pointing(W) = E /\ Pointing(S) = N /\ Pointing(E) = W
      /\ g = "left" => Pointing(N) = W /\ Pointing(W) = S /\ Pointing(S) = E /\ Pointing(E) = N
      /\ g = "right" => Pointing(N) = E /\ Pointing(W) = N /\ Pointing(S) = W /\ Pointing(E) = S
  <2> HIDE DEF N, W, S, E
  <2> QED
    BY <1>1
<1>4. d.x \in Int /\ d.y \in Int
  BY DEF Spot
<1>5. \A v \in {N, W, S, E} :
        v = Touch!Heading(g, deg) => Along(g, deg, d) = d.x * v.x + d.y * v.y
  BY DEF Along
<1>6. ASSUME NEW v \in {N, W, S, E}
      PROVE  /\ v = N => d.x * v.x + d.y * v.y = -d.y
             /\ v = S => d.x * v.x + d.y * v.y = d.y
             /\ v = W => d.x * v.x + d.y * v.y = -d.x
             /\ v = E => d.x * v.x + d.y * v.y = d.x
  BY <1>4
<1> HIDE DEF N, W, S, E, Pointing
<1>7. /\ Touch!Heading(g, deg) = N => Along(g, deg, d) = -d.y
      /\ Touch!Heading(g, deg) = S => Along(g, deg, d) = d.y
      /\ Touch!Heading(g, deg) = W => Along(g, deg, d) = -d.x
      /\ Touch!Heading(g, deg) = E => Along(g, deg, d) = d.x
  BY <1>5, <1>6
<1>8. CASE deg = 0
  <2>1. Touch!Heading(g, deg) = Pointing(N)
    BY <1>2, <1>8
  <2>2. Touch!ScreenDelta(deg, d).x = d.x /\ Touch!ScreenDelta(deg, d).y = d.y
    BY <1>8, ScreenDeltaIs
  <2> QED
    BY <1>3, <1>4, <1>7, <2>1, <2>2
<1>9. CASE deg = 90
  <2>1. Touch!Heading(g, deg) = Pointing(W)
    BY <1>2, <1>9
  <2>2. Touch!ScreenDelta(deg, d).x = -d.y /\ Touch!ScreenDelta(deg, d).y = d.x
    BY <1>9, ScreenDeltaIs
  <2> QED
    BY <1>3, <1>4, <1>7, <2>1, <2>2
<1>10. CASE deg = 180
  <2>1. Touch!Heading(g, deg) = Pointing(S)
    BY <1>2, <1>10
  <2>2. Touch!ScreenDelta(deg, d).x = -d.x /\ Touch!ScreenDelta(deg, d).y = -d.y
    BY <1>10, ScreenDeltaIs
  <2> QED
    BY <1>3, <1>4, <1>7, <2>1, <2>2
<1>11. CASE deg = 270
  <2>1. Touch!Heading(g, deg) = Pointing(E)
    BY <1>2, <1>11
  <2>2. Touch!ScreenDelta(deg, d).x = d.y /\ Touch!ScreenDelta(deg, d).y = -d.x
    BY <1>11, ScreenDeltaIs
  <2> QED
    BY <1>3, <1>4, <1>7, <2>1, <2>2
<1> QED
  BY <1>8, <1>9, <1>10, <1>11

\* GestureIsTheWay for a gesture g of n fingers that went d.
Right(g, n, deg, d) ==
  g \notin {"none", "overview"} =>
    Along(g, deg, d)
      >= n * (IF n = 1 THEN Touch!EDGE_SWIPE_MM ELSE Touch!SWIPE_3F_THRESHOLD_MM)

\* A swipe of several fingers goes the way it is named.
LEMMA ManyFingersIsRight ==
  ASSUME NEW deg \in {0, 90, 180, 270}, NEW d \in Spot, NEW n \in Nat, n >= 3
  PROVE  /\ Touch!ManyFingers(n, Touch!ScreenDelta(deg, d))
               \in {"none", "overview", "up", "down", "left", "right"}
         /\ Right(Touch!ManyFingers(n, Touch!ScreenDelta(deg, d)), n, deg, d)
<1> DEFINE v == Touch!ScreenDelta(deg, d)
           g == Touch!ManyFingers(n, v)
<1>1. v.x \in Int /\ v.y \in Int
  <2>1. v \in Spot
    BY ScreenDeltaIs
  <2> HIDE DEF v
  <2> QED
    BY <2>1 DEF Spot
<1> HIDE DEF v
<1>2. g \in {"none", "overview", "up", "down", "left", "right"}
  BY DEF Touch!ManyFingers
<1>3. /\ g \in {"up", "down", "left", "right"} => n = 3
      /\ g = "up" => v.y < 0 /\ Touch!Distance(v.y) >= 15 * n
      /\ g = "down" => ~(v.y < 0) /\ Touch!Distance(v.y) >= 15 * n
      /\ g = "left" => v.x < 0 /\ Touch!Distance(v.x) >= 15 * n
      /\ g = "right" => ~(v.x < 0) /\ Touch!Distance(v.x) >= 15 * n
  BY DEF Touch!ManyFingers, Touch!SWIPE_3F_THRESHOLD_MM
<1> HIDE DEF g
<1>4. /\ g = "up" => -v.y >= n * 15
      /\ g = "down" => v.y >= n * 15
      /\ g = "left" => -v.x >= n * 15
      /\ g = "right" => v.x >= n * 15
  BY <1>1, <1>3 DEF Touch!Distance
<1>5. /\ g = "up" => Along(g, deg, d) >= n * 15
      /\ g = "down" => Along(g, deg, d) >= n * 15
      /\ g = "left" => Along(g, deg, d) >= n * 15
      /\ g = "right" => Along(g, deg, d) >= n * 15
  BY <1>4, HeadingIs DEF v
<1>6. Right(g, n, deg, d)
  BY <1>2, <1>5 DEF Right, Touch!SWIPE_3F_THRESHOLD_MM
<1> USE DEF v, g
<1> QED
  BY <1>2, <1>6

\* A swipe from a bezel goes inwards.
LEMMA FromBezelIsRight ==
  ASSUME NEW deg \in {0, 90, 180, 270}, NEW d \in Spot, NEW start
  PROVE  /\ Touch!FromBezel(deg, start, Touch!ScreenDelta(deg, d)) \in {"none", "top", "bottom"}
         /\ Right(Touch!FromBezel(deg, start, Touch!ScreenDelta(deg, d)), 1, deg, d)
<1> DEFINE v == Touch!ScreenDelta(deg, d)
           g == Touch!FromBezel(deg, start, v)
<1>1. v.x \in Int /\ v.y \in Int
  <2>1. v \in Spot
    BY ScreenDeltaIs
  <2> HIDE DEF v
  <2> QED
    BY <2>1 DEF Spot
<1> HIDE DEF v
<1> DEFINE far == 10 * Touch!Distance(v.y) > 13 * Touch!Distance(v.x)
                    /\ Touch!Distance(v.y) >= Touch!EDGE_SWIPE_MM
           top == Touch!FromTop(deg, start)
           last_mm == Touch!Tall(deg) - Bezel
<1>2. g = CASE far /\ top <= Bezel /\ v.y > 0 -> "top"
            [] far /\ top >= last_mm /\ v.y < 0 -> "bottom" [] OTHER -> "none"
  BY DEF Touch!FromBezel
<1>d. far => Touch!Distance(v.y) >= 12
  BY DEF Touch!EDGE_SWIPE_MM
<1> HIDE DEF g, far, top, last_mm
<1>3. /\ g \in {"none", "top", "bottom"}
      /\ g = "top" => v.y > 0 /\ Touch!Distance(v.y) >= 12
      /\ g = "bottom" => v.y < 0 /\ Touch!Distance(v.y) >= 12
  BY <1>2, <1>d
<1>4. /\ g = "top" => v.y >= 12
      /\ g = "bottom" => -v.y >= 12
  BY <1>1, <1>3 DEF Touch!Distance
<1>5. /\ g = "top" => Along(g, deg, d) >= 12
      /\ g = "bottom" => Along(g, deg, d) >= 12
  BY <1>4, HeadingIs DEF v
<1>6. Right(g, 1, deg, d)
  BY <1>3, <1>5 DEF Right, Touch!EDGE_SWIPE_MM
<1> USE DEF v, g
<1> QED
  BY <1>3, <1>6

-----------------------------------------------------------------------------
\* What is recognised: nothing after a swipe of several fingers, and from a bezel one.
LEMMA GestureIsRight ==
  ASSUME Tracked, NEW s \in [Slots -> Finger], NEW n \in Nat, NEW deg \in {0, 90, 180, 270},
         Touch!Gesture(s, n, deg) # "none"
  PROVE  LET g == Touch!Gesture(s, n, deg) IN
         /\ ~triggered /\ Right(g, n, deg, Touch!Moved(s))
         /\ \/ n >= 3 /\ g \in {"overview", "up", "down", "left", "right"}
            \/ n = 1 /\ ~edged /\ g \in {"top", "bottom"}
<1> DEFINE d == Touch!Moved(s)
           start == s[CHOOSE i \in Slots : s[i].on].start
           many == Touch!ManyFingers(n, Touch!ScreenDelta(deg, d))
           edge1 == Touch!FromBezel(deg, start, Touch!ScreenDelta(deg, d))
           g == Touch!Gesture(s, n, deg)
<1>1. d \in Spot
  BY MovedIsSpot
<1>2. g = CASE triggered -> "none" [] ~triggered /\ n >= 3 /\ n = most -> many
            [] ~triggered /\ n = 1 /\ most = 1 /\ ~edged -> edge1 [] OTHER -> "none"
  BY DEF Touch!Gesture
<1>3. n >= 3 => many \in {"none", "overview", "up", "down", "left", "right"}
                /\ Right(many, n, deg, d)
  BY <1>1, ManyFingersIsRight
<1>4. edge1 \in {"none", "top", "bottom"} /\ Right(edge1, 1, deg, d)
  BY <1>1, FromBezelIsRight
<1> HIDE DEF d, start, many, edge1, g
<1>5. g # "none"
  BY DEF g
<1>6. CASE ~triggered /\ n >= 3 /\ n = most
  <2>1. g = many
    BY <1>2, <1>6
  <2> QED
    BY <1>3, <1>5, <1>6, <2>1 DEF g, d
<1>7. CASE ~triggered /\ n = 1 /\ most = 1 /\ ~edged
  <2>1. g = edge1
    BY <1>2, <1>7
  <2> QED
    BY <1>4, <1>5, <1>7, <2>1 DEF g, d
<1>8. CASE /\ ~(~triggered /\ n >= 3 /\ n = most)
           /\ ~(~triggered /\ n = 1 /\ most = 1 /\ ~edged)
  <2>1. g = "none"
    BY <1>2, <1>8
  <2> QED
    BY <1>5, <2>1
<1> QED
  BY <1>6, <1>7, <1>8

\* What it does: a swipe of several fingers has one action, and only the bezel of the
\* panel reveals it.
LEMMA ActionIs ==
  ASSUME touch_config.panel \in {"top", "bottom"}, NEW g
  PROVE  /\ g \in {"overview", "up", "down", "left", "right"} =>
              \E a \in Swipes : Touch!Action(g) = <<a>>
         /\ g \in {"top", "bottom"} => Touch!Action(g) \in {<<>>, <<"touch_reveal">>}
<1>1. g = "up" => Touch!Action(g) = <<"FocusWorkspaceDown">>
  BY DEF Touch!Action
<1>2. g = "down" => Touch!Action(g) = <<"FocusWorkspaceUp">>
  BY DEF Touch!Action
<1>3. g = "left" => Touch!Action(g) = <<"FocusColumnRight">>
  BY DEF Touch!Action
<1>4. g = "right" => Touch!Action(g) = <<"FocusColumnLeft">>
  BY DEF Touch!Action
<1>5. g = "overview" => Touch!Action(g) = <<"ToggleOverview">>
  BY DEF Touch!Action
<1>6. g \in {"top", "bottom"} => Touch!Action(g) \in {<<>>, <<"touch_reveal">>}
  <2>1. g \in {"top", "bottom"} /\ g = touch_config.panel => Touch!Action(g) = <<"touch_reveal">>
    BY DEF Touch!Action
  <2>2. g \in {"top", "bottom"} /\ g # touch_config.panel => Touch!Action(g) = <<>>
    BY DEF Touch!Action
  <2> QED
    BY <2>1, <2>2
<1> QED
  BY <1>1, <1>2, <1>3, <1>4, <1>5, <1>6 DEF Swipes

\* An action after nothing, and after another.
LEMMA OneAfterOne ==
  ASSUME NEW a, NEW b
  PROVE  <<>> \o <<a>> = <<a>> /\ <<b>> \o <<a>> = <<b, a>>
<1> DEFINE S == {a, b}
           r == <<b>> \o <<a>>
<1>1. <<a>> \in Seq(S) /\ <<b>> \in Seq(S)
  OBVIOUS
<1>2. <<>> \o <<a>> = <<a>>
  OBVIOUS
<1>3. r \in Seq(S) /\ Len(r) = 2 /\ r[1] = b /\ r[2] = a
  BY <1>1
<1> HIDE DEF r
<1>4. r = <<b, a>>
  BY <1>3
<1> QED
  BY <1>2, <1>4 DEF r

\* The flags after a gesture hold back what Triggers counts on.
LEMMA TriggersKept ==
  ASSUME Tracked, Triggers, NEW s \in [Slots -> Finger], NEW n \in Nat,
         NEW deg \in {0, 90, 180, 270}, NEW g, g = Touch!Gesture(s, n, deg),
         triggered' = (triggered \/ (g # "none" /\ n > 1)),
         edged' = (edged \/ (g # "none" /\ n = 1)),
         done' = IF g # "none" /\ touch_config.enabled THEN done \o Touch!Action(g) ELSE done
  PROVE  Triggers'
<1>1. CASE g = "none" \/ ~touch_config.enabled
  BY <1>1 DEF Triggers
<1>2. CASE g # "none" /\ touch_config.enabled
  <2>1. /\ ~triggered
        /\ \/ n >= 3 /\ g \in {"overview", "up", "down", "left", "right"}
           \/ n = 1 /\ ~edged /\ g \in {"top", "bottom"}
    BY <1>2, GestureIsRight
  <2>2. done' = done \o Touch!Action(g)
    BY <1>2
  <2>3. done = <<>> \/ (edged /\ done = <<"touch_reveal">>)
    BY <2>1 DEF Triggers
  <2>4. CASE n >= 3 /\ g \in {"overview", "up", "down", "left", "right"}
    <3>0. g # "none" /\ n > 1
      BY <1>2, <2>4
    <3>1. triggered'
      BY <3>0, Zenon
    <3>2. PICK a \in Swipes : Touch!Action(g) = <<a>>
      BY <2>4, ActionIs DEF Tracked
    <3>3. done' = <<a>> \/ done' = <<"touch_reveal", a>>
      <4>1. /\ <<>> \o <<a>> = <<a>>
            /\ <<"touch_reveal">> \o <<a>> = <<"touch_reveal", a>>
        BY OneAfterOne
      <4>2. done' = done \o <<a>>
        BY <2>2, <3>2
      <4> QED
        BY <2>3, <4>1, <4>2, Zenon
    <3> QED
      BY <3>1, <3>3 DEF Triggers
  <2>5. CASE n = 1 /\ ~edged /\ g \in {"top", "bottom"}
    <3>1. edged' /\ done = <<>>
      BY <1>2, <2>3, <2>5
    <3>2. Touch!Action(g) \in {<<>>, <<"touch_reveal">>}
      BY <2>5, ActionIs DEF Tracked
    <3>3. done' = <<>> \/ done' = <<"touch_reveal">>
      BY <2>2, <3>1, <3>2
    <3> QED
      BY <3>1, <3>3 DEF Triggers
  <2> QED
    BY <2>1, <2>4, <2>5
<1> QED
  BY <1>1, <1>2

\* A report of the kernel, whatever the fingers did.
LEMMA ReportKeeps ==
  ASSUME TouchInv, NEW s \in [Slots -> Finger], Touch!Report(s)
  PROVE  TouchInv'
<1> DEFINE n == Touch!Cardinality(Touch!Down(s))
           deg == IF heard THEN degrees ELSE posture
           g == Touch!Gesture(s, n, deg)
<1>1. n \in Nat
  <2>1. IsFiniteSet(Touch!Down(s))
    BY TouchAssumption, FS_Subset DEF Touch!Down
  <2>2. n = Cardinality(Touch!Down(s))
    BY DEF Touch!Cardinality, Cardinality
  <2> QED
    BY <2>1, <2>2, FS_CardinalityType
<1>2. deg \in {0, 90, 180, 270}
  BY DEF TouchInv, Tracked
<1>3. /\ degrees' = deg /\ UNCHANGED <<posture, touch_config>>
  BY DEF Touch!Report
<1>4. Tracked /\ Triggers /\ Touch!GestureIsTheWay
  BY DEF TouchInv
<1>5. /\ n = 0 => /\ slots' = s /\ most' = 0 /\ triggered' = FALSE /\ edged' = FALSE
                  /\ done' = <<>> /\ UNCHANGED last
      /\ n > most => /\ slots' = Touch!reanchor_active_slots(s) /\ most' = n
                     /\ UNCHANGED <<triggered, edged, done, last>>
      /\ n \in 1..most =>
           /\ slots' = s /\ UNCHANGED most
           /\ triggered' = (triggered \/ (g # "none" /\ n > 1))
           /\ edged' = (edged \/ (g # "none" /\ n = 1))
           /\ done' = IF g # "none" /\ touch_config.enabled THEN done \o Touch!Action(g)
                      ELSE done
           /\ last' = IF g = "none" THEN last
                      ELSE [gesture |-> g, fingers |-> n, moved |-> Touch!Moved(s),
                            degrees |-> deg]
  <2>1. most \in Nat
    BY <1>4 DEF Tracked
  <2>2. n = 0 => ~(n > most) /\ n \notin 1..most
    BY <2>1
  <2>3. n > most => n # 0 /\ n \notin 1..most
    BY <1>1, <2>1
  <2>4. n \in 1..most => n # 0 /\ ~(n > most)
    BY <1>1, <2>1
  <2> DEFINE Zero == /\ slots' = s /\ most' = 0 /\ triggered' = FALSE /\ edged' = FALSE
                     /\ done' = <<>> /\ UNCHANGED last
             More == /\ slots' = Touch!reanchor_active_slots(s) /\ most' = n
                     /\ UNCHANGED <<triggered, edged, done, last>>
             Some == /\ slots' = s /\ UNCHANGED most
                     /\ triggered' = (triggered \/ (g # "none" /\ n > 1))
                     /\ edged' = (edged \/ (g # "none" /\ n = 1))
                     /\ done' = IF g # "none" /\ touch_config.enabled
                                THEN done \o Touch!Action(g) ELSE done
                     /\ last' = IF g = "none" THEN last
                                ELSE [gesture |-> g, fingers |-> n, moved |-> Touch!Moved(s),
                                      degrees |-> deg]
  <2>5. (CASE n = 0 -> Zero [] n > most -> More [] n \in 1..most -> Some)
    BY DEF Touch!Report
  <2> HIDE DEF n, deg, g, Zero, More, Some
  <2>6. /\ n = 0 => Zero
        /\ n > most => More
        /\ n \in 1..most => Some
    BY <2>2, <2>3, <2>4, <2>5
  <2> QED
    BY <2>6 DEF Zero, More, Some
<1>6. n = 0 \/ n > most \/ n \in 1..most
  BY <1>1, <1>4 DEF Tracked
<1> HIDE DEF n, deg, g
<1>7. CASE n = 0
  <2>1. Tracked'
    <3>1. /\ slots' = s /\ most' = 0 /\ triggered' = FALSE /\ edged' = FALSE
          /\ degrees' \in {0, 90, 180, 270} /\ UNCHANGED <<posture, touch_config>>
      BY <1>2, <1>3, <1>5, <1>7
    <3> QED
      BY <1>4, <3>1 DEF Tracked
  <2>2. Triggers'
    BY <1>5, <1>7 DEF Triggers
  <2>3. Touch!GestureIsTheWay'
    BY <1>4, <1>5, <1>7 DEF Touch!GestureIsTheWay
  <2> QED
    BY <2>1, <2>2, <2>3 DEF TouchInv
<1>8. CASE n > most
  <2>1. Touch!reanchor_active_slots(s) \in [Slots -> Finger]
    BY DEF Touch!reanchor_active_slots, Finger
  <2>2. Tracked'
    BY <1>1, <1>2, <1>3, <1>4, <1>5, <1>8, <2>1 DEF Tracked
  <2>3. Triggers'
    BY <1>4, <1>5, <1>8 DEF Triggers
  <2>4. Touch!GestureIsTheWay'
    BY <1>4, <1>5, <1>8 DEF Touch!GestureIsTheWay
  <2> QED
    BY <2>2, <2>3, <2>4 DEF TouchInv
<1>9. CASE n \in 1..most
  <2>1. Tracked'
    BY <1>2, <1>3, <1>4, <1>5, <1>9 DEF Tracked
  <2>2. Triggers'
    <3>1. g = Touch!Gesture(s, n, deg)
      BY DEF g
    <3>2. /\ triggered' = (triggered \/ (g # "none" /\ n > 1))
          /\ edged' = (edged \/ (g # "none" /\ n = 1))
          /\ done' = IF g # "none" /\ touch_config.enabled THEN done \o Touch!Action(g)
                     ELSE done
      BY <1>5, <1>9
    <3> QED
      BY <1>1, <1>2, <1>4, <3>1, <3>2, TriggersKept
  <2>3. Touch!GestureIsTheWay'
    <3>1. CASE g = "none"
      <4>1. last' = last
        BY <1>5, <1>9, <3>1
      <4> QED
        BY <1>4, <4>1 DEF Touch!GestureIsTheWay
    <3>2. CASE g # "none"
      <4>1. Right(g, n, deg, Touch!Moved(s))
        BY <1>1, <1>2, <1>4, <3>2, GestureIsRight DEF g
      <4>2. /\ last'.gesture = g /\ last'.fingers = n /\ last'.moved = Touch!Moved(s)
            /\ last'.degrees = deg
        BY <1>5, <1>9, <3>2
      <4>3. Right(last'.gesture, last'.fingers, last'.degrees, last'.moved)
        BY <4>1, <4>2
      <4> QED
        BY <4>3 DEF Touch!GestureIsTheWay, Right, Along
    <3> QED
      BY <3>1, <3>2
  <2> QED
    BY <2>1, <2>2, <2>3 DEF TouchInv
<1> QED
  BY <1>6, <1>7, <1>8, <1>9

-----------------------------------------------------------------------------
\* No finger is down at the start.
LEMMA TouchInit == Touch!Init => TouchInv
<1> SUFFICES ASSUME Touch!Init PROVE TouchInv
  OBVIOUS
<1>1. slots \in [Slots -> Finger]
  BY DEF Touch!Init, Finger, Spot
<1>2. Tracked
  BY <1>1, TouchAssumption DEF Touch!Init, Tracked
<1>3. Triggers
  BY DEF Touch!Init, Triggers
<1>4. last.gesture = "none"
  BY DEF Touch!Init
<1>5. Touch!GestureIsTheWay
  BY <1>4 DEF Touch!GestureIsTheWay
<1> QED
  BY <1>2, <1>3, <1>5 DEF TouchInv

\* Whatever fingers, screen and configuration do.
LEMMA TouchNext == TouchInv /\ [Touch!Next]_(Touch!vars) => TouchInv'
<1> SUFFICES ASSUME TouchInv, [Touch!Next]_(Touch!vars) PROVE TouchInv'
  OBVIOUS
<1>a. Tracked /\ Triggers /\ Touch!GestureIsTheWay
  BY DEF TouchInv
<1>1. ASSUME NEW i \in Slots, NEW p \in Spots, Touch!Land(i, p) PROVE TouchInv'
  <2>1. [on |-> TRUE, start |-> p, cur |-> p] \in Finger
    BY TouchAssumption DEF Finger, Spot
  <2>2. [slots EXCEPT ![i] = [on |-> TRUE, start |-> p, cur |-> p]] \in [Slots -> Finger]
    BY <1>a, <2>1 DEF Tracked
  <2> QED
    BY <1>1, <2>2, ReportKeeps DEF Touch!Land
<1>2. ASSUME NEW i \in Slots, Touch!Lift(i) PROVE TouchInv'
  <2>1. [slots[i] EXCEPT !.on = FALSE] \in Finger
    <3>1. slots[i] \in Finger
      BY <1>a DEF Tracked
    <3> QED
      BY <3>1 DEF Finger
  <2>2. [slots EXCEPT ![i].on = FALSE] \in [Slots -> Finger]
    BY <1>a, <2>1 DEF Tracked
  <2> QED
    BY <1>2, <2>2, ReportKeeps DEF Touch!Lift
<1>3. ASSUME NEW who, NEW d \in Touch!Ways, Touch!Move(who, d) PROVE TouchInv'
  <2> DEFINE moved == [i \in Slots |-> IF i \in who
                         THEN [slots[i] EXCEPT !.cur = Touch!Shifted(@, d)] ELSE slots[i]]
  <2>1. d.x \in Int /\ d.y \in Int
    BY DEF Touch!Ways
  <2>2. ASSUME NEW p \in Spot PROVE Touch!Shifted(p, d) \in Spot
    BY <2>1, TouchAssumption DEF Touch!Shifted, Spot
  <2>3. ASSUME NEW i \in Slots PROVE moved[i] \in Finger
    <3>1. slots[i] \in Finger
      BY <1>a DEF Tracked
    <3>2. Touch!Shifted(slots[i].cur, d) \in Spot
      BY <2>2, <3>1 DEF Finger
    <3>3. [slots[i] EXCEPT !.cur = Touch!Shifted(@, d)] \in Finger
      BY <3>1, <3>2 DEF Finger
    <3> QED
      BY <3>1, <3>3
  <2>4. moved \in [Slots -> Finger]
    BY <2>3
  <2>5. Touch!Report(moved)
    BY <1>3 DEF Touch!Move
  <2> HIDE DEF moved
  <2> QED
    BY <2>4, <2>5, ReportKeeps
<1>4. ASSUME NEW to \in Turns, Touch!OutputTurned(to) \/ Touch!PostureTurned(to) PROVE TouchInv'
  <2>1. to \in {0, 90, 180, 270}
    BY TouchAssumption
  <2>2. UNCHANGED <<slots, most, triggered, edged, done, last, touch_config>>
    BY <1>4 DEF Touch!OutputTurned, Touch!PostureTurned, Touch!Meanwhile
  <2>3. degrees' \in {degrees, to} /\ posture' \in {posture, to}
    BY <1>4 DEF Touch!OutputTurned, Touch!PostureTurned
  <2> QED
    BY <1>a, <2>1, <2>2, <2>3 DEF TouchInv, Tracked, Triggers, Touch!GestureIsTheWay
<1>5. ASSUME NEW c \in TouchConfigs, Touch!Reload(c) PROVE TouchInv'
  <2>1. /\ UNCHANGED <<slots, most, triggered, edged, done, last, degrees, posture>>
        /\ touch_config' = c
    BY <1>5 DEF Touch!Reload, Touch!Meanwhile
  <2> QED
    BY <1>a, <2>1, TouchAssumption DEF TouchInv, Tracked, Triggers, Touch!GestureIsTheWay
<1>6. CASE Touch!Unplugged \/ UNCHANGED Touch!vars
  <2>1. UNCHANGED <<slots, most, triggered, edged, done, last, degrees, posture, touch_config>>
    BY <1>6 DEF Touch!Unplugged, Touch!Meanwhile, Touch!vars
  <2> QED
    BY <1>a, <2>1 DEF TouchInv, Tracked, Triggers, Touch!GestureIsTheWay
<1> QED
  BY <1>1, <1>2, <1>3, <1>4, <1>5, <1>6 DEF Touch!Next

-----------------------------------------------------------------------------
\* However fingers come, move and lift, on as many slots as the panel has, and however the
\* screen is turned meanwhile, a touch does one swipe of several fingers and one of a bezel
\* at most, and what is recognised is the way the fingers went on the turned screen, as far
\* as the threshold asks (hardware/touch_gestures.c).
THEOREM GesturesAreAlwaysRight == Touch!Spec => []GesturesAreRight
<1>1. TouchInv => GesturesAreRight
  BY TriggersOnce DEF TouchInv, GesturesAreRight
<1> QED
  BY TouchInit, TouchNext, <1>1, PTL DEF Touch!Spec

-----------------------------------------------------------------------------
(* The greeter's attempts to log in are clean, for any users and sessions, *)
(* any monitors and any number of prompts and attempts.                    *)
(*                                                                         *)
(* Lists of users and sessions are sorted by ranks: the k-th member is the *)
(* one with k - 1 before it.                                               *)

\* In a finite set that R orders each place belongs to one member.
LEMMA RanksArePlaces ==
  ASSUME NEW P, IsFiniteSet(P), NEW R,
         \A i \in P : <<i, i>> \notin R,
         \A i, j \in P : i # j => <<i, j>> \in R \/ <<j, i>> \in R,
         \A i, j, k \in P : <<i, j>> \in R /\ <<j, k>> \in R => <<i, k>> \in R
  PROVE  /\ \A k \in 1..Cardinality(P) :
               \E i \in P : Cardinality({j \in P : <<j, i>> \in R}) = k - 1
         /\ \A i, k \in P : Cardinality({j \in P : <<j, i>> \in R})
                              = Cardinality({j \in P : <<j, k>> \in R}) => i = k
         /\ \A i \in P : Cardinality({j \in P : <<j, i>> \in R}) = 0 =>
               \A j \in P : <<j, i>> \notin R
<1> DEFINE n == Cardinality(P)
           First(i) == {j \in P : <<j, i>> \in R}
           rank == [i \in P |-> Cardinality(First(i))]
<1>1. n \in Nat
  BY FS_CardinalityType
<1>2. IsFiniteSet(0..(n - 1)) /\ Cardinality(0..(n - 1)) = n
  <2> HIDE DEF n
  <2> QED
    BY <1>1, FS_Interval
<1>3. \A i \in P : IsFiniteSet(First(i)) /\ Cardinality(First(i)) \in 0..(n - 1)
  <2> SUFFICES ASSUME NEW i \in P
               PROVE  IsFiniteSet(First(i)) /\ Cardinality(First(i)) \in 0..(n - 1)
    OBVIOUS
  <2>1. First(i) \subseteq P \ {i}
    OBVIOUS
  <2>2. IsFiniteSet(P \ {i}) /\ Cardinality(P \ {i}) = n - 1
    BY FS_RemoveElement
  <2>3. IsFiniteSet(First(i)) /\ Cardinality(First(i)) <= n - 1
    <3> HIDE DEF First, n
    <3> QED
      BY <2>1, <2>2, FS_Subset
  <2>4. Cardinality(First(i)) \in Nat
    BY <2>3, FS_CardinalityType
  <2> QED
    BY <2>3, <2>4, <1>1
<1>4. \A i, j \in P : <<i, j>> \in R => rank[i] < rank[j]
  <2> SUFFICES ASSUME NEW i \in P, NEW j \in P, <<i, j>> \in R PROVE rank[i] < rank[j]
    OBVIOUS
  <2>1. First(i) \subseteq First(j) \ {i} /\ i \in First(j)
    OBVIOUS
  <2>2. IsFiniteSet(First(j)) /\ Cardinality(First(j)) \in Nat
    BY <1>3, FS_CardinalityType
  <2>3. IsFiniteSet(First(j) \ {i}) /\ Cardinality(First(j) \ {i}) = Cardinality(First(j)) - 1
    BY <2>1, <2>2, FS_RemoveElement
  <2>4. Cardinality(First(i)) <= Cardinality(First(j)) - 1 /\ Cardinality(First(i)) \in Nat
    <3>1. IsFiniteSet(First(i)) /\ Cardinality(First(i)) <= Cardinality(First(j) \ {i})
      BY <2>1, <2>3, FS_Subset
    <3>2. Cardinality(First(i)) \in Nat
      BY <3>1, FS_CardinalityType
    <3> QED
      BY <2>3, <3>1, <3>2
  <2> QED
    BY <2>2, <2>4
<1>5. \A i, j \in P : rank[i] = rank[j] => i = j
  <2>1. \A i \in P : rank[i] \in Nat
    BY <1>1, <1>3
  <2> HIDE DEF rank
  <2>2. \A i, j \in P : i # j => rank[i] < rank[j] \/ rank[j] < rank[i]
    BY <1>4
  <2> QED
    BY <2>1, <2>2
<1>6. rank \in Surjection(P, 0..(n - 1))
  <2>1. rank \in [P -> 0..(n - 1)]
    BY <1>3
  <2>2. IsInjective(rank)
    BY <1>5 DEF IsInjective
  <2> HIDE DEF rank
  <2>3. rank \in Injection(P, 0..(n - 1))
    BY <2>1, <2>2 DEF Injection
  <2> QED
    BY <1>2, <2>3, FS_Injection
<1>7. \A k \in 0..(n - 1) : \E i \in P : rank[i] = k
  <2> HIDE DEF rank
  <2> QED
    BY <1>6 DEF Surjection
<1>8. \A k \in 1..n : \E i \in P : Cardinality(First(i)) = k - 1
  <2> TAKE k \in 1..n
  <2>1. k - 1 \in 0..(n - 1)
    BY <1>1
  <2> QED
    BY <2>1, <1>7
<1>9. \A i \in P : Cardinality(First(i)) = 0 => First(i) = {}
  BY <1>3, FS_EmptySet
<1> QED
  BY <1>5, <1>8, <1>9

\* A list of the system has finitely many members.
LEMMA ListIs ==
  ASSUME NEW S, NEW x \in Seq(S)
  PROVE  Len(x) \in Nat /\ DOMAIN x = 1..Len(x)
BY LenProperties

\* There is always a user.
LEMMA UsersAreListed ==
  ASSUME NEW a \in Accounts
  PROVE  Login!DiscoverUsers(a) # <<>>
<1> DEFINE people == {u.name : u \in {b \in Login!Range(a) :
                        /\ b.uid >= 1000 /\ b.uid < 60000
                        /\ b.name \notin {Greeters, Nobody}
                        /\ Login!is_valid_login_shell(b.shell)}}
           nth(k) == CHOOSE p \in people : Cardinality({q \in people : q < p}) = k - 1
           list == [k \in 1..Cardinality(people) |-> nth(k)]
<1>1. Login!DiscoverUsers(a) = IF people = {} THEN <<Greeters>> ELSE list
  BY DEF Login!DiscoverUsers, Login!Cardinality, Cardinality
<1>2. IsFiniteSet(people)
  <2>1. Len(a) \in Nat /\ DOMAIN a = 1..Len(a)
    BY LoginAssumption, ListIs
  <2>2. IsFiniteSet(1..Len(a))
    BY <2>1, FS_Interval
  <2> DEFINE name == [i \in 1..Len(a) |-> a[i].name]
             names == {name[i] : i \in 1..Len(a)}
  <2>3. people \subseteq names
    BY <2>1 DEF Login!Range
  <2>4. name \in Surjection(1..Len(a), names)
    BY DEF Surjection
  <2> HIDE DEF people, names, name
  <2> QED
    BY <2>2, <2>3, <2>4, FS_Surjection, FS_Subset
<1>3. CASE people = {}
  BY <1>1, <1>3
<1>4. CASE people # {}
  <2>1. Cardinality(people) \in Nat /\ Cardinality(people) # 0
    <3> HIDE DEF people
    <3> QED
      BY <1>2, <1>4, FS_CardinalityType, FS_EmptySet
  <2>2. 1 \in DOMAIN list
    <3> HIDE DEF people, nth
    <3> QED
      BY <2>1
  <2>3. list # <<>>
    <3> HIDE DEF list
    <3>1. DOMAIN <<>> = {}
      OBVIOUS
    <3> QED
      BY <2>2, <3>1
  <2> QED
    BY <1>1, <1>4, <2>3
<1> QED
  BY <1>3, <1>4

-----------------------------------------------------------------------------
(* The sessions.                                                           *)

\* What may be at a place: a session whose name has a place in the order.
LEMMA SessionAtIs ==
  ASSUME NEW files \in Installed
  PROVE  /\ Login!Places(files) \subseteq Int /\ IsFiniteSet(Login!Places(files))
         /\ \A i \in Login!Places(files) : Login!SessionAt(files, i).name \in Int
<1>1. Len(files) \in Nat /\ DOMAIN files = 1..Len(files)
  BY LoginAssumption, ListIs
<1>2. Login!Found(files) \subseteq 1..Len(files)
  BY <1>1 DEF Login!Found
<1>3. Login!Places(files) \subseteq Login!Found(files) \cup {0}
  BY DEF Login!Places
<1>4. IsFiniteSet(0..Len(files))
  BY <1>1, FS_Interval
<1>5. Login!Places(files) \subseteq 0..Len(files)
  BY <1>1, <1>2, <1>3
<1>6. ASSUME NEW i \in Login!Places(files)
      PROVE  Login!SessionAt(files, i).name \in Int
  <2>1. CASE i = 0
    BY <2>1 DEF Login!SessionAt, Login!Entry
  <2>2. CASE i # 0
    <3>1. i \in DOMAIN files
      BY <1>1, <1>5, <2>2
    <3>2. files[i].name \in Int
      BY <3>1, LoginAssumption
    <3> QED
      BY <2>2, <3>2 DEF Login!SessionAt, Login!Entry
  <2> QED
    BY <2>1, <2>2
<1> QED
  BY <1>4, <1>5, <1>6, FS_Subset

\* Places are ordered.
LEMMA BeforeIsAnOrder ==
  ASSUME NEW files \in Installed
  PROVE  LET P == Login!Places(files)
             B(i, j) == Login!Before(files, i, j)
         IN  /\ \A i \in P : ~B(i, i)
             /\ \A i, j \in P : i # j => B(i, j) \/ B(j, i)
             /\ \A i, j, k \in P : B(i, j) /\ B(j, k) => B(i, k)
<1> DEFINE P == Login!Places(files)
           s(i) == Login!SessionAt(files, i)
           B(i, j) == Login!Before(files, i, j)
           N == {i \in P : s(i).id = "niri"}
           name == [i \in P |-> s(i).name]
           E(i, j) == (i \in N /\ j \notin N) \/ ((i \in N <=> j \in N) /\ name[i] < name[j])
<1>1. P \subseteq Int /\ \A i \in P : name[i] \in Int
  BY SessionAtIs
<1>2. \A i, j \in P : B(i, j) <=> E(i, j) \/ (~E(j, i) /\ i < j)
  <2> SUFFICES ASSUME NEW i \in P, NEW j \in P
               PROVE  B(i, j) <=> E(i, j) \/ (~E(j, i) /\ i < j)
    OBVIOUS
  <2>1. Login!Earlier(s(i), s(j)) <=> E(i, j)
    BY DEF Login!Earlier
  <2>2. Login!Earlier(s(j), s(i)) <=> E(j, i)
    BY DEF Login!Earlier
  <2>3. B(i, j) <=> Login!Earlier(s(i), s(j)) \/ (~Login!Earlier(s(j), s(i)) /\ i < j)
    BY DEF Login!Before
  <2> HIDE DEF E, B, s, P
  <2> QED
    BY <2>1, <2>2, <2>3
<1> HIDE DEF P, B, N, name
<1>3. \A i \in P : ~B(i, i)
  BY <1>1, <1>2
<1>4. \A i, j \in P : i # j => B(i, j) \/ B(j, i)
  BY <1>1, <1>2
<1>5. \A i, j, k \in P : B(i, j) /\ B(j, k) => B(i, k)
  BY <1>1, <1>2
<1> QED
  BY <1>3, <1>4, <1>5 DEF P, B

\* There is always a session; those of niri come first, and each is there once.
SessionsFit(list) ==
  /\ list # <<>>
  /\ \A i, j \in DOMAIN list :
        /\ list[i].id = "niri" => i = 1 \/ list[1].id = "niri"
        /\ list[i].id = list[j].id /\ list[i].type = list[j].type => i = j

\* A file hides those of its name and type that come later, and the command line's
\* session is there only if no file answers to its name.
LEMMA PlacesDiffer ==
  ASSUME NEW files \in Installed, NEW i \in Login!Places(files), NEW j \in Login!Places(files),
         Login!SessionAt(files, i).id = Login!SessionAt(files, j).id,
         Login!SessionAt(files, i).type = Login!SessionAt(files, j).type
  PROVE  i = j
<1> DEFINE s(k) == Login!SessionAt(files, k)
           F == Login!Found(files)
<1>1. /\ \A k \in F : /\ k \in DOMAIN files /\ k \in Nat \ {0} /\ Login!Offered(files[k])
                       /\ \A l \in 1..k - 1 : Login!Offered(files[l]) =>
                             files[l].id # files[k].id \/ files[l].type # files[k].type
  <2>1. Len(files) \in Nat /\ DOMAIN files = 1..Len(files)
    BY LoginAssumption, ListIs
  <2> QED
    BY <2>1 DEF Login!Found
<1>2. \A k \in F : s(k).id = files[k].id /\ s(k).type = files[k].type
  BY <1>1 DEF Login!SessionAt, Login!Entry
<1>3. i \in F \cup {0} /\ j \in F \cup {0}
  BY DEF Login!Places
<1>4. CASE i = 0 /\ j \in F
  <2>1. s(0).id = Command
    BY DEF Login!SessionAt, Login!Entry
  <2>2. 0 \notin F
    BY <1>1
  <2>3. ~Login!Answers(s(j), Command)
    BY <1>4, <2>2 DEF Login!Places
  <2> QED
    BY <1>4, <2>1, <2>3 DEF Login!Answers
<1>5. CASE j = 0 /\ i \in F
  <2>1. s(0).id = Command
    BY DEF Login!SessionAt, Login!Entry
  <2>2. 0 \notin F
    BY <1>1
  <2>3. ~Login!Answers(s(i), Command)
    BY <1>5, <2>2 DEF Login!Places
  <2> QED
    BY <1>5, <2>1, <2>3 DEF Login!Answers
<1>6. CASE i \in F /\ j \in F
  <2>1. files[i].id = files[j].id /\ files[i].type = files[j].type
    BY <1>2, <1>6
  <2>2. i \in Nat /\ j \in Nat /\ i > 0 /\ j > 0
    BY <1>1, <1>6
  <2>3. ~(i < j)
    BY <1>1, <1>6, <2>1, <2>2
  <2>4. ~(j < i)
    BY <1>1, <1>6, <2>1, <2>2
  <2> QED
    BY <2>2, <2>3, <2>4
<1> QED
  BY <1>3, <1>4, <1>5, <1>6

\* Sorting by ranks keeps each place once, and what is at the first has nothing before it.
LEMMA SessionsAreListed ==
  ASSUME NEW files \in Installed
  PROVE  SessionsFit(Login!DiscoverSessions(files))
<1> DEFINE P == Login!Places(files)
           s(i) == Login!SessionAt(files, i)
           nth(k) == CHOOSE i \in P : Cardinality({j \in P : Login!Before(files, j, i)}) = k - 1
           list == [k \in 1..Cardinality(P) |-> s(nth(k))]
           R == {p \in P \X P : Login!Before(files, p[1], p[2])}
<1>1. Login!DiscoverSessions(files) =
        IF P = {} THEN <<Login!Entry("niri", "wayland", 0, "niri-session")>> ELSE list
  BY DEF Login!DiscoverSessions, Login!Cardinality, Cardinality
<1>2. CASE P = {}
  <2> DEFINE e == Login!Entry("niri", "wayland", 0, "niri-session")
  <2>1. Login!DiscoverSessions(files) = <<e>>
    BY <1>1, <1>2
  <2> HIDE DEF e, P
  <2> QED
    BY <2>1 DEF SessionsFit
<1>3. CASE P # {}
  <2>1. IsFiniteSet(P) /\ P \subseteq Int
    BY SessionAtIs
  <2>2. \A i, j \in P : <<i, j>> \in R <=> Login!Before(files, i, j)
    OBVIOUS
  <2>3. /\ \A i \in P : <<i, i>> \notin R
        /\ \A i, j \in P : i # j => <<i, j>> \in R \/ <<j, i>> \in R
        /\ \A i, j, k \in P : <<i, j>> \in R /\ <<j, k>> \in R => <<i, k>> \in R
    <3> HIDE DEF R, P
    <3> QED
      BY <2>2, BeforeIsAnOrder DEF P
  <2>4. \A i \in P : {j \in P : Login!Before(files, j, i)} = {j \in P : <<j, i>> \in R}
    <3> HIDE DEF R, P
    <3> QED
      BY <2>2
  <2> DEFINE rank == [i \in P |-> Cardinality({j \in P : <<j, i>> \in R})]
             m == Cardinality(P)
  <2>5. /\ \A k \in 1..m : \E i \in P : rank[i] = k - 1
        /\ \A i, k \in P : rank[i] = rank[k] => i = k
        /\ \A i \in P : rank[i] = 0 => \A j \in P : <<j, i>> \notin R
    <3> HIDE DEF R, P
    <3> DEFINE card(i) == Cardinality({j \in P : <<j, i>> \in R})
    <3>1. /\ \A k \in 1..Cardinality(P) : \E i \in P : card(i) = k - 1
          /\ \A i, k \in P : card(i) = card(k) => i = k
          /\ \A i \in P : card(i) = 0 => \A j \in P : <<j, i>> \notin R
      BY <2>1, <2>3, RanksArePlaces, Zenon
    <3>2. \A i \in P : rank[i] = card(i)
      OBVIOUS
    <3> HIDE DEF card, rank
    <3> QED
      BY <3>1, <3>2
  <2>6. m \in Nat /\ m # 0
    <3> HIDE DEF P
    <3> QED
      BY <1>3, <2>1, FS_CardinalityType, FS_EmptySet
  <2>7. \A k : nth(k) = CHOOSE i \in P : rank[i] = k - 1
    <3> TAKE k
    <3>1. \A i : (i \in P /\ Cardinality({j \in P : Login!Before(files, j, i)}) = k - 1)
                    <=> (i \in P /\ rank[i] = k - 1)
      <4> HIDE DEF R, P
      <4> QED
        BY <2>4
    <3> QED
      BY <3>1, Zenon
  <2>8. \A k \in 1..m : nth(k) \in P /\ rank[nth(k)] = k - 1
    <3> HIDE DEF rank, nth, P, m
    <3> QED
      BY <2>5, <2>7
  <2>9. \A i, j \in P : s(i).id = s(j).id /\ s(i).type = s(j).type => i = j
    BY PlacesDiffer
  <2> HIDE DEF nth, rank, m
  <2>10. 1 \in 1..m /\ nth(1) \in P /\ rank[nth(1)] = 0
    BY <2>6, <2>8
  <2>11. \A j \in P : ~Login!Before(files, j, nth(1))
    BY <2>2, <2>5, <2>10
  <2>12. \A i, k \in 1..m : nth(i) = nth(k) => i = k
    BY <2>6, <2>8
  <2>13. DOMAIN list = 1..m /\ \A k \in 1..m : list[k] = s(nth(k))
    BY DEF m
  <2>14. ASSUME NEW k \in 1..m, list[k].id = "niri" PROVE k = 1 \/ list[1].id = "niri"
    <3>1. CASE nth(k) = nth(1)
      BY <2>10, <2>12, <3>1
    <3>2. CASE nth(k) # nth(1)
      <4>1. nth(k) \in P /\ Login!Before(files, nth(1), nth(k))
        BY <2>8, <2>10, <2>11, <3>2, BeforeIsAnOrder
      <4>2. s(nth(k)).id = "niri"
        BY <2>13, <2>14
      <4>3. Login!Before(files, nth(k), nth(1)) \/ s(nth(1)).id = "niri"
        BY <4>2 DEF Login!Before, Login!Earlier
      <4> QED
        BY <2>10, <2>11, <2>13, <4>1, <4>3
    <3> QED
      BY <3>1, <3>2
  <2>15. list # <<>>
    <3> HIDE DEF list
    <3>1. DOMAIN <<>> = {}
      OBVIOUS
    <3> QED
      BY <2>10, <2>13, <3>1
  <2>16. \A i, j \in 1..m : list[i].id = list[j].id /\ list[i].type = list[j].type => i = j
    <3> TAKE i, j \in 1..m
    <3>1. nth(i) \in P /\ nth(j) \in P
      BY <2>8
    <3> HIDE DEF s, list
    <3> QED
      BY <2>9, <2>12, <2>13, <3>1
  <2>17. Login!DiscoverSessions(files) = list
    BY <1>1, <1>3
  <2> HIDE DEF list
  <2> QED
    BY <2>13, <2>14, <2>15, <2>16, <2>17 DEF SessionsFit
<1> QED
  BY <1>2, <1>3

-----------------------------------------------------------------------------
(* The card.                                                               *)

Row(s) == s = [k \in 1..Len(s) |-> s[k]] /\ Len(s) \in Nat

\* A sequence without the member at one of its places.
Without(s, i) == [k \in 1..(Len(s) - 1) |-> IF k < i THEN s[k] ELSE s[k + 1]]

SurfaceFits(c) ==
  /\ c = [monitor |-> c.monitor, primary |-> c.primary, sensitive |-> c.sensitive]
  /\ c.primary \in BOOLEAN /\ c.sensitive \in BOOLEAN

\* The surfaces are those of the monitors in their order, the card is on the first.
Placed(cs, ms) ==
  /\ Len(cs) = Len(ms)
  /\ \A i \in 1..Len(ms) : cs[i].monitor = ms[i] /\ (cs[i].primary <=> i = 1)
  /\ \A i, j \in 1..Len(ms) : ms[i] = ms[j] => i = j

CanBeUsed(cs) == \E i \in DOMAIN cs : cs[i].primary /\ cs[i].sensitive

Surfaces(cs) == Row(cs) /\ \A i \in DOMAIN cs : SurfaceFits(cs[i])

\* Where the card is and, while an attempt is made, that it is the one of the attempt.
CardInv ==
  /\ Surfaces(greeter_surfaces) /\ Row(greeter_monitors)
  /\ ~headless => Placed(greeter_surfaces, greeter_monitors)
  /\ worker.at # "idle" /\ ~rebuilt =>
       /\ ~CanBeUsed(greeter_surfaces)
       /\ job.user = users[user] /\ job.session = sessions[session].id

\* Where the worker is, what it has sent and what greetd has made of it.
AttemptInv ==
  /\ worker = [at |-> worker.at, asked |-> worker.asked, round |-> worker.round,
               supplied |-> worker.supplied, ok |-> worker.ok]
  /\ greetd = [state |-> greetd.state, user |-> greetd.user]
  /\ stored = [sys |-> stored.sys, own |-> stored.own]
  /\ {busy, greeter_running, rebuilt, headless, broken, worker.supplied, worker.ok} \subseteq BOOLEAN
  /\ worker.at \in {"idle", "create", "prompt", "start", "ended"}
  /\ worker.at # "idle" => busy /\ greeter_running
  /\ answers \in {0, 1}
  /\ worker.at = "create" => answers = 0 /\ ~worker.supplied
  /\ worker.at = "prompt" => answers = IF worker.supplied THEN 1 ELSE 0
  /\ worker.at \in {"create", "prompt", "start"} => ~worker.ok
  /\ worker.at \in {"prompt", "start"} => greetd.user = job.user
  /\ worker.at \in {"idle", "ended"} /\ ~worker.ok /\ ~broken => greetd.state = "none"
  /\ worker.at = "ended" /\ worker.ok => started = <<job.user, job.session>>
  /\ ~greeter_running /\ started # <<>> /\ worker.ok /\ ~rebuilt =>
       started \in {stored.sys, stored.own}

ListInv == users # <<>> /\ SessionsFit(sessions)

LoginInv == ListInv /\ AttemptInv /\ CardInv

\* The invariant says what is checked of the login screen.
LEMMA LoginInvSays ==
  ASSUME LoginInv
  PROVE  AttemptsAreClean
<1>1. Login!AttemptsAreClean
  <2>1. answers <= 1
    BY DEF LoginInv, AttemptInv
  <2> QED
    BY <2>1 DEF LoginInv, AttemptInv, ListInv, SessionsFit, Login!AttemptsAreClean
<1>2. Login!CardIsThere
  <2> SUFFICES ASSUME ~headless, greeter_monitors # <<>>, NEW i \in DOMAIN greeter_surfaces
               PROVE  greeter_surfaces[i].primary <=>
                        greeter_surfaces[i].monitor = greeter_monitors[1]
    BY DEF Login!CardIsThere
  <2>1. /\ Row(greeter_surfaces) /\ Row(greeter_monitors)
        /\ Placed(greeter_surfaces, greeter_monitors)
    BY DEF LoginInv, CardInv, Surfaces
  <2>2. /\ Len(greeter_monitors) \in Nat /\ DOMAIN greeter_surfaces = 1..Len(greeter_surfaces)
    BY <2>1 DEF Row
  <2>3. i \in 1..Len(greeter_monitors) /\ 1 \in 1..Len(greeter_monitors)
    BY <2>1, <2>2 DEF Placed
  <2> QED
    BY <2>1, <2>3 DEF Placed
<1> QED
  BY <1>1, <1>2 DEF AttemptsAreClean

LEMMA LoginBegins ==
  ASSUME Login!Init
  PROVE  LoginInv
<1>1. users # <<>> /\ SessionsFit(sessions)
  BY UsersAreListed, SessionsAreListed DEF Login!Init
<1>2. AttemptInv
  <2>1. /\ greeter_running = FALSE /\ busy = FALSE /\ rebuilt = FALSE /\ headless = FALSE
        /\ broken = FALSE /\ answers = 0 /\ started = <<>>
        /\ greetd = [state |-> "none", user |-> 0] /\ stored = [sys |-> <<>>, own |-> <<>>]
        /\ worker = [at |-> "idle", asked |-> "-", round |-> 0, supplied |-> FALSE, ok |-> FALSE]
    BY DEF Login!Init
  <2>2. worker.at = "idle" /\ worker.supplied = FALSE /\ worker.ok = FALSE /\ greetd.state = "none"
    BY <2>1
  <2>3. /\ worker = [at |-> worker.at, asked |-> worker.asked, round |-> worker.round,
                     supplied |-> worker.supplied, ok |-> worker.ok]
        /\ greetd = [state |-> greetd.state, user |-> greetd.user]
        /\ stored = [sys |-> stored.sys, own |-> stored.own]
    BY <2>1
  <2> QED
    BY <2>1, <2>2, <2>3 DEF AttemptInv
<1>3. CardInv
  <2>1. greeter_surfaces = <<>> /\ greeter_monitors = <<>> /\ worker.at = "idle"
    BY DEF Login!Init
  <2>2. Row(<<>>) /\ DOMAIN <<>> = {} /\ Len(<<>>) = 0
    BY DEF Row
  <2> QED
    BY <2>1, <2>2 DEF CardInv, Surfaces, Placed
<1> QED
  BY <1>1, <1>2, <1>3 DEF LoginInv, ListInv

\* Two functions on a set that agree there are one.
LEMMA SameFields ==
  ASSUME NEW S, NEW u, NEW v, u = [f \in S |-> u[f]], v = [f \in S |-> v[f]],
         \A f \in S : u[f] = v[f]
  PROVE  u = v
<1>1. [f \in S |-> u[f]] = [f \in S |-> v[f]]
  OBVIOUS
<1> QED
  BY <1>1

Asks(w, x, y) == [w EXCEPT !.at = x, !.asked = y]

\* The worker's place and question change.
LEMMA AskedAt ==
  ASSUME NEW a, NEW b, NEW c, NEW d, NEW e, NEW x, NEW y
  PROVE  Asks([at |-> a, asked |-> b, round |-> c, supplied |-> d, ok |-> e], x, y)
            = [at |-> x, asked |-> y, round |-> c, supplied |-> d, ok |-> e]
<1> DEFINE w == [at |-> a, asked |-> b, round |-> c, supplied |-> d, ok |-> e]
           v == [at |-> x, asked |-> y, round |-> c, supplied |-> d, ok |-> e]
           u == [w EXCEPT !.at = x, !.asked = y]
<1>1. DOMAIN u = DOMAIN v
  OBVIOUS
<1>2. /\ u.at = v.at /\ u.asked = v.asked /\ u.round = v.round /\ u.supplied = v.supplied
      /\ u.ok = v.ok
  OBVIOUS
<1>3. u = [f \in DOMAIN v |-> u[f]]
  OBVIOUS
<1>4. v = [f \in DOMAIN v |-> v[f]]
  OBVIOUS
<1>5. \A f \in DOMAIN v : u[f] = v[f]
  BY <1>2
<1>6. Asks(w, x, y) = u
  BY Zenon DEF Asks
<1> HIDE DEF u, v
<1>7. u = v
  BY <1>3, <1>4, <1>5, SameFields
<1> QED
  BY <1>6, <1>7, Zenon DEF v

Ends(w, x, y) == [w EXCEPT !.at = x, !.ok = y]

\* Its place and result change.
LEMMA EndedAt ==
  ASSUME NEW a, NEW b, NEW c, NEW d, NEW e, NEW x, NEW y
  PROVE  Ends([at |-> a, asked |-> b, round |-> c, supplied |-> d, ok |-> e], x, y)
            = [at |-> x, asked |-> b, round |-> c, supplied |-> d, ok |-> y]
<1> DEFINE w == [at |-> a, asked |-> b, round |-> c, supplied |-> d, ok |-> e]
           v == [at |-> x, asked |-> b, round |-> c, supplied |-> d, ok |-> y]
           u == [w EXCEPT !.at = x, !.ok = y]
<1>1. DOMAIN u = DOMAIN v
  OBVIOUS
<1>2. /\ u.at = v.at /\ u.asked = v.asked /\ u.round = v.round /\ u.supplied = v.supplied
      /\ u.ok = v.ok
  OBVIOUS
<1>3. u = [f \in DOMAIN v |-> u[f]]
  OBVIOUS
<1>4. v = [f \in DOMAIN v |-> v[f]]
  OBVIOUS
<1>5. \A f \in DOMAIN v : u[f] = v[f]
  BY <1>2
<1>6. Ends(w, x, y) = u
  BY Zenon DEF Ends
<1> HIDE DEF u, v
<1>7. u = v
  BY <1>3, <1>4, <1>5, SameFields
<1> QED
  BY <1>6, <1>7, Zenon DEF v

Counts(w, x, y) == [w EXCEPT !.round = x, !.supplied = y]

\* The round and whether the password went change.
LEMMA CountedAs ==
  ASSUME NEW a, NEW b, NEW c, NEW d, NEW e, NEW x, NEW y
  PROVE  Counts([at |-> a, asked |-> b, round |-> c, supplied |-> d, ok |-> e], x, y)
            = [at |-> a, asked |-> b, round |-> x, supplied |-> y, ok |-> e]
<1> DEFINE w == [at |-> a, asked |-> b, round |-> c, supplied |-> d, ok |-> e]
           v == [at |-> a, asked |-> b, round |-> x, supplied |-> y, ok |-> e]
           u == [w EXCEPT !.round = x, !.supplied = y]
<1>1. DOMAIN u = DOMAIN v
  OBVIOUS
<1>2. /\ u.at = v.at /\ u.asked = v.asked /\ u.round = v.round /\ u.supplied = v.supplied
      /\ u.ok = v.ok
  OBVIOUS
<1>3. u = [f \in DOMAIN v |-> u[f]]
  OBVIOUS
<1>4. v = [f \in DOMAIN v |-> v[f]]
  OBVIOUS
<1>5. \A f \in DOMAIN v : u[f] = v[f]
  BY <1>2
<1>6. Counts(w, x, y) = u
  BY Zenon DEF Counts
<1> HIDE DEF u, v
<1>7. u = v
  BY <1>3, <1>4, <1>5, SameFields
<1> QED
  BY <1>6, <1>7, Zenon DEF v

Goes(w, x) == [w EXCEPT !.at = x]
Puts(w, x) == [w EXCEPT !.asked = x]

\* What a step of the worker changes of its record.
LEMMA WorkerMoves ==
  ASSUME worker = [at |-> worker.at, asked |-> worker.asked, round |-> worker.round,
                   supplied |-> worker.supplied, ok |-> worker.ok],
         NEW where, NEW asked, NEW round, NEW supplied, NEW ok
  PROVE  /\ Goes(worker, where)
               = [at |-> where, asked |-> worker.asked, round |-> worker.round,
                  supplied |-> worker.supplied, ok |-> worker.ok]
         /\ Asks(worker, where, asked)
               = [at |-> where, asked |-> asked, round |-> worker.round,
                  supplied |-> worker.supplied, ok |-> worker.ok]
         /\ Ends(worker, where, ok)
               = [at |-> where, asked |-> worker.asked, round |-> worker.round,
                  supplied |-> worker.supplied, ok |-> ok]
         /\ Puts(Counts(worker, round, supplied), asked)
               = [at |-> worker.at, asked |-> asked, round |-> round,
                  supplied |-> supplied, ok |-> worker.ok]
         /\ Goes(Counts(worker, round, supplied), where)
               = [at |-> where, asked |-> worker.asked, round |-> round,
                  supplied |-> supplied, ok |-> worker.ok]
<1> PICK a, b, c, d, e : worker = [at |-> a, asked |-> b, round |-> c, supplied |-> d, ok |-> e]
  OBVIOUS
<1> DEFINE w == [at |-> a, asked |-> b, round |-> c, supplied |-> d, ok |-> e]
           v == [at |-> a, asked |-> b, round |-> round, supplied |-> supplied, ok |-> e]
<1>1. worker.at = a /\ worker.asked = b /\ worker.round = c /\ worker.supplied = d /\ worker.ok = e
  OBVIOUS
<1>2. Goes(w, where) = [at |-> where, asked |-> b, round |-> c, supplied |-> d, ok |-> e]
  BY DEF Goes
<1>3. Asks(w, where, asked) = [at |-> where, asked |-> asked, round |-> c, supplied |-> d, ok |-> e]
  BY AskedAt
<1>4. Ends(w, where, ok) = [at |-> where, asked |-> b, round |-> c, supplied |-> d, ok |-> ok]
  BY EndedAt
<1>5. Counts(w, round, supplied) = v
  BY CountedAs
<1>6. Puts(v, asked)
        = [at |-> a, asked |-> asked, round |-> round, supplied |-> supplied, ok |-> e]
  BY DEF Puts
<1>7. Goes(v, where)
        = [at |-> where, asked |-> b, round |-> round, supplied |-> supplied, ok |-> e]
  BY DEF Goes
<1> QED
  BY <1>1, <1>2, <1>3, <1>4, <1>5, <1>6, <1>7, Zenon

\* The worker's steps leave the card, the lists and what is stored alone.
LEMMA WorkerLeaves ==
  ASSUME LoginInv, Login!Waits, worker.at # "idle"
  PROVE  /\ ListInv' /\ CardInv'
         /\ UNCHANGED <<greeter_running, stored, job, busy, rebuilt, headless>>
<1>1. UNCHANGED <<greeter_running, users, sessions, stored, job, user, session, greeter_monitors,
                  greeter_surfaces, busy, rebuilt, headless>>
  BY DEF Login!Waits, Login!ui
<1>2. ListInv'
  BY <1>1 DEF LoginInv, ListInv
<1>3. CardInv'
  BY <1>1 DEF LoginInv, CardInv
<1> QED
  BY <1>1, <1>2, <1>3

\* The end of an attempt that failed.
LEMMA AttemptFails ==
  ASSUME LoginInv, Login!Waits, Login!CancelAndFail, worker.at \in {"create", "prompt", "start"},
         broken' \in BOOLEAN, answers' \in {0, 1}, started' = started
  PROVE  AttemptInv'
<1>1. UNCHANGED <<greeter_running, stored, job, busy, rebuilt, headless>>
  BY WorkerLeaves
<1>2. worker' = [at |-> "ended", asked |-> worker.asked, round |-> worker.round,
                 supplied |-> worker.supplied, ok |-> FALSE]
  <2>1. worker' = Ends(worker, "ended", FALSE)
    BY Zenon DEF Login!CancelAndFail, Ends
  <2>2. worker = [at |-> worker.at, asked |-> worker.asked, round |-> worker.round,
                  supplied |-> worker.supplied, ok |-> worker.ok]
    BY DEF LoginInv, AttemptInv
  <2> QED
    BY <2>1, <2>2, WorkerMoves, Zenon
<1>3. greetd' = (IF broken' THEN greetd ELSE [state |-> "none", user |-> 0])
  BY DEF Login!CancelAndFail
<1>4. greetd' = [state |-> greetd'.state, user |-> greetd'.user] /\ (~broken' => greetd'.state = "none")
  <2>1. greetd = [state |-> greetd.state, user |-> greetd.user]
    BY DEF LoginInv, AttemptInv
  <2>2. CASE broken'
    BY <1>3, <2>1, <2>2
  <2>3. CASE ~broken'
    BY <1>3, <2>3
  <2> QED
    BY <2>2, <2>3
<1>5. /\ worker'.at = "ended" /\ worker'.ok = FALSE /\ worker'.supplied = worker.supplied
      /\ worker' = [at |-> worker'.at, asked |-> worker'.asked, round |-> worker'.round,
                    supplied |-> worker'.supplied, ok |-> worker'.ok]
  BY <1>2
<1>6. /\ {busy, greeter_running, rebuilt, headless, broken, worker.supplied, worker.ok} \subseteq BOOLEAN
      /\ busy /\ greeter_running /\ stored = [sys |-> stored.sys, own |-> stored.own]
  BY DEF LoginInv, AttemptInv
<1> QED
  BY <1>1, <1>4, <1>5, <1>6 DEF AttemptInv

\* The worker goes on: to the next prompt, to starting the session, or to its success.
LEMMA AttemptGoesOn ==
  ASSUME LoginInv, Login!Waits, worker.at \in {"create", "prompt", "start"},
         NEW where, NEW asked, NEW round, NEW supplied \in BOOLEAN, NEW ok \in BOOLEAN,
         worker' = [at |-> where, asked |-> asked, round |-> round, supplied |-> supplied, ok |-> ok],
         broken' \in BOOLEAN, answers' \in {0, 1},
         greetd' = [state |-> greetd'.state, user |-> greetd'.user],
         where \in {"prompt", "start", "ended"},
         where = "prompt" => answers' = IF supplied THEN 1 ELSE 0,
         where \in {"prompt", "start"} => greetd'.user = job.user /\ ~ok,
         where = "ended" /\ ok => started' = <<job.user, job.session>>,
         where = "ended" /\ ~ok => broken'
  PROVE  AttemptInv'
<1>1. UNCHANGED <<greeter_running, stored, job, busy, rebuilt, headless>>
  BY WorkerLeaves
<1>2. /\ {busy, greeter_running, rebuilt, headless, broken, worker.supplied, worker.ok} \subseteq BOOLEAN
      /\ busy /\ greeter_running /\ stored = [sys |-> stored.sys, own |-> stored.own]
  BY DEF LoginInv, AttemptInv
<1>3. /\ worker'.at = where /\ worker'.ok = ok /\ worker'.supplied = supplied
      /\ worker' = [at |-> worker'.at, asked |-> worker'.asked, round |-> worker'.round,
                    supplied |-> worker'.supplied, ok |-> worker'.ok]
  OBVIOUS
<1> QED
  BY <1>1, <1>2, <1>3 DEF AttemptInv

LEMMA CreateSessionStep ==
  ASSUME LoginInv, Login!CreateSession
  PROVE  LoginInv'
<1>1. /\ worker.at = "create" /\ answers = 0 /\ ~worker.supplied /\ ~worker.ok
      /\ Login!Waits /\ answers' = 0 /\ started' = started
      /\ worker.supplied \in BOOLEAN /\ worker.ok \in BOOLEAN /\ broken \in BOOLEAN
      /\ greetd = [state |-> greetd.state, user |-> greetd.user]
      /\ worker = [at |-> worker.at, asked |-> worker.asked, round |-> worker.round,
                   supplied |-> worker.supplied, ok |-> worker.ok]
  BY DEF Login!CreateSession, LoginInv, AttemptInv
<1>2. ListInv' /\ CardInv'
  BY <1>1, WorkerLeaves
<1>3. ASSUME NEW q, worker' = Asks(worker, "prompt", q),
             greetd' = [state |-> "asking", user |-> job.user], broken' = broken
      PROVE  AttemptInv'
  <2>1. worker' = [at |-> "prompt", asked |-> q, round |-> worker.round,
                   supplied |-> worker.supplied, ok |-> worker.ok]
    BY <1>1, <1>3, WorkerMoves
  <2>2. /\ greetd' = [state |-> greetd'.state, user |-> greetd'.user] /\ greetd'.user = job.user
        /\ broken' = broken
    BY <1>3
  <2> QED
    BY <1>1, <2>1, <2>2, AttemptGoesOn
<1>4. ASSUME worker' = Goes(worker, "start"),
             greetd' = [state |-> "ready", user |-> job.user], broken' = broken
      PROVE  AttemptInv'
  <2>1. worker' = [at |-> "start", asked |-> worker.asked, round |-> worker.round,
                   supplied |-> worker.supplied, ok |-> worker.ok]
    BY <1>1, <1>4, WorkerMoves
  <2>2. /\ greetd' = [state |-> greetd'.state, user |-> greetd'.user] /\ greetd'.user = job.user
        /\ broken' = broken
    BY <1>4
  <2> QED
    BY <1>1, <2>1, <2>2, AttemptGoesOn
<1>5. ASSUME broken' = broken, Login!CancelAndFail
      PROVE  AttemptInv'
  BY <1>1, <1>5, AttemptFails
<1>6. ASSUME worker' = Goes(worker, "ended"), broken' = TRUE, greetd' = greetd
      PROVE  AttemptInv'
  <2>1. worker' = [at |-> "ended", asked |-> worker.asked, round |-> worker.round,
                   supplied |-> worker.supplied, ok |-> worker.ok]
    BY <1>1, <1>6, WorkerMoves
  <2>2. greetd' = [state |-> greetd'.state, user |-> greetd'.user] /\ broken' = TRUE
    BY <1>1, <1>6
  <2> QED
    BY <1>1, <2>1, <2>2, AttemptGoesOn
<1>7. \/ \E q : /\ worker' = Asks(worker, "prompt", q)
               /\ greetd' = [state |-> "asking", user |-> job.user] /\ broken' = broken
      \/ /\ worker' = Goes(worker, "start")
         /\ greetd' = [state |-> "ready", user |-> job.user] /\ broken' = broken
      \/ broken' = broken /\ Login!CancelAndFail
      \/ worker' = Goes(worker, "ended") /\ broken' = TRUE /\ greetd' = greetd
  BY Zenon DEF Login!CreateSession, Login!At, Asks, Goes
<1>8. AttemptInv'
  BY <1>3, <1>4, <1>5, <1>6, <1>7, Zenon
<1> QED
  BY <1>2, <1>8 DEF LoginInv

LEMMA AnswerStep ==
  ASSUME LoginInv, Login!Answer
  PROVE  LoginInv'
<1> DEFINE wants == worker.asked \in {"secret", "visible"}
           supplied == worker.supplied \/ wants
           round == worker.round + 1
           next == Counts(worker, round, supplied)
           Sent == answers' = IF supplied THEN 1 ELSE 0
           Asked(q) == worker' = Puts(next, q) /\ greetd' = greetd /\ broken' = broken
           Taken == /\ worker' = Goes(next, "start")
                    /\ greetd' = [greetd EXCEPT !.state = "ready"] /\ broken' = broken
<1>1. /\ worker.at = "prompt" /\ ~worker.ok /\ greetd.user = job.user
      /\ answers \in {0, 1} /\ (~worker.supplied => answers = 0) /\ (worker.supplied => answers = 1)
      /\ Login!Waits /\ started' = started
      /\ worker.supplied \in BOOLEAN /\ worker.ok \in BOOLEAN /\ broken \in BOOLEAN
      /\ greetd = [state |-> greetd.state, user |-> greetd.user]
      /\ worker = [at |-> worker.at, asked |-> worker.asked, round |-> worker.round,
                   supplied |-> worker.supplied, ok |-> worker.ok]
  BY DEF Login!Answer, LoginInv, AttemptInv
<1>2. ListInv' /\ CardInv'
  BY <1>1, WorkerLeaves
<1>3. \/ answers' = answers /\ broken' = broken /\ Login!CancelAndFail
      \/ /\ ~(wants /\ worker.supplied) /\ answers' = (IF wants THEN answers + 1 ELSE answers)
         /\ \/ \E q : Asked(q)
            \/ Taken
            \/ broken' \in BOOLEAN /\ Login!CancelAndFail
  BY Zenon DEF Login!Answer, Counts, Goes, Puts
<1>4. ~(wants /\ worker.supplied) /\ answers' = (IF wants THEN answers + 1 ELSE answers) => Sent
  BY <1>1
<1>5. supplied \in BOOLEAN
  BY <1>1
<1>6. /\ \A q : Puts(next, q) = [at |-> worker.at, asked |-> q, round |-> round,
                                         supplied |-> supplied, ok |-> worker.ok]
      /\ Goes(next, "start") = [at |-> "start", asked |-> worker.asked, round |-> round,
                                        supplied |-> supplied, ok |-> worker.ok]
  BY <1>1, WorkerMoves
<1>7. [greetd EXCEPT !.state = "ready"] = [state |-> "ready", user |-> greetd.user]
  <2> PICK a, b : greetd = [state |-> a, user |-> b]
    BY <1>1
  <2> QED
    OBVIOUS
<1>8. ASSUME NEW q, Asked(q)
      PROVE  /\ worker' = [at |-> "prompt", asked |-> q, round |-> round,
                           supplied |-> supplied, ok |-> worker.ok]
             /\ greetd' = greetd /\ broken' = broken
  BY <1>1, <1>6, <1>8, Zenon
<1>9. ASSUME Taken
      PROVE  /\ worker' = [at |-> "start", asked |-> worker.asked, round |-> round,
                           supplied |-> supplied, ok |-> worker.ok]
             /\ greetd' = [state |-> "ready", user |-> greetd.user] /\ broken' = broken
  BY <1>6, <1>7, <1>9, Zenon
<1>10. Sent => answers' \in {0, 1}
  BY <1>5
<1>11. Sent => (answers' = IF supplied THEN 1 ELSE 0)
  OBVIOUS
<1> HIDE DEF next, supplied, wants, round, Sent, Asked, Taken
<1>12. ASSUME answers' = answers, broken' = broken, Login!CancelAndFail
       PROVE  AttemptInv'
  BY <1>1, <1>12, AttemptFails
<1>13. ASSUME Sent, broken' \in BOOLEAN, Login!CancelAndFail
       PROVE  AttemptInv'
  BY <1>1, <1>10, <1>13, AttemptFails
<1>14. ASSUME Sent, NEW q, Asked(q)
       PROVE  AttemptInv'
  <2>1. /\ worker' = [at |-> "prompt", asked |-> q, round |-> round,
                      supplied |-> supplied, ok |-> worker.ok]
        /\ greetd' = greetd /\ broken' = broken
    BY <1>8, <1>14
  <2>2. greetd' = [state |-> greetd'.state, user |-> greetd'.user] /\ greetd'.user = job.user
    BY <1>1, <2>1
  <2> QED
    BY <1>1, <1>5, <1>10, <1>11, <1>14, <2>1, <2>2, AttemptGoesOn
<1>15. ASSUME Sent, Taken
       PROVE  AttemptInv'
  <2>1. /\ worker' = [at |-> "start", asked |-> worker.asked, round |-> round,
                      supplied |-> supplied, ok |-> worker.ok]
        /\ greetd' = [state |-> "ready", user |-> greetd.user] /\ broken' = broken
    BY <1>9, <1>15
  <2>2. greetd' = [state |-> greetd'.state, user |-> greetd'.user] /\ greetd'.user = job.user
    BY <1>1, <2>1
  <2> QED
    BY <1>1, <1>5, <1>10, <1>11, <1>15, <2>1, <2>2, AttemptGoesOn
<1>16. AttemptInv'
  BY <1>3, <1>4, <1>12, <1>13, <1>14, <1>15, Zenon
<1> QED
  BY <1>2, <1>16 DEF LoginInv

LEMMA StartSessionStep ==
  ASSUME LoginInv, Login!StartSession
  PROVE  LoginInv'
<1>1. /\ worker.at = "start" /\ ~worker.ok /\ greetd.user = job.user
      /\ Login!Waits /\ answers' = answers /\ answers \in {0, 1}
      /\ worker.supplied \in BOOLEAN /\ worker.ok \in BOOLEAN /\ broken \in BOOLEAN
      /\ greetd = [state |-> greetd.state, user |-> greetd.user]
      /\ worker = [at |-> worker.at, asked |-> worker.asked, round |-> worker.round,
                   supplied |-> worker.supplied, ok |-> worker.ok]
  BY DEF Login!StartSession, LoginInv, AttemptInv
<1>2. ListInv' /\ CardInv'
  BY <1>1, WorkerLeaves
<1>3. \/ /\ worker' = Ends(worker, "ended", TRUE)
         /\ greetd' = [greetd EXCEPT !.state = "started"]
         /\ started' = <<greetd.user, job.session>> /\ broken' = broken
      \/ broken' \in BOOLEAN /\ Login!CancelAndFail /\ started' = started
  BY Zenon DEF Login!StartSession, Ends
<1>4. ASSUME worker' = Ends(worker, "ended", TRUE),
             greetd' = [greetd EXCEPT !.state = "started"],
             started' = <<greetd.user, job.session>>, broken' = broken
      PROVE  AttemptInv'
  <2>1. worker' = [at |-> "ended", asked |-> worker.asked, round |-> worker.round,
                   supplied |-> worker.supplied, ok |-> TRUE]
    BY <1>1, <1>4, WorkerMoves
  <2>2. greetd' = [state |-> greetd'.state, user |-> greetd'.user]
    <3> PICK a, b : greetd = [state |-> a, user |-> b]
      BY <1>1
    <3> QED
      BY <1>4
  <2>3. started' = <<job.user, job.session>> /\ broken' = broken
    BY <1>1, <1>4
  <2> QED
    BY <1>1, <2>1, <2>2, <2>3, AttemptGoesOn
<1>5. ASSUME broken' \in BOOLEAN, Login!CancelAndFail, started' = started
      PROVE  AttemptInv'
  BY <1>1, <1>5, AttemptFails
<1>6. AttemptInv'
  BY <1>3, <1>4, <1>5, Zenon
<1> QED
  BY <1>2, <1>6 DEF LoginInv

-----------------------------------------------------------------------------
(* What user and monitors do.                                              *)

\* A row is a sequence, over whatever its members are.
LEMMA RowIsSeq ==
  ASSUME NEW s, Row(s), NEW S, \A k \in 1..Len(s) : s[k] \in S
  PROVE  s \in Seq(S)
<1> PICK n \in Nat : n = Len(s)
  BY DEF Row
<1>1. s = [k \in 1..n |-> s[k]]
  BY DEF Row
<1>2. s \in [1..n -> S]
  BY <1>1
<1> QED
  BY <1>2, SeqDef

LEMMA SeqIsRow ==
  ASSUME NEW S, NEW s \in Seq(S)
  PROVE  Row(s)
<1>1. Len(s) \in Nat /\ DOMAIN s = 1..Len(s) /\ s = [k \in DOMAIN s |-> s[k]]
  OBVIOUS
<1> QED
  BY <1>1 DEF Row

\* One place taken out of a row.
LEMMA RemovedIs ==
  ASSUME NEW s, Row(s), NEW i \in DOMAIN s
  PROVE  /\ Row(Login!RemoveAt(s, i)) /\ Len(Login!RemoveAt(s, i)) = Len(s) - 1
         /\ \A k \in 1..(Len(s) - 1) :
              Login!RemoveAt(s, i)[k] = IF k < i THEN s[k] ELSE s[k + 1]
<1> PICK n \in Nat : n = Len(s)
  BY DEF Row
<1>1. i \in 1..n
  <2>1. DOMAIN s = 1..Len(s)
    BY DEF Row
  <2> QED
    BY <2>1
<1> DEFINE S == {s[k] : k \in 1..n}
           a == SubSeq(s, 1, i - 1)
           b == SubSeq(s, i + 1, n)
<1>2. \A k \in 1..n : s[k] \in S
  OBVIOUS
<1>3. i - 1 \in Int /\ i + 1 \in Int /\ n \in Int /\ 1 \in Int
  BY <1>1
<1>4. (\A k \in 1..(i - 1) : s[k] \in S) /\ (\A k \in (i + 1)..n : s[k] \in S)
  BY <1>1, <1>2
<1> HIDE DEF S
<1>5. /\ a \in Seq(S) /\ Len(a) = (IF 1 <= i - 1 THEN i - 1 - 1 + 1 ELSE 0)
      /\ \A k \in 1..(i - 1 - 1 + 1) : a[k] = s[1 + k - 1]
  BY <1>3, <1>4, SubSeqProperties
<1>6. /\ b \in Seq(S) /\ Len(b) = (IF i + 1 <= n THEN n - (i + 1) + 1 ELSE 0)
      /\ \A k \in 1..(n - (i + 1) + 1) : b[k] = s[i + 1 + k - 1]
  BY <1>3, <1>4, SubSeqProperties
<1> HIDE DEF a, b
<1>7. Len(a) = i - 1 /\ \A k \in 1..(i - 1) : a[k] = s[k]
  BY <1>1, <1>5
<1>8. Len(b) = n - i /\ \A k \in 1..(n - i) : b[k] = s[i + k]
  <2>1. Len(b) = n - i
    BY <1>1, <1>6
  <2>2. ASSUME NEW k \in 1..(n - i)
        PROVE  b[k] = s[i + k]
    <3>1. k \in 1..(n - (i + 1) + 1) /\ i + 1 + k - 1 = i + k
      BY <1>1
    <3> QED
      BY <1>6, <3>1
  <2> QED
    BY <2>1, <2>2
<1>9. /\ a \o b \in Seq(S) /\ Len(a \o b) = Len(a) + Len(b)
      /\ \A k \in 1..(Len(a) + Len(b)) : (a \o b)[k] = IF k <= Len(a) THEN a[k] ELSE b[k - Len(a)]
  BY <1>5, <1>6, ConcatProperties
<1> PICK u \in Seq(S) : u = a \o b
  BY <1>9
<1>10. Login!RemoveAt(s, i) = u
  BY DEF Login!RemoveAt, a, b
<1>11. Len(u) = n - 1
  <2>1. Len(u) = Len(a) + Len(b) /\ Len(a) = i - 1 /\ Len(b) = n - i
    BY <1>7, <1>8, <1>9
  <2> QED
    BY <1>1, <2>1
<1>12. ASSUME NEW k \in 1..(n - 1)
       PROVE  u[k] = IF k < i THEN s[k] ELSE s[k + 1]
  <2>1. u[k] = IF k <= i - 1 THEN a[k] ELSE b[k - (i - 1)]
    BY <1>1, <1>7, <1>8, <1>9
  <2>2. CASE k < i
    BY <1>1, <1>7, <2>1, <2>2
  <2>3. CASE ~(k < i)
    <3> PICK q \in 1..(n - i) : q = k - (i - 1)
      BY <1>1, <2>3
    <3>1. u[k] = b[q] /\ b[q] = s[i + q] /\ i + q = k + 1
      BY <1>1, <1>8, <2>1, <2>3
    <3> QED
      BY <2>3, <3>1
  <2> QED
    BY <2>2, <2>3
<1>13. Row(u)
  BY SeqIsRow
<1> QED
  BY <1>10, <1>11, <1>12, <1>13

\* One member put at the end of a row.
LEMMA AppendedIs ==
  ASSUME NEW s, Row(s), NEW x
  PROVE  /\ Row(Append(s, x)) /\ Len(Append(s, x)) = Len(s) + 1
         /\ \A k \in 1..Len(s) : Append(s, x)[k] = s[k]
         /\ Append(s, x)[Len(s) + 1] = x
<1> DEFINE S == {s[k] : k \in 1..Len(s)} \cup {x}
<1>1. (\A k \in 1..Len(s) : s[k] \in S) /\ x \in S
  OBVIOUS
<1> HIDE DEF S
<1>2. s \in Seq(S)
  BY <1>1, RowIsSeq
<1>3. /\ Append(s, x) \in Seq(S) /\ Len(Append(s, x)) = Len(s) + 1
      /\ \A k \in 1..Len(s) : Append(s, x)[k] = s[k]
      /\ Append(s, x)[Len(s) + 1] = x
  BY <1>1, <1>2, AppendProperties
<1>4. Row(Append(s, x))
  BY <1>3, SeqIsRow
<1> QED
  BY <1>3, <1>4

Turned(c, on) == [c EXCEPT !.sensitive = on]

LEMMA TurnedFits ==
  ASSUME NEW c, SurfaceFits(c), NEW on \in BOOLEAN
  PROVE  /\ SurfaceFits(Turned(c, on)) /\ Turned(c, on).sensitive = on
         /\ Turned(c, on).monitor = c.monitor /\ Turned(c, on).primary = c.primary
<1> PICK a, b, d : c = [monitor |-> a, primary |-> b, sensitive |-> d]
  BY DEF SurfaceFits
<1>1. [[monitor |-> a, primary |-> b, sensitive |-> d] EXCEPT !.sensitive = on]
         = [monitor |-> a, primary |-> b, sensitive |-> on]
  OBVIOUS
<1>2. Turned(c, on) = [monitor |-> a, primary |-> b, sensitive |-> on]
  BY <1>1, Zenon DEF Turned
<1>3. b \in BOOLEAN
  BY DEF SurfaceFits
<1> QED
  BY <1>2, <1>3 DEF SurfaceFits

\* Two rows of surfaces that are for the same monitors and have the card in the same place.
Alike(cs, ds) ==
  /\ Len(cs) = Len(ds)
  /\ \A i \in 1..Len(ds) : cs[i].monitor = ds[i].monitor /\ cs[i].primary = ds[i].primary

\* The fields of the card are turned on or off.
LEMMA SensitiveTurns ==
  ASSUME Surfaces(greeter_surfaces), NEW on \in BOOLEAN
  PROVE  /\ Surfaces(Login!Sensitive(on)) /\ Alike(Login!Sensitive(on), greeter_surfaces)
         /\ ~on => ~CanBeUsed(Login!Sensitive(on))
<1> PICK n \in Nat : n = Len(greeter_surfaces)
  BY DEF Surfaces, Row
<1> DEFINE s == greeter_surfaces
           After(i) == IF s[i].primary THEN Turned(s[i], on) ELSE s[i]
           cs == [i \in 1..n |-> After(i)]
<1>1. DOMAIN s = 1..n /\ \A i \in 1..n : SurfaceFits(s[i])
  BY DEF Surfaces, Row
<1>2. Login!Sensitive(on) = cs
  BY <1>1, Zenon DEF Login!Sensitive, Turned
<1>3. ASSUME NEW i \in 1..n
      PROVE  /\ SurfaceFits(After(i)) /\ After(i).monitor = s[i].monitor
             /\ After(i).primary = s[i].primary /\ (After(i).primary => After(i).sensitive = on)
  BY <1>1, TurnedFits
<1> HIDE DEF After, s
<1>4. DOMAIN cs = 1..n /\ Len(cs) = n /\ (\A i \in 1..n : cs[i] = After(i))
  OBVIOUS
<1>5. cs = [k \in 1..Len(cs) |-> cs[k]]
  BY <1>4
<1> HIDE DEF cs
<1>6. Surfaces(cs)
  BY <1>3, <1>4, <1>5 DEF Surfaces, Row
<1>7. Alike(cs, s)
  BY <1>3, <1>4 DEF Alike, s
<1>8. ~on => ~CanBeUsed(cs)
  BY <1>3, <1>4 DEF CanBeUsed
<1> QED
  BY <1>2, <1>6, <1>7, <1>8 DEF s

LEMMA AlikeArePlaced ==
  ASSUME NEW cs, NEW ds, NEW ms, Alike(cs, ds), Placed(ds, ms)
  PROVE  Placed(cs, ms)
BY DEF Alike, Placed

LEMMA NewSurfaceFits ==
  ASSUME NEW m, NEW p \in BOOLEAN
  PROVE  SurfaceFits(Login!Surface(m, p))
<1> DEFINE c == [monitor |-> m, primary |-> p, sensitive |-> TRUE]
<1>1. c.monitor = m /\ c.primary = p /\ c.sensitive = TRUE
  OBVIOUS
<1>2. SurfaceFits(c)
  BY <1>1, Zenon DEF SurfaceFits
<1> QED
  BY <1>2, Zenon DEF Login!Surface

\* The surfaces built for a row of monitors.
LEMMA AllSurfacesFit ==
  ASSUME NEW ms, Row(ms)
  PROVE  /\ Surfaces(Login!AllSurfaces(ms)) /\ Len(Login!AllSurfaces(ms)) = Len(ms)
         /\ \A i \in 1..Len(ms) : /\ Login!AllSurfaces(ms)[i].monitor = ms[i]
                                  /\ Login!AllSurfaces(ms)[i].primary <=> i = 1
<1> PICK n \in Nat : n = Len(ms)
  BY DEF Row
<1>1. DOMAIN ms = 1..n
  BY DEF Row
<1> DEFINE Built(i) == Login!Surface(ms[i], i = 1)
           cs == [i \in 1..n |-> Built(i)]
<1>2. Login!AllSurfaces(ms) = cs
  BY <1>1, Zenon DEF Login!AllSurfaces
<1>3. ASSUME NEW i \in 1..n
      PROVE  SurfaceFits(Built(i)) /\ Built(i).monitor = ms[i] /\ (Built(i).primary <=> i = 1)
  <2> PICK p \in BOOLEAN : p = (i = 1)
    OBVIOUS
  <2> PICK c : c = Built(i)
    OBVIOUS
  <2>1. c = [monitor |-> ms[i], primary |-> p, sensitive |-> TRUE]
    BY Zenon DEF Login!Surface
  <2> HIDE DEF Built
  <2>2. c.monitor = ms[i] /\ c.primary = p /\ c.sensitive = TRUE
    BY <2>1
  <2>3. SurfaceFits(c)
    BY <2>1 DEF SurfaceFits
  <2>4. p <=> i = 1
    OBVIOUS
  <2> QED
    BY <2>2, <2>3, <2>4, Zenon
<1> HIDE DEF Built
<1>4. DOMAIN cs = 1..n /\ Len(cs) = n /\ (\A i \in 1..n : cs[i] = Built(i))
  OBVIOUS
<1>5. cs = [k \in 1..Len(cs) |-> cs[k]]
  BY <1>4
<1> HIDE DEF cs
<1>6. Surfaces(cs)
  BY <1>3, <1>4, <1>5 DEF Surfaces, Row
<1> QED
  BY <1>2, <1>3, <1>4, <1>6

\* What only the user or the monitors change leaves the attempt as it is.
LEMMA AttemptStays ==
  ASSUME LoginInv, UNCHANGED <<greeter_running, stored, busy, job, worker, greetd, broken, answers,
                               started>>,
         rebuilt' \in BOOLEAN, headless' \in BOOLEAN, rebuilt => rebuilt'
  PROVE  AttemptInv'
<1>1. AttemptInv
  BY DEF LoginInv
<1>2. {busy, greeter_running, rebuilt', headless', broken, worker.supplied, worker.ok} \subseteq BOOLEAN
  BY <1>1 DEF AttemptInv
<1> QED
  BY <1>1, <1>2 DEF AttemptInv

\* The user can touch a field only while no attempt is made, or on a card built since.
LEMMA UsableIsFree ==
  ASSUME LoginInv, CanBeUsed(greeter_surfaces)
  PROVE  worker.at # "idle" => rebuilt
BY DEF LoginInv, CardInv

LEMMA FieldsStep ==
  ASSUME LoginInv, NEW i,
         \/ Login!SelectUser(i) \/ Login!SelectSession(i) \/ \E p : Login!Type(p)
  PROVE  LoginInv'
<1>1. /\ CanBeUsed(greeter_surfaces)
      /\ UNCHANGED <<users, sessions, greeter_monitors, greeter_surfaces, rebuilt, headless>>
      /\ UNCHANGED <<greeter_running, stored, busy, job, worker, greetd, broken, answers, started>>
  BY DEF Login!SelectUser, Login!SelectSession, Login!Type, Login!Usable, CanBeUsed, Login!Kept,
         Login!auth
<1>2. worker.at # "idle" => rebuilt
  BY <1>1, UsableIsFree
<1>3. rebuilt \in BOOLEAN /\ headless \in BOOLEAN
  BY DEF LoginInv, AttemptInv
<1>4. AttemptInv'
  BY <1>1, <1>3, AttemptStays
<1>5. ListInv'
  BY <1>1 DEF LoginInv, ListInv
<1>6. CardInv'
  BY <1>1, <1>2 DEF LoginInv, CardInv
<1> QED
  BY <1>4, <1>5, <1>6 DEF LoginInv

LEMMA EscapeStep ==
  ASSUME LoginInv, Login!Escape
  PROVE  LoginInv'
<1>1. /\ ~busy /\ greeter_surfaces' = Login!Sensitive(TRUE)
      /\ UNCHANGED <<users, sessions, user, session, greeter_monitors, rebuilt, headless>>
      /\ UNCHANGED <<greeter_running, stored, busy, job, worker, greetd, broken, answers, started>>
  BY DEF Login!Escape, Login!Kept, Login!auth
<1>2. rebuilt \in BOOLEAN /\ headless \in BOOLEAN /\ worker.at = "idle"
  BY <1>1 DEF LoginInv, AttemptInv
<1>3. AttemptInv'
  BY <1>1, <1>2, AttemptStays
<1>4. ListInv'
  BY <1>1 DEF LoginInv, ListInv
<1>5. /\ Surfaces(greeter_surfaces) /\ Row(greeter_monitors)
      /\ ~headless => Placed(greeter_surfaces, greeter_monitors)
  BY DEF LoginInv, CardInv
<1>6. Surfaces(greeter_surfaces') /\ Alike(greeter_surfaces', greeter_surfaces)
  BY <1>1, <1>5, SensitiveTurns
<1>7. ~headless => Placed(greeter_surfaces', greeter_monitors)
  BY <1>5, <1>6, AlikeArePlaced
<1>8. CardInv'
  BY <1>1, <1>2, <1>5, <1>6, <1>7 DEF CardInv
<1> QED
  BY <1>3, <1>4, <1>8 DEF LoginInv

LEMMA SubmitStep ==
  ASSUME LoginInv, Login!Submit
  PROVE  LoginInv'
<1>1. /\ ~busy /\ busy' = TRUE /\ greeter_surfaces' = Login!Sensitive(FALSE) /\ rebuilt' = FALSE
      /\ answers' = 0 /\ broken' = FALSE
      /\ UNCHANGED <<users, sessions, user, session, greeter_monitors, headless>>
      /\ UNCHANGED <<greeter_running, stored, greetd, started>>
  BY DEF Login!Submit, Login!Kept
<1>2. /\ job'.user = users[user] /\ job'.session = sessions[session].id
  BY DEF Login!Submit
<1>3. worker' = [at |-> "create", asked |-> "-", round |-> 0, supplied |-> FALSE, ok |-> FALSE]
  BY DEF Login!Submit
<1>4. /\ worker'.at = "create" /\ worker'.supplied = FALSE /\ worker'.ok = FALSE
      /\ worker' = [at |-> worker'.at, asked |-> worker'.asked, round |-> worker'.round,
                    supplied |-> worker'.supplied, ok |-> worker'.ok]
  BY <1>3
<1>5. greeter_running
  BY DEF Login!Submit, Login!Event
<1>6. AttemptInv'
  <2>1. /\ greetd = [state |-> greetd.state, user |-> greetd.user]
        /\ stored = [sys |-> stored.sys, own |-> stored.own]
        /\ greeter_running \in BOOLEAN /\ headless \in BOOLEAN
    BY DEF LoginInv, AttemptInv
  <2> QED
    BY <1>1, <1>4, <1>5, <2>1 DEF AttemptInv
<1>7. ListInv'
  BY <1>1 DEF LoginInv, ListInv
<1>8. /\ Surfaces(greeter_surfaces) /\ Row(greeter_monitors)
      /\ ~headless => Placed(greeter_surfaces, greeter_monitors)
  BY DEF LoginInv, CardInv
<1>9. /\ Surfaces(greeter_surfaces') /\ Alike(greeter_surfaces', greeter_surfaces)
      /\ ~CanBeUsed(greeter_surfaces')
  BY <1>1, <1>8, SensitiveTurns
<1>10. ~headless => Placed(greeter_surfaces', greeter_monitors)
  BY <1>8, <1>9, AlikeArePlaced
<1>11. CardInv'
  BY <1>1, <1>2, <1>8, <1>9, <1>10 DEF CardInv
<1> QED
  BY <1>6, <1>7, <1>11 DEF LoginInv

LEMMA CompleteStep ==
  ASSUME LoginInv, Login!Complete
  PROVE  LoginInv'
<1>1. /\ greeter_running /\ worker.at = "ended" /\ worker' = Goes(worker, "idle")
      /\ busy' = FALSE /\ greeter_surfaces' = Login!Sensitive(TRUE)
      /\ greeter_running' = ~worker.ok
      /\ UNCHANGED <<users, sessions, user, session, greeter_monitors, rebuilt, headless>>
      /\ UNCHANGED <<job, greetd, broken, answers, started>>
  BY Zenon DEF Login!Complete, Login!At, Goes
<1>2. stored' = IF worker.ok THEN Login!WrittenTo(<<users[user], sessions[session].id>>) ELSE stored
  BY DEF Login!Complete
<1>3. /\ worker = [at |-> worker.at, asked |-> worker.asked, round |-> worker.round,
                   supplied |-> worker.supplied, ok |-> worker.ok]
      /\ greetd = [state |-> greetd.state, user |-> greetd.user]
      /\ stored = [sys |-> stored.sys, own |-> stored.own]
      /\ rebuilt \in BOOLEAN /\ headless \in BOOLEAN /\ broken \in BOOLEAN
      /\ worker.supplied \in BOOLEAN /\ worker.ok \in BOOLEAN /\ answers \in {0, 1}
      /\ ~worker.ok /\ ~broken => greetd.state = "none"
      /\ worker.ok => started = <<job.user, job.session>>
  BY <1>1 DEF LoginInv, AttemptInv
<1>4. worker' = [at |-> "idle", asked |-> worker.asked, round |-> worker.round,
                 supplied |-> worker.supplied, ok |-> worker.ok]
  BY <1>1, <1>3, WorkerMoves
<1>5. /\ worker'.at = "idle" /\ worker'.supplied = worker.supplied /\ worker'.ok = worker.ok
      /\ worker' = [at |-> worker'.at, asked |-> worker'.asked, round |-> worker'.round,
                    supplied |-> worker'.supplied, ok |-> worker'.ok]
  BY <1>4
<1>6. /\ stored' = [sys |-> stored'.sys, own |-> stored'.own]
      /\ worker.ok => <<users[user], sessions[session].id>> \in {stored'.sys, stored'.own}
  <2> PICK choice : choice = <<users[user], sessions[session].id>>
    OBVIOUS
  <2> PICK a, b : stored = [sys |-> a, own |-> b]
    BY <1>3
  <2> DEFINE wrote == Login!WrittenTo(choice)
  <2>1. /\ [[sys |-> a, own |-> b] EXCEPT !.sys = choice] = [sys |-> choice, own |-> b]
        /\ [[sys |-> a, own |-> b] EXCEPT !.own = choice] = [sys |-> a, own |-> choice]
    OBVIOUS
  <2>2. wrote = [sys |-> choice, own |-> b] \/ wrote = [sys |-> a, own |-> choice]
    BY <2>1, Zenon DEF Login!WrittenTo
  <2> HIDE DEF wrote
  <2>3. stored' = IF worker.ok THEN wrote ELSE stored
    BY <1>2 DEF wrote
  <2>4. wrote = [sys |-> wrote.sys, own |-> wrote.own] /\ choice \in {wrote.sys, wrote.own}
    BY <2>2
  <2>5. CASE worker.ok
    BY <2>3, <2>4, <2>5
  <2>6. CASE ~worker.ok
    BY <1>3, <2>3, <2>6
  <2> QED
    BY <1>3, <2>5, <2>6
<1>7. /\ Surfaces(greeter_surfaces) /\ Row(greeter_monitors)
      /\ ~headless => Placed(greeter_surfaces, greeter_monitors)
      /\ ~rebuilt => job.user = users[user] /\ job.session = sessions[session].id
  BY <1>1 DEF LoginInv, CardInv
<1>8. worker.ok /\ ~rebuilt => started \in {stored'.sys, stored'.own}
  BY <1>3, <1>6, <1>7, Zenon
<1>9. AttemptInv'
  BY <1>1, <1>3, <1>5, <1>6, <1>8 DEF AttemptInv
<1>10. ListInv'
  BY <1>1 DEF LoginInv, ListInv
<1>11. /\ Surfaces(greeter_surfaces') /\ Alike(greeter_surfaces', greeter_surfaces)
  BY <1>1, <1>7, SensitiveTurns
<1>12. ~headless => Placed(greeter_surfaces', greeter_monitors)
  BY <1>7, <1>11, AlikeArePlaced
<1>13. CardInv'
  BY <1>1, <1>5, <1>7, <1>11, <1>12 DEF CardInv
<1> QED
  BY <1>9, <1>10, <1>13 DEF LoginInv

LEMMA AllPlaced ==
  ASSUME NEW ms, Row(ms), \A j, k \in 1..Len(ms) : ms[j] = ms[k] => j = k
  PROVE  Placed(Login!AllSurfaces(ms), ms)
BY AllSurfacesFit DEF Placed

\* What is left of the surfaces and the monitors when one of them goes.
LEMMA LeftFits ==
  ASSUME NEW cs, Surfaces(cs), NEW i \in DOMAIN cs, NEW ds, ds = Login!RemoveAt(cs, i)
  PROVE  /\ Surfaces(ds) /\ Len(ds) = Len(cs) - 1
         /\ \A k \in 1..(Len(cs) - 1) : ds[k] = IF k < i THEN cs[k] ELSE cs[k + 1]
         /\ CanBeUsed(ds) => CanBeUsed(cs)
<1> PICK n \in Nat : n = Len(cs)
  BY DEF Surfaces, Row
<1>1. DOMAIN cs = 1..n /\ \A k \in 1..n : SurfaceFits(cs[k])
  BY DEF Surfaces, Row
<1>2. Row(cs)
  BY DEF Surfaces
<1>3. /\ Row(ds) /\ Len(ds) = n - 1
      /\ \A k \in 1..(n - 1) : ds[k] = IF k < i THEN cs[k] ELSE cs[k + 1]
  BY <1>2, RemovedIs
<1>4. DOMAIN ds = 1..(n - 1)
  BY <1>3 DEF Row
<1>5. ASSUME NEW k \in DOMAIN ds
      PROVE  \E q \in 1..n : ds[k] = cs[q]
  <2>1. k \in 1..n /\ k + 1 \in 1..n
    BY <1>4
  <2>2. CASE k < i
    BY <1>3, <1>4, <2>1, <2>2
  <2>3. CASE ~(k < i)
    BY <1>3, <1>4, <2>1, <2>3
  <2> QED
    BY <2>2, <2>3
<1>6. \A k \in DOMAIN ds : SurfaceFits(ds[k])
  BY <1>1, <1>5
<1>7. CanBeUsed(ds) => CanBeUsed(cs)
  BY <1>1, <1>5 DEF CanBeUsed
<1> QED
  BY <1>3, <1>6, <1>7 DEF Surfaces

\* If the card stays, what is left is in its place; if it goes, everything is built anew.
LEMMA LeftPlaced ==
  ASSUME NEW cs, NEW ms, Surfaces(cs), Row(ms), Placed(cs, ms), NEW i \in DOMAIN cs,
         NEW ds, ds = Login!RemoveAt(cs, i), NEW left, left = Login!RemoveAt(ms, i)
  PROVE  /\ ds # <<>> /\ (\A j \in DOMAIN ds : ~ds[j].primary) => Placed(Login!AllSurfaces(left), left)
         /\ ~(ds # <<>> /\ \A j \in DOMAIN ds : ~ds[j].primary) => Placed(ds, left)
<1> PICK n \in Nat : n = Len(cs)
  BY DEF Surfaces, Row
<1>1. DOMAIN cs = 1..n /\ DOMAIN ms = 1..n /\ Len(ms) = n /\ i \in 1..n
  <2>1. DOMAIN cs = 1..Len(cs) /\ DOMAIN ms = 1..Len(ms) /\ Len(ms) = Len(cs)
    BY DEF Surfaces, Row, Placed
  <2> QED
    BY <2>1
<1>2. /\ Surfaces(ds) /\ Len(ds) = n - 1
      /\ \A k \in 1..(n - 1) : ds[k] = IF k < i THEN cs[k] ELSE cs[k + 1]
  BY LeftFits
<1>3. /\ Row(left) /\ Len(left) = n - 1
      /\ \A k \in 1..(n - 1) : left[k] = IF k < i THEN ms[k] ELSE ms[k + 1]
  BY <1>1, RemovedIs
<1>4. DOMAIN ds = 1..(n - 1) /\ DOMAIN left = 1..(n - 1)
  BY <1>2, <1>3 DEF Surfaces, Row
<1>5. /\ \A k \in 1..n : cs[k].monitor = ms[k] /\ (cs[k].primary <=> k = 1)
      /\ \A j, k \in 1..n : ms[j] = ms[k] => j = k
  BY <1>1 DEF Placed
<1>6. ASSUME NEW j \in 1..(n - 1), NEW k \in 1..(n - 1), left[j] = left[k]
      PROVE  j = k
  <2> PICK p \in 1..n : p = IF j < i THEN j ELSE j + 1
    BY <1>1
  <2> PICK q \in 1..n : q = IF k < i THEN k ELSE k + 1
    BY <1>1
  <2>1. left[j] = ms[p] /\ left[k] = ms[q]
    BY <1>3
  <2>2. ms[p] = ms[q]
    BY <1>6, <2>1
  <2>3. p = q
    BY <1>5, <2>2
  <2> QED
    BY <1>1, <2>3
<1>7. \A j, k \in 1..Len(left) : left[j] = left[k] => j = k
  BY <1>3, <1>6
<1>8. Placed(Login!AllSurfaces(left), left)
  BY <1>3, <1>7, AllPlaced
<1>9. ASSUME i # 1 \/ n = 1
      PROVE  Placed(ds, left)
  <2>1. ASSUME NEW k \in 1..(n - 1)
        PROVE  ds[k].monitor = left[k] /\ (ds[k].primary <=> k = 1)
    <3>1. CASE k < i
      <4>1. k \in 1..n /\ ds[k] = cs[k] /\ left[k] = ms[k]
        BY <1>1, <1>2, <1>3, <3>1
      <4> QED
        BY <1>5, <4>1
    <3>2. CASE ~(k < i)
      <4> PICK q \in 1..n : q = k + 1
        OBVIOUS
      <4>1. ds[k] = cs[q] /\ left[k] = ms[q]
        BY <1>1, <1>2, <1>3, <3>2
      <4>2. k # 1 /\ q # 1
        BY <1>1, <1>9, <3>2
      <4> QED
        BY <1>5, <4>1, <4>2
    <3> QED
      BY <3>1, <3>2
  <2> QED
    BY <1>2, <1>3, <1>6, <2>1 DEF Placed
<1>10. ASSUME i = 1, n # 1
       PROVE  ds # <<>> /\ \A j \in DOMAIN ds : ~ds[j].primary
  <2>1. 1 \in DOMAIN ds
    BY <1>1, <1>4, <1>10
  <2>2. ds # <<>>
    BY <2>1
  <2>3. ASSUME NEW j \in 1..(n - 1)
        PROVE  ~ds[j].primary
    <3> PICK q \in 1..n : q = j + 1
      OBVIOUS
    <3>1. ds[j] = cs[q] /\ q # 1
      BY <1>2, <1>10
    <3> QED
      BY <1>5, <3>1
  <2> QED
    BY <1>4, <2>2, <2>3
<1> QED
  BY <1>8, <1>9, <1>10

LEMMA MonitorRemovedStep ==
  ASSUME LoginInv, NEW i, Login!MonitorRemoved(i)
  PROVE  LoginInv'
<1> DEFINE cs == greeter_surfaces
           ms == greeter_monitors
           left == IF i \in DOMAIN cs THEN Login!RemoveAt(cs, i) ELSE cs
           gone == left # <<>> /\ \A j \in DOMAIN left : ~left[j].primary
<1>1. /\ i \in DOMAIN ms /\ ms' = Login!RemoveAt(ms, i)
      /\ cs' = (IF gone THEN Login!AllSurfaces(ms') ELSE left) /\ rebuilt' = (rebuilt \/ gone)
      /\ UNCHANGED <<users, sessions, user, session, headless>>
      /\ UNCHANGED <<greeter_running, stored, busy, job, worker, greetd, broken, answers, started>>
  BY Zenon DEF Login!MonitorRemoved, Login!Kept, Login!auth
<1>2. gone \in BOOLEAN
  OBVIOUS
<1>3. rebuilt \in BOOLEAN /\ headless \in BOOLEAN
  BY DEF LoginInv, AttemptInv
<1>4. /\ Surfaces(cs) /\ Row(ms) /\ (~headless => Placed(cs, ms))
      /\ worker.at # "idle" /\ ~rebuilt =>
           /\ ~CanBeUsed(cs)
           /\ job.user = users[user] /\ job.session = sessions[session].id
  BY DEF LoginInv, CardInv
<1>5. Row(ms')
  BY <1>1, <1>4, RemovedIs
<1>6. Surfaces(Login!AllSurfaces(ms'))
  BY <1>5, AllSurfacesFit
<1>7. Surfaces(left) /\ (CanBeUsed(left) => CanBeUsed(cs))
  <2>1. CASE i \in DOMAIN cs
    <3>1. left = Login!RemoveAt(cs, i)
      BY <2>1
    <3> HIDE DEF left
    <3> QED
      BY <1>4, <2>1, <3>1, LeftFits
  <2>2. CASE i \notin DOMAIN cs
    BY <1>4, <2>2
  <2> QED
    BY <2>1, <2>2
<1>8. ~headless => Placed(cs', ms')
  <2> SUFFICES ASSUME ~headless
               PROVE  Placed(cs', ms')
    OBVIOUS
  <2>1. Placed(cs, ms) /\ DOMAIN cs = 1..Len(cs) /\ DOMAIN ms = 1..Len(ms) /\ Len(cs) = Len(ms)
    BY <1>4 DEF Placed, Surfaces, Row
  <2>2. i \in DOMAIN cs
    BY <1>1, <2>1
  <2>3. left = Login!RemoveAt(cs, i)
    BY <2>2
  <2> HIDE DEF left
  <2>4. gone => Placed(Login!AllSurfaces(ms'), ms')
    BY <1>1, <1>4, <2>1, <2>2, <2>3, LeftPlaced
  <2>5. ~gone => Placed(left, ms')
    BY <1>1, <1>4, <2>1, <2>2, <2>3, LeftPlaced
  <2> HIDE DEF gone
  <2> QED
    BY <1>1, <1>2, <2>4, <2>5
<1> HIDE DEF gone, left
<1>9. AttemptInv'
  BY <1>1, <1>2, <1>3, AttemptStays
<1>10. ListInv'
  BY <1>1 DEF LoginInv, ListInv
<1>11. Surfaces(cs') /\ (CanBeUsed(cs') /\ ~rebuilt' => CanBeUsed(cs))
  BY <1>1, <1>2, <1>3, <1>6, <1>7
<1>12. CardInv'
  BY <1>1, <1>2, <1>3, <1>4, <1>5, <1>8, <1>11 DEF CardInv
<1> QED
  BY <1>9, <1>10, <1>12 DEF LoginInv

LEMMA MonitorAddedStep ==
  ASSUME LoginInv, NEW m, Login!MonitorAdded(m)
  PROVE  LoginInv'
<1> DEFINE cs == greeter_surfaces
           ms == greeter_monitors
           there == \E i \in DOMAIN cs : cs[i].primary
           added == Login!Surface(m, ~there)
           anew == cs # <<>> /\ ~there
<1>1. /\ m \notin Login!Range(ms) /\ ms' = Append(ms, m)
      /\ cs' = (IF anew THEN Login!AllSurfaces(ms') ELSE Append(cs, added))
      /\ rebuilt' = (rebuilt \/ ~there)
      /\ UNCHANGED <<users, sessions, user, session, headless>>
      /\ UNCHANGED <<greeter_running, stored, busy, job, worker, greetd, broken, answers, started>>
  BY Zenon DEF Login!MonitorAdded, Login!Kept, Login!auth, Login!Primary
<1>2. there \in BOOLEAN
  OBVIOUS
<1>3. rebuilt \in BOOLEAN /\ headless \in BOOLEAN
  BY DEF LoginInv, AttemptInv
<1>4. /\ Surfaces(cs) /\ Row(ms) /\ (~headless => Placed(cs, ms))
      /\ worker.at # "idle" /\ ~rebuilt =>
           /\ ~CanBeUsed(cs)
           /\ job.user = users[user] /\ job.session = sessions[session].id
  BY DEF LoginInv, CardInv
<1> PICK n \in Nat : n = Len(cs)
  BY <1>4 DEF Surfaces, Row
<1>5. DOMAIN cs = 1..n /\ Row(cs) /\ (\A i \in 1..n : SurfaceFits(cs[i])) /\ (cs # <<>> => n # 0)
  <2>1. DOMAIN cs = 1..n /\ Row(cs) /\ (\A i \in 1..n : SurfaceFits(cs[i]))
    BY <1>4 DEF Surfaces, Row
  <2>2. ASSUME n = 0
        PROVE  cs = <<>>
    <3>1. cs = [k \in 1..0 |-> cs[k]] /\ 1..0 = {}
      BY <2>1, <2>2 DEF Row
    <3> QED
      BY <3>1
  <2> QED
    BY <2>1, <2>2
<1>6. Row(ms')
  BY <1>1, <1>4, AppendedIs
<1>7. SurfaceFits(added) /\ added.monitor = m /\ added.primary = ~there
  <2> PICK p \in BOOLEAN : p = ~there
    OBVIOUS
  <2> PICK c : c = added
    OBVIOUS
  <2>1. c = [monitor |-> m, primary |-> p, sensitive |-> TRUE]
    BY Zenon DEF Login!Surface
  <2> HIDE DEF added
  <2>2. c.monitor = m /\ c.primary = p /\ c.sensitive = TRUE
    BY <2>1
  <2>3. SurfaceFits(c)
    BY <2>1 DEF SurfaceFits
  <2> QED
    BY <2>2, <2>3, Zenon
<1> HIDE DEF added
<1> DEFINE ds == Append(cs, added)
<1>8. /\ Row(ds) /\ Len(ds) = n + 1 /\ ds[n + 1] = added
      /\ \A k \in 1..n : ds[k] = cs[k]
  BY <1>5, AppendedIs
<1> HIDE DEF ds
<1>9. DOMAIN ds = 1..(n + 1)
  BY <1>8 DEF Row
<1>10. Surfaces(ds)
  <2>1. ASSUME NEW k \in 1..(n + 1)
        PROVE  SurfaceFits(ds[k])
    <3>1. CASE k = n + 1
      BY <1>7, <1>8, <3>1
    <3>2. CASE k # n + 1
      <4>1. k \in 1..n
        BY <3>2
      <4> QED
        BY <1>5, <1>8, <4>1
    <3> QED
      BY <3>1, <3>2
  <2> QED
    BY <1>8, <1>9, <2>1 DEF Surfaces
<1>11. Surfaces(Login!AllSurfaces(ms'))
  BY <1>6, AllSurfacesFit
<1>12. there /\ CanBeUsed(ds) => CanBeUsed(cs)
  <2> SUFFICES ASSUME there, NEW k \in 1..(n + 1), ds[k].primary, ds[k].sensitive
               PROVE  CanBeUsed(cs)
    BY <1>9 DEF CanBeUsed
  <2>1. k # n + 1
    BY <1>7, <1>8
  <2>2. k \in 1..n
    BY <2>1
  <2> QED
    BY <1>5, <1>8, <2>2 DEF CanBeUsed
<1>13. ~headless => Placed(cs', ms')
  <2> SUFFICES ASSUME ~headless
               PROVE  Placed(cs', ms')
    OBVIOUS
  <2>1. /\ Len(ms) = n
        /\ \A k \in 1..n : cs[k].monitor = ms[k] /\ (cs[k].primary <=> k = 1)
        /\ \A j, k \in 1..n : ms[j] = ms[k] => j = k
    BY <1>4 DEF Placed
  <2>2. there <=> n # 0
    <3>1. ASSUME n # 0
          PROVE  there
      <4>1. 1 \in 1..n
        BY <3>1
      <4>2. cs[1].primary
        BY <2>1, <4>1
      <4> QED
        BY <1>5, <4>1, <4>2
    <3>2. ASSUME n = 0
          PROVE  ~there
      BY <1>5, <3>2
    <3> QED
      BY <3>1, <3>2
  <2>3. ~anew
    BY <1>5, <2>2
  <2>4. cs' = ds
    BY <1>1, <2>3 DEF ds
  <2> PICK new : new = ms'
    OBVIOUS
  <2>5. /\ Len(new) = n + 1 /\ new[n + 1] = m
        /\ \A k \in 1..n : new[k] = ms[k]
    BY <1>1, <1>4, <2>1, AppendedIs
  <2>6. \A k \in 1..n : ms[k] # m
    <3>1. DOMAIN ms = 1..n
      BY <1>4, <2>1 DEF Row
    <3> QED
      BY <1>1, <3>1 DEF Login!Range
  <2>7. ASSUME NEW k \in 1..(n + 1)
        PROVE  ds[k].monitor = new[k] /\ (ds[k].primary <=> k = 1)
    <3>1. CASE k = n + 1
      <4>1. ds[k] = added /\ new[k] = m
        BY <1>8, <2>5, <3>1
      <4>2. added.primary <=> n = 0
        BY <1>2, <1>7, <2>2
      <4> QED
        BY <1>7, <3>1, <4>1, <4>2
    <3>2. CASE k # n + 1
      <4>1. k \in 1..n
        BY <3>2
      <4> QED
        BY <1>8, <2>1, <2>5, <4>1
    <3> QED
      BY <3>1, <3>2
  <2>8. ASSUME NEW j \in 1..(n + 1), NEW k \in 1..(n + 1), new[j] = new[k]
        PROVE  j = k
    <3>1. (j \in 1..n \/ j = n + 1) /\ (k \in 1..n \/ k = n + 1)
      OBVIOUS
    <3> QED
      BY <2>1, <2>5, <2>6, <2>8, <3>1
  <2>9. Placed(ds, new)
    BY <1>8, <2>5, <2>7, <2>8 DEF Placed
  <2> QED
    BY <2>4, <2>9
<1> DEFINE seen == there
<1> HIDE DEF there
<1>14. AttemptInv'
  BY <1>1, <1>2, <1>3, AttemptStays
<1>15. ListInv'
  BY <1>1 DEF LoginInv, ListInv
<1>16. Surfaces(cs')
  BY <1>1, <1>10, <1>11 DEF ds
<1>17. ~rebuilt' => there /\ ~rebuilt
  BY <1>1, <1>2, <1>3
<1>18. there => cs' = ds
  BY <1>1 DEF ds
<1>19. CardInv'
  BY <1>1, <1>4, <1>6, <1>12, <1>13, <1>16, <1>17, <1>18 DEF CardInv
<1> QED
  BY <1>14, <1>15, <1>19 DEF LoginInv

LEMMA StartStep ==
  ASSUME LoginInv, NEW ms, ms = <<>> \/ \E m \in Outputs : ms = <<m>>, Login!Start(ms)
  PROVE  LoginInv'
<1>1. /\ ~greeter_running /\ greeter_running' = TRUE /\ greeter_monitors' = ms
      /\ headless' = (ms = <<>>) /\ busy' = FALSE /\ rebuilt' = FALSE
      /\ greeter_surfaces' = (IF ms = <<>> THEN <<Login!Surface("none", TRUE)>>
                              ELSE Login!AllSurfaces(ms))
      /\ worker' = Goes(worker, "idle") /\ greetd' = [state |-> "none", user |-> 0]
      /\ UNCHANGED <<users, sessions, stored, job, broken, answers, started>>
  BY Zenon DEF Login!Start, Login!Activate, Goes
<1>2. /\ worker = [at |-> worker.at, asked |-> worker.asked, round |-> worker.round,
                   supplied |-> worker.supplied, ok |-> worker.ok]
      /\ stored = [sys |-> stored.sys, own |-> stored.own]
      /\ broken \in BOOLEAN /\ worker.supplied \in BOOLEAN /\ worker.ok \in BOOLEAN
      /\ answers \in {0, 1}
  BY DEF LoginInv, AttemptInv
<1>3. worker' = [at |-> "idle", asked |-> worker.asked, round |-> worker.round,
                 supplied |-> worker.supplied, ok |-> worker.ok]
  BY <1>1, <1>2, WorkerMoves
<1>4. /\ worker'.at = "idle" /\ worker'.supplied = worker.supplied /\ worker'.ok = worker.ok
      /\ worker' = [at |-> worker'.at, asked |-> worker'.asked, round |-> worker'.round,
                    supplied |-> worker'.supplied, ok |-> worker'.ok]
  BY <1>3
<1>5. greetd' = [state |-> greetd'.state, user |-> greetd'.user] /\ greetd'.state = "none"
  BY <1>1
<1>6. headless' \in BOOLEAN
  BY <1>1
<1>7. AttemptInv'
  BY <1>1, <1>2, <1>4, <1>5, <1>6 DEF AttemptInv
<1>8. ListInv'
  BY <1>1 DEF LoginInv, ListInv
<1>9. Row(ms) /\ \A j, k \in 1..Len(ms) : ms[j] = ms[k] => j = k
  <2>1. CASE ms = <<>>
    <3>1. Len(ms) = 0 /\ ms = [k \in 1..Len(ms) |-> ms[k]]
      BY <2>1
    <3> QED
      BY <3>1 DEF Row
  <2>2. CASE \E m \in Outputs : ms = <<m>>
    <3> PICK m \in Outputs : ms = <<m>>
      BY <2>2
    <3>1. ms \in Seq(Outputs) /\ Len(ms) = 1
      OBVIOUS
    <3>2. Row(ms)
      BY <3>1, SeqIsRow
    <3> QED
      BY <3>1, <3>2
  <2> QED
    BY <2>1, <2>2
<1>10. Surfaces(greeter_surfaces')
  <2>1. CASE ms = <<>>
    <3> PICK c : c = Login!Surface("none", TRUE)
      OBVIOUS
    <3> DEFINE cs == <<c>>
    <3>1. SurfaceFits(c)
      BY NewSurfaceFits, Zenon
    <3>2. cs \in Seq({c}) /\ DOMAIN cs = 1..1 /\ cs[1] = c
      OBVIOUS
    <3>3. greeter_surfaces' = cs
      BY <1>1, <2>1
    <3> HIDE DEF cs
    <3>4. Row(cs)
      BY <3>2, SeqIsRow
    <3>5. ASSUME NEW i \in DOMAIN cs
          PROVE  cs[i] = c
      <4>1. i \in 1..1
        BY <3>2
      <4>2. i = 1
        BY <4>1
      <4> QED
        BY <3>2, <4>2
    <3>6. Surfaces(cs)
      BY <3>1, <3>4, <3>5 DEF Surfaces
    <3> QED
      BY <3>3, <3>6
  <2>2. CASE ms # <<>>
    BY <1>1, <1>9, <2>2, AllSurfacesFit
  <2> QED
    BY <2>1, <2>2
<1>11. ~headless' => Placed(greeter_surfaces', ms)
  BY <1>1, <1>9, AllPlaced
<1>12. CardInv'
  BY <1>1, <1>4, <1>9, <1>10, <1>11 DEF CardInv
<1> QED
  BY <1>7, <1>8, <1>12 DEF LoginInv

\* No step of the greeter breaks the invariant.
LEMMA LoginSteps ==
  ASSUME LoginInv, [Login!Next]_(Login!vars)
  PROVE  LoginInv'
<1>1. CASE Login!Next
  <2>1. \/ Login!Escape \/ Login!Submit \/ Login!CreateSession \/ Login!Answer
        \/ Login!StartSession \/ Login!Complete
        \/ \E i : Login!SelectUser(i) \/ Login!SelectSession(i) \/ \E p : Login!Type(p)
        \/ \E i : Login!MonitorRemoved(i)
        \/ \E m : Login!MonitorAdded(m)
        \/ \E ms \in {<<>>} \cup {<<m>> : m \in Outputs} : Login!Start(ms)
    BY <1>1, Zenon DEF Login!Next
  <2>2. CASE Login!Escape
    BY <2>2, EscapeStep
  <2>3. CASE Login!Submit
    BY <2>3, SubmitStep
  <2>4. CASE Login!CreateSession
    BY <2>4, CreateSessionStep
  <2>5. CASE Login!Answer
    BY <2>5, AnswerStep
  <2>6. CASE Login!StartSession
    BY <2>6, StartSessionStep
  <2>7. CASE Login!Complete
    BY <2>7, CompleteStep
  <2>8. ASSUME NEW i, Login!SelectUser(i) \/ Login!SelectSession(i) \/ \E p : Login!Type(p)
        PROVE  LoginInv'
    BY <2>8, FieldsStep
  <2>9. ASSUME NEW i, Login!MonitorRemoved(i)
        PROVE  LoginInv'
    BY <2>9, MonitorRemovedStep
  <2>10. ASSUME NEW m, Login!MonitorAdded(m)
         PROVE  LoginInv'
    BY <2>10, MonitorAddedStep
  <2>11. ASSUME NEW ms \in {<<>>} \cup {<<m>> : m \in Outputs}, Login!Start(ms)
         PROVE  LoginInv'
    <3>1. ms = <<>> \/ \E m \in Outputs : ms = <<m>>
      BY <2>11, Zenon
    <3> QED
      BY <2>11, <3>1, StartStep
  <2> QED
    BY <2>1, <2>2, <2>3, <2>4, <2>5, <2>6, <2>7, <2>8, <2>9, <2>10, <2>11, Zenon
<1>2. CASE UNCHANGED Login!vars
  <2>1. UNCHANGED <<users, sessions, user, session, greeter_monitors, greeter_surfaces,
                    greeter_running, stored, busy, job, worker, greetd, broken, answers, started,
                    rebuilt, headless>>
    BY <1>2 DEF Login!vars, Login!ui, Login!auth
  <2>2. rebuilt \in BOOLEAN /\ headless \in BOOLEAN
    BY DEF LoginInv, AttemptInv
  <2>3. AttemptInv'
    BY <2>1, <2>2, AttemptStays
  <2>4. ListInv' /\ CardInv'
    BY <2>1 DEF LoginInv, ListInv, CardInv
  <2> QED
    BY <2>3, <2>4 DEF LoginInv
<1> QED
  BY <1>1, <1>2

(* The card of the login screen is on the first monitor and only there, and *)
(* an attempt sends one password, for the user it began with, and leaves    *)
(* nothing behind, however users, monitors and the socket behave            *)
(* (greeter/main.c, greetd_ipc.c).                                          *)
THEOREM AttemptsAlwaysClean == Login!Spec => []AttemptsAreClean
<1>1. Login!Init => LoginInv
  BY LoginBegins
<1>2. LoginInv /\ [Login!Next]_(Login!vars) => LoginInv'
  BY LoginSteps
<1>3. LoginInv => AttemptsAreClean
  BY LoginInvSays
<1> QED
  BY <1>1, <1>2, <1>3, PTL DEF Login!Spec
=============================================================================
