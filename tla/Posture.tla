------------------------------ MODULE Posture ------------------------------
(***************************************************************************)
(* The posture manager (posture/posture_manager.c) and the keyboard light  *)
(* it wakes (hardware/kbd_backlight.c): a convertible is folded into a     *)
(* tablet and back while the hinge is polled, the orientation comes from a *)
(* sensor service or the raw accelerometer, the configuration is reloaded, *)
(* and the shell ends, is killed and starts again.                         *)
(***************************************************************************)
EXTENDS Naturals

CONSTANTS
    Configs,        \* [kbd, touch, rotate: BOOLEAN, light: the saved level]
    Orientations,   \* those the sensors tell: a subset of {"normal", "90", "180", "270"}
    HasHinge, HasAccel,
    MaxEvents       \* bound: folds, turns, reloads, restarts and key presses of a run

VARIABLES
    hinge,      \* the real hinge: "open" (168 degrees at most), "between", "back" (180)
    running,    \* the shell runs
    state,      \* self->state
    inhibited,  \* the inhibit files: [kbd, touch: BOOLEAN]; they outlive the shell
    proxy,      \* self->sensor_proxy: "none", "asked", "ready"
    sensed,     \* its cached AccelerometerOrientation, or "none"
    raw,        \* what the raw accelerometer tells, "none" when flat or unreadable
    claimed,    \* self->accel_claimed
    transform,  \* self->last_transform, or "none"
    config,     \* app->config
    light,      \* the keyboard's light: 0, 1, 2
    events      \* events so far

vars == <<hinge, running, state, inhibited, proxy, sensed, raw, claimed, transform,
          config, light, events>>

-----------------------------------------------------------------------------
(* The light of the keyboard.                                              *)

\* The code the embedded controller keeps for a level, and the level it reads back.
EcCode(level) == CASE level = 0 -> 0 [] level = 1 -> 2 [] OTHER -> 1
EcLevel(code) == CASE code = 0 -> 0 [] code = 2 -> 1 [] OTHER -> 2

max_level == 2
SetLevel(level) == EcLevel(EcCode(IF level > max_level THEN max_level ELSE level))

\* The saved level comes back when the light is out.
Woken(c) == IF c.light > 0 /\ light = 0 THEN SetLevel(c.light) ELSE light

-----------------------------------------------------------------------------
(* Orientation.                                                            *)

\* The orientation the service tells, else that of the raw accelerometer.
Orientation(told) ==
    CASE told # "none" -> told
      [] told = "none" /\ HasAccel -> raw
      [] OTHER         -> "none"

Turned(told) == IF Orientation(told) = "none" THEN transform ELSE Orientation(told)

\* update_folded_orientation.
UpdateFolded(told) ==
    transform' = IF state = "folded" /\ config.rotate THEN Turned(told) ELSE transform

\* set_accel_claimed.
Claim(want) == claimed' = IF proxy = "ready" THEN want ELSE claimed

-----------------------------------------------------------------------------
(* Posture.                                                                *)

EffectsKeepingTouch(new, c) ==
    /\ state' = new
    /\ inhibited' = [inhibited EXCEPT !.kbd = new = "folded" /\ c.kbd]
    /\ Claim(new = "folded" /\ c.rotate)
    /\ transform' = IF new = "folded" /\ c.rotate THEN Turned(sensed) ELSE "normal"

\* apply_posture_effects: the keyboard and touchpad, the touchscreen, and rotation.
Effects(new, c) ==
    /\ state' = new
    /\ inhibited' = [kbd |-> new = "folded" /\ c.kbd, touch |-> new # "folded" /\ c.touch]
    /\ Claim(new = "folded" /\ c.rotate)
    /\ transform' = IF new = "folded" /\ c.rotate THEN Turned(sensed) ELSE "normal"

NoEffects == UNCHANGED <<state, inhibited, claimed, transform>>

\* posture_tick when the hinge was read; between the two angles the state stays.
ReadHinge(c) ==
    CASE state # "folded" /\ hinge = "back"    -> Effects("folded", c)
      [] state = "unknown" /\ hinge # "back"   -> Effects("laptop", c)
      [] state = "folded" /\ hinge = "open"    -> Effects("laptop", c)
      [] state = "folded" /\ hinge # "open"    -> UpdateFolded(sensed)
                                                  /\ UNCHANGED <<state, inhibited, claimed>>
      [] OTHER                                 -> NoEffects

\* A keyboard that works again is lit.
Tick ==
    /\ running /\ HasHinge
    /\ ReadHinge(config)
    /\ light' = IF state' # state /\ ~inhibited'.kbd THEN Woken(config) ELSE light
    /\ UNCHANGED <<hinge, running, proxy, sensed, raw, config, events>>

Event == events < MaxEvents /\ events' = events + 1

\* on_sensor_proxy_ready: there is a service, or none.
ProxyReady(told) ==
    /\ running /\ proxy = "asked"
    /\ proxy' = "ready" /\ sensed' = told
    /\ claimed' = (claimed \/ (state = "folded" /\ config.rotate))
    /\ UpdateFolded(told)
    /\ UNCHANGED <<hinge, running, state, inhibited, raw, config, light, events>>

ProxyFails ==
    /\ running /\ proxy = "asked" /\ proxy' = "none"
    /\ UNCHANGED <<hinge, running, state, inhibited, sensed, raw, claimed, transform, config,
                   light, events>>

\* on_sensor_proxy_properties_changed.
Sense(told) ==
    /\ Event /\ running /\ proxy = "ready"
    /\ sensed' = told
    /\ UpdateFolded(told)
    /\ UNCHANGED <<hinge, running, state, inhibited, proxy, raw, claimed, config, light>>

-----------------------------------------------------------------------------
(* The user and the machine.                                               *)

Around == UNCHANGED <<running, state, inhibited, proxy, sensed, claimed, transform, config>>

Turn(to)  == Event /\ raw' = to /\ Around /\ UNCHANGED <<hinge, light>>
Move(to)  == Event /\ hinge' = to /\ Around /\ UNCHANGED <<raw, light>>
Dim(level) == Event /\ light' = SetLevel(level) /\ Around /\ UNCHANGED <<hinge, raw>>

\* shell_posture_manager_reload_config, from a reload of the configuration and from the
\* panel's backlight widget: the light first, then the posture again, or the hinge,
\* which may not be readable.
Reload(c) ==
    /\ Event /\ running /\ config' = c /\ light' = Woken(c)
    /\ \/ HasHinge /\ state # "unknown" /\ Effects(state, c)
       \/ HasHinge /\ state = "unknown" /\ ReadHinge(c)
       \/ state = "unknown" /\ NoEffects
    /\ UNCHANGED <<hinge, running, proxy, sensed, raw>>

\* shell_posture_manager_destroy: the devices work again, the screen stays as it is.
Quit ==
    /\ Event /\ running /\ running' = FALSE
    /\ inhibited' = [kbd |-> FALSE, touch |-> FALSE]
    /\ state' = "unknown" /\ proxy' = "none" /\ claimed' = FALSE /\ transform' = "none"
    /\ sensed' = "none"
    /\ UNCHANGED <<hinge, raw, config, light>>

\* The shell is killed: the inhibited devices stay so.
Crash ==
    /\ Event /\ running /\ running' = FALSE
    /\ state' = "unknown" /\ proxy' = "none" /\ claimed' = FALSE /\ transform' = "none"
    /\ sensed' = "none"
    /\ UNCHANGED <<hinge, inhibited, raw, config, light>>

\* shell_posture_manager_new: the saved light; with sensors the service is asked for and
\* the hinge read, which may fail.
Start(read) ==
    /\ ~running /\ running' = TRUE
    /\ proxy' = IF HasHinge \/ HasAccel THEN "asked" ELSE "none"
    /\ light' = Woken(config)
    /\ IF HasHinge /\ read THEN ReadHinge(config) ELSE NoEffects
    /\ UNCHANGED <<hinge, sensed, raw, config, events>>

\* The devices were left in any state by the shell before.
Init ==
    /\ hinge \in {"open", "back"} /\ running = FALSE /\ state = "unknown"
    /\ inhibited \in [kbd : BOOLEAN, touch : BOOLEAN]
    /\ proxy = "none" /\ sensed = "none" /\ raw = "none" /\ claimed = FALSE
    /\ transform = "none" /\ config \in Configs /\ light \in {0, 2} /\ events = 0

Next ==
    \/ Tick \/ ProxyFails \/ Quit \/ Crash
    \/ \E told \in Orientations \cup {"none"} : ProxyReady(told) \/ Sense(told) \/ Turn(told)
    \/ \E to \in {"open", "between", "back"} : Move(to)
    \/ \E level \in 0..2 : Dim(level)
    \/ \E c \in Configs : Reload(c)
    \/ \E read \in BOOLEAN : Start(read)

\* The timer ticks.
Spec == Init /\ [][Next]_vars /\ WF_vars(Tick)

-----------------------------------------------------------------------------
(* Properties.                                                             *)

\* As soon as the shell knows the posture, the devices, the claim on the accelerometer
\* and the screen are as the configuration wants them in it, through reloads, a service
\* that comes late or not at all, and whatever a killed shell had left.
InputsFollow ==
    state # "unknown" =>
        /\ inhibited = [kbd   |-> state = "folded" /\ config.kbd,
                        touch |-> state = "laptop" /\ config.touch]
        /\ claimed = (proxy = "ready" /\ state = "folded" /\ config.rotate)
        /\ ~(state = "folded" /\ config.rotate) => transform = "normal"

\* A machine that stays open gets its keyboard back, though the shell was killed while
\* it was folded and started again; and one that stays folded gets its touchscreen.
InputsReturn ==
    /\ <>[](running /\ hinge = "open") => <>[](~inhibited.kbd)
    /\ <>[](running /\ hinge = "back") => <>[](~inhibited.touch)
=============================================================================
