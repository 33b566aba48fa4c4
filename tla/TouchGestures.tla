---------------------------- MODULE TouchGestures ----------------------------
(***************************************************************************)
(* The touchscreen gestures of the shell (hardware/touch_gestures.c):      *)
(* fingers come, move and lift, one report after the other, and swipes of  *)
(* three and four fingers and from the bezels become actions.  The screen  *)
(* may be turned at any moment.  A step is one report of the kernel;       *)
(* lengths are millimetres of the panel, which is Width by Height.         *)
(***************************************************************************)
EXTENDS Integers, Sequences, FiniteSets, FiniteSetsExt

CONSTANTS
    Slots,          \* the multitouch slots in use
    Width, Height,
    Spots,          \* where fingers come down: points [x, y]
    Stride,         \* how far the fingers move between two reports
    Bezel,          \* EDGE_BEZEL_RATIO of the height or the width, in millimetres
    Turns,          \* the turns of the screen that happen, in degrees
    Configs,        \* [enabled, panel]: the configurations
    MaxReports      \* bound: reports of a run

VARIABLES
    slots,          \* tracker->slots: of [on, start, cur]
    most,           \* tracker->max_fingers_in_gesture
    triggered,      \* tracker->gesture_triggered
    edged,          \* tracker->edge_reveal_triggered
    degrees,        \* tracker->rotation_deg
    heard,          \* has_wl_transform: the output has told how it is turned
    posture,        \* how the posture manager turned the screen last
    watching,       \* the touchscreen's file is watched
    config,         \* [enabled, panel]: gestures are on, the panel's edge
    done,           \* the actions of this touch, since the first finger came
    last,           \* the last gesture: [gesture, fingers, moved, degrees]
    reports         \* reports and turns so far

vars == <<slots, most, triggered, edged, degrees, heard, posture, watching, config, done,
          last, reports>>

SWIPE_3F_THRESHOLD_MM == 15
EDGE_SWIPE_MM == 12

-----------------------------------------------------------------------------
(* Geometry.                                                               *)

MirroredDelta(deg, d) ==
    CASE deg \in {90, 270} -> [x |-> d.y, y |-> d.x]
      [] deg = 180         -> [x |-> -d.x, y |-> -d.y]
      [] OTHER             -> d

\* transform_delta_mm: a movement of the panel on the turned screen.
ScreenDelta(deg, d) ==
    CASE deg = 90  -> [x |-> -d.y, y |-> d.x]
      [] deg = 180 -> [x |-> -d.x, y |-> -d.y]
      [] deg = 270 -> [x |-> d.y, y |-> -d.x]
      [] OTHER     -> d

\* transform_norm_point: how far a point of the panel is from the screen's top, and the
\* screen's height.
FromTop(deg, p) ==
    CASE deg = 90  -> p.x
      [] deg = 180 -> Height - p.y
      [] deg = 270 -> Width - p.x
      [] OTHER     -> p.y

Tall(deg) == IF deg \in {90, 270} THEN Width ELSE Height

Distance(n) == IF n < 0 THEN -n ELSE n

-----------------------------------------------------------------------------
(* Recognition.                                                            *)

Down(s) == {i \in Slots : s[i].on}

\* The movement of all fingers added up, which the code divides by their number.
Added(d) == MapThenSumSet(LAMBDA i : d[i], DOMAIN d)
Moved(s) == [x |-> Added([i \in Down(s) |-> s[i].cur.x - s[i].start.x]),
             y |-> Added([i \in Down(s) |-> s[i].cur.y - s[i].start.y])]

reanchor_active_slots(s) ==
    [i \in Slots |-> IF s[i].on THEN [s[i] EXCEPT !.start = s[i].cur] ELSE s[i]]

\* A swipe of three fingers, or an up or down swipe of more.
ManyFingers(n, d) ==
    LET far(a)      == Distance(a) >= SWIPE_3F_THRESHOLD_MM * n
        along(a, b) == 4 * Distance(a) > 5 * Distance(b)
    IN  CASE n >= 4 /\ far(d.y) /\ along(d.y, d.x) -> "overview"
          [] n = 3 /\ far(d.y) /\ along(d.y, d.x)  -> IF d.y < 0 THEN "up" ELSE "down"
          [] n = 3 /\ far(d.x) /\ along(d.x, d.y)  -> IF d.x < 0 THEN "left" ELSE "right"
          [] OTHER -> "none"

\* A swipe of one finger that starts within the bezel and goes inwards.
FromBezel(deg, start, d) ==
    LET top == FromTop(deg, start)
        far == 10 * Distance(d.y) > 13 * Distance(d.x) /\ Distance(d.y) >= EDGE_SWIPE_MM
    IN  CASE far /\ top <= Bezel /\ d.y > 0             -> "top"
          [] far /\ top >= Tall(deg) - Bezel /\ d.y < 0 -> "bottom"
          [] OTHER                                      -> "none"

\* dispatch_touch_gesture: what the compositor is told, or the panel at its edge.
Action(g) ==
    CASE g = "up"       -> <<"FocusWorkspaceDown">>
      [] g = "down"     -> <<"FocusWorkspaceUp">>
      [] g = "left"     -> <<"FocusColumnRight">>
      [] g = "right"    -> <<"FocusColumnLeft">>
      [] g = "overview" -> <<"ToggleOverview">>
      [] g = config.panel -> <<"touch_reveal">>
      [] OTHER          -> <<>>

GestureAgain(s, n, deg) ==
    IF n >= 3 THEN ManyFingers(n, ScreenDelta(deg, Moved(s))) ELSE "none"

\* The swipe the fingers make, if it may still be one.
Gesture(s, n, deg) ==
    LET d == ScreenDelta(deg, Moved(s))
    IN  CASE triggered                    -> "none"
          [] ~triggered /\ n >= 3 /\ n = most -> ManyFingers(n, d)
          [] ~triggered /\ n = 1 /\ most = 1 /\ ~edged ->
               FromBezel(deg, s[CHOOSE i \in Slots : s[i].on].start, d)
          [] OTHER                        -> "none"

\* SYN_REPORT.  A finger more than ever in this touch anchors all of them anew and is no
\* gesture; after a swipe nothing is, until every finger has lifted.
Report(s) ==
    LET n   == Cardinality(Down(s))
        deg == IF heard THEN degrees ELSE posture
    IN  /\ watching /\ reports < MaxReports /\ reports' = reports + 1
        /\ degrees' = deg
        /\ CASE n = 0 ->
                  /\ slots' = s /\ most' = 0 /\ triggered' = FALSE /\ edged' = FALSE
                  /\ done' = <<>> /\ UNCHANGED last
             [] n > most ->
                  /\ slots' = reanchor_active_slots(s) /\ most' = n
                  /\ UNCHANGED <<triggered, edged, done, last>>
             [] n \in 1..most ->
                  LET g == Gesture(s, n, deg)
                  IN  /\ slots' = s /\ UNCHANGED most
                      /\ triggered' = (triggered \/ (g # "none" /\ n > 1))
                      /\ edged' = (edged \/ (g # "none" /\ n = 1))
                      /\ done' = IF g # "none" /\ config.enabled THEN done \o Action(g) ELSE done
                      /\ last' = IF g = "none" THEN last
                                 ELSE [gesture |-> g, fingers |-> n, moved |-> Moved(s), degrees |-> deg]
        /\ UNCHANGED <<heard, posture, watching, config>>

-----------------------------------------------------------------------------
(* What the kernel reports, and what happens meanwhile.                    *)

\* A finger comes down, in the first slot that is free, or lifts.
Land(i, p) ==
    /\ ~slots[i].on /\ \A j \in Slots : j < i => slots[j].on
    /\ Report([slots EXCEPT ![i] = [on |-> TRUE, start |-> p, cur |-> p]])

Lift(i) == slots[i].on /\ Report([slots EXCEPT ![i].on = FALSE])

OnPanel(p) == p.x \in 0..Width /\ p.y \in 0..Height
Shifted(p, d) == [x |-> p.x + Stride * d.x, y |-> p.y + Stride * d.y]

\* All fingers, or one of them, move.
Move(who, d) ==
    /\ who # {} /\ \A i \in who : OnPanel(Shifted(slots[i].cur, d))
    /\ Report([i \in Slots |-> IF i \in who THEN [slots[i] EXCEPT !.cur = Shifted(@, d)] ELSE slots[i]])

Meanwhile == reports < MaxReports /\ reports' = reports + 1
             /\ UNCHANGED <<slots, most, triggered, edged, done, last>>

\* on_output_geometry: from now on the output is believed.
OutputTurned(deg) ==
    /\ Meanwhile /\ heard' = TRUE /\ degrees' = deg
    /\ UNCHANGED <<posture, watching, config>>

PostureTurned(deg) ==
    /\ Meanwhile /\ posture' = deg /\ UNCHANGED <<heard, degrees, watching, config>>

Reload(c) == Meanwhile /\ config' = c /\ UNCHANGED <<heard, degrees, posture, watching>>

\* on_evdev_readable with an error.
Unplugged == Meanwhile /\ watching /\ watching' = FALSE
             /\ UNCHANGED <<heard, degrees, posture, config>>

\* shell_touch_gestures_new, with a touchscreen.
Init ==
    /\ slots = [i \in Slots |-> [on |-> FALSE, start |-> [x |-> 0, y |-> 0],
                                                cur   |-> [x |-> 0, y |-> 0]]]
    /\ most = 0 /\ triggered = FALSE /\ edged = FALSE
    /\ degrees = 0 /\ heard = FALSE /\ posture = 0 /\ watching = TRUE
    /\ config \in Configs /\ done = <<>> /\ reports = 0
    /\ last = [gesture |-> "none", fingers |-> 0, moved |-> [x |-> 0, y |-> 0], degrees |-> 0]

Ways == {[x |-> 0, y |-> -1], [x |-> 0, y |-> 1], [x |-> -1, y |-> 0], [x |-> 1, y |-> 0]}

Next ==
    \/ \E i \in Slots, p \in Spots : Land(i, p)
    \/ \E i \in Slots : Lift(i)
    \/ \E who \in {Down(slots)} \cup {{i} : i \in Down(slots)}, d \in Ways : Move(who, d)
    \/ \E deg \in Turns : OutputTurned(deg) \/ PostureTurned(deg)
    \/ \E c \in Configs : Reload(c)
    \/ Unplugged

Spec == Init /\ [][Next]_vars

-----------------------------------------------------------------------------
(* Properties.                                                             *)

\* A touch, from the first finger to the last, does one swipe of several fingers at most
\* and one of a bezel at most, and none of a bezel after it had more fingers.
OneSwipeATouch ==
    /\ Len(done) <= 2
    /\ \A i \in DOMAIN done : done[i] = "touch_reveal" => i = 1
    /\ Len(done) = 2 => done[1] = "touch_reveal"

\* The way a gesture goes on the screen, turned back by quarters onto the panel.
Quarter(v) == [x |-> v.y, y |-> -v.x]

Heading(g, deg) ==
    LET up == CASE deg = 0   -> [x |-> 0, y |-> -1]
                [] deg = 90  -> Quarter([x |-> 0, y |-> -1])
                [] deg = 180 -> Quarter(Quarter([x |-> 0, y |-> -1]))
                [] deg = 270 -> Quarter(Quarter(Quarter([x |-> 0, y |-> -1])))
    IN  CASE g \in {"up", "bottom"} -> up
          [] g \in {"down", "top"}  -> Quarter(Quarter(up))
          [] g = "left"                  -> Quarter(up)
          [] g = "right"                 -> Quarter(Quarter(Quarter(up)))

\* However the screen is turned, a gesture is the way the fingers went on it, far enough.
GestureIsTheWay ==
    last.gesture \notin {"none", "overview"} =>
        LET v == Heading(last.gesture, last.degrees)
        IN  last.moved.x * v.x + last.moved.y * v.y
              >= last.fingers * (IF last.fingers = 1 THEN EDGE_SWIPE_MM ELSE SWIPE_3F_THRESHOLD_MM)
=============================================================================
