---------------------------- MODULE Convertible -----------------------------
(***************************************************************************)
(* What serves a convertible: its posture, its on-screen keyboard and the  *)
(* gestures of its touchscreen, under names that stand beside              *)
(* SessionGuard's.                                                         *)
(***************************************************************************)
EXTENDS Integers, FiniteSets

CONSTANTS
  HasHinge, HasAccel, HasTouchscreen,     \* the machine
  HingeConfigs, HingeEvents, Orientations,        \* Posture
  Keys, Keymaps, Dead, Codes, Layouts, KeyEvents,         \* OnScreenKeyboard
  Slots, Width, Height, Spots, Stride, Bezel, Turns, TouchConfigs, TouchReports
                                          \* TouchGestures

VARIABLES
  hinge, posture_running, state, posture_inhibited, proxy, sensed, raw, claimed,
  transform, posture_config, light, posture_events,
  im, visible, pinned, mods, groups, at, sent, labels, repeat, pressed, folded,
  layout, edge, typed, keyboard_events,
  slots, most, triggered, edged, degrees, heard, posture, watching, touch_config,
  done, last, reports

Hinge == INSTANCE Posture WITH
  Configs <- HingeConfigs, MaxEvents <- HingeEvents,
  running <- posture_running, inhibited <- posture_inhibited,
  config <- posture_config, events <- posture_events

Keyboard == INSTANCE OnScreenKeyboard WITH
  MaxEvents <- KeyEvents, events <- keyboard_events

Touch == INSTANCE TouchGestures WITH
  Configs <- TouchConfigs, MaxReports <- TouchReports, config <- touch_config

HingeVars ==
  <<hinge, posture_running, state, posture_inhibited, proxy, sensed, raw, claimed,
    transform, posture_config, light, posture_events>>
KeyboardVars ==
  <<im, visible, pinned, mods, groups, at, sent, labels, repeat, pressed, folded,
    layout, edge, typed, keyboard_events>>
TouchVars ==
  <<slots, most, triggered, edged, degrees, heard, posture, watching, touch_config,
    done, last, reports>>

-----------------------------------------------------------------------------
\* The keys of the layout are of the kinds fire_key_button knows.
ASSUME KeysAssumption ==
  \A key \in Keys :
    key.kind \in {"evdev", "symbol", "globe", "hide"} \cup Keyboard!Modifiers

\* A touchscreen has a limited number of slots, millimetres that add up, and is
\* turned by quarters; the panel is at the top or at the bottom.
ASSUME TouchAssumption ==
  /\ IsFiniteSet(Slots)
  /\ Width \in Nat /\ Height \in Nat /\ Bezel \in Nat /\ Stride \in Int
  /\ Spots \subseteq [x : Int, y : Int] /\ Turns \subseteq {0, 90, 180, 270}
  /\ \A c \in TouchConfigs : c.panel \in {"top", "bottom"}

-----------------------------------------------------------------------------
(* Devices, claim and screen follow the posture and the configuration      *)
(* (apply_posture_effects).                                                *)
InputsFollow == Hinge!InputsFollow

(* A machine that stays open, or folded, gets its devices back             *)
(* (posture_manager.c).                                                    *)
InputsReturn == Hinge!InputsReturn

(* What a key shows is what it types, if Shift is not locked               *)
(* (fire_key_button), and the keyboard comes and goes with the text field  *)
(* and leaves nothing behind.                                              *)
KeyboardFollows == Keyboard!TypesWhatItShows /\ Keyboard!ComesAndGoes

(* A touch does one swipe of several fingers and one of a bezel at most,   *)
(* and a gesture is the way the fingers went on the turned screen          *)
(* (touch_gestures.c).                                                     *)
GesturesAreRight == Touch!OneSwipeATouch /\ Touch!GestureIsTheWay
=============================================================================
