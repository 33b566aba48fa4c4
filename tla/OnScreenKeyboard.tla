-------------------------- MODULE OnScreenKeyboard --------------------------
(***************************************************************************)
(* The on-screen keyboard (osk/osk.c, osk/osk_xkb.c): when it appears and  *)
(* goes, its sticky modifiers, the repetition of a held key, and what its  *)
(* keys type in the compositor's layout against what they show.            *)
(*                                                                         *)
(* A group of a keymap gives each key code its type ("alphabetic" or       *)
(* "levels") and four characters: plain, with Shift, AltGr, and both.      *)
(***************************************************************************)
EXTENDS Naturals, Sequences

CONSTANTS
    Keys,       \* the buttons: [kind, code, symbol, repeatable]
    Keymaps,    \* the keymaps the compositor may send, sequences of groups
    Dead,       \* the dead characters, each with the one it stands for
    Codes,      \* the key codes find_symbol tries, in its order
    Layouts,    \* configurations: [mode, push, above: a panel to stay above]
    HasHinge, HasTouchscreen,
    MaxEvents   \* bound: events of a run

VARIABLES
    im,         \* input method: [there, pending, active]
    visible, pinned,
    mods,       \* osk->mod_*: "off", "latched" or "locked"
    groups, at, \* osk->xkb: the keymap and its active group
    sent,       \* what the compositor has of it: [mods, caps, group]
    labels,     \* what the labels were made from: [shift, caps, altgr, group]
    repeat,     \* repeat_btn and its timer: [key, timer]
    pressed,    \* the buttons that fingers are on
    folded,     \* the posture manager's state is FOLDED
    layout,     \* app->config
    edge,       \* the layer surface: [zone, margin]
    typed,      \* the last thing typed: [got, shown, caps]
    events      \* events so far

keyboard == <<mods, sent, labels, typed, groups, at>>
window   == <<visible, pinned, edge, repeat, pressed>>
vars == <<im, folded, layout, events, keyboard, window>>

-----------------------------------------------------------------------------
(* Keymaps.                                                                *)

Modifiers == {"shift", "ctrl", "alt", "super", "altgr"}

Literal(char) == IF char \in DOMAIN Dead THEN Dead[char] ELSE char

\* What a key gives (query_keycode_with_masks).  Caps Lock turns Shift around on an
\* alphabetic key.
Query(group, code, held, caps) ==
    LET key   == groups[group][code]
        shift == ("shift" \in held) # (caps /\ key.type = "alphabetic")
    IN  key.chars[(IF shift THEN 2 ELSE 1) + (IF "altgr" \in held THEN 2 ELSE 0)]

\* The label of a key (shell_osk_xkb_get_key_label).
KeyLabel(code) ==
    Literal(Query(labels.group, code,
                  (IF labels.shift THEN {"shift"} ELSE {})
                    \cup (IF labels.altgr THEN {"altgr"} ELSE {}), labels.caps))

\* shell_osk_xkb_find_symbol: by levels and then by codes; a dead key only if nothing
\* else has the symbol.
FindSymbol(symbol) ==
    LET Levels == <<{}, {"shift"}, {"altgr"}, {"shift", "altgr"}>>
        char(p) == Query(at, Codes[p[2]], Levels[p[1]], FALSE)
        has     == {p \in (1..4) \X DOMAIN Codes : Literal(char(p)) = symbol}
        live    == {p \in has : char(p) = symbol}
        among   == IF live # {} THEN live ELSE has
        first   == {p \in among : \A q \in among :
                        p[1] < q[1] \/ (p[1] = q[1] /\ p[2] <= q[2])}
    IN  {[code |-> Codes[p[2]], held |-> Levels[p[1]]] : p \in first}

-----------------------------------------------------------------------------
(* Modifiers and labels.                                                   *)

\* compute_active_depressed_mods.
Depressed(m) == {which \in Modifiers : m[which] # "off"}

\* sync_vkbd_modifiers.
Synced(m, group) == [mods |-> Depressed(m), caps |-> m["shift"] = "locked", group |-> group]

\* refresh_all_key_labels.
Labels(m, group) == [shift |-> m["shift"] = "latched", caps |-> m["shift"] = "locked",
                     altgr |-> m["altgr"] # "off", group |-> group]

Unlatched(m) == [which \in Modifiers |-> IF m[which] = "latched" THEN "off" ELSE m[which]]

\* clear_latched_modifiers.
ClearLatched ==
    /\ mods' = Unlatched(mods)
    /\ sent' = IF mods' = mods THEN sent ELSE Synced(mods', at)
    /\ labels' = IF mods' = mods THEN labels ELSE Labels(mods', at)

Repeats(key, timer) == [key |-> key, timer |-> timer]
NoKey == [kind |-> "none", code |-> "", symbol |-> "", repeatable |-> FALSE]
stop_repeat_timers == Repeats(NoKey, "none")

\* shell_osk_apply_config: the keyboard reserves its place, or stays above a panel.
Edge(shown, l) ==
    IF shown /\ l.push THEN [zone |-> TRUE, margin |-> FALSE]
    ELSE [zone |-> FALSE, margin |-> l.above]

-----------------------------------------------------------------------------
(* Appearing and going.                                                    *)

Event == events < MaxEvents /\ events' = events + 1

\* should_auto_show_osk.
AutoShow ==
    CASE layout.mode = "manual" -> FALSE
      [] layout.mode = "always" -> TRUE
      [] OTHER -> folded \/ (~HasHinge /\ HasTouchscreen)

\* shell_osk_show.
Show(pin) ==
    /\ visible' = TRUE /\ pinned' = (pinned \/ pin)
    /\ edge' = Edge(TRUE, layout) /\ labels' = Labels(mods, at)
    /\ UNCHANGED <<mods, sent, repeat, pressed>>

\* The window is not mapped: GTK cancels its presses.
Unmapped ==
    /\ visible' = FALSE /\ pinned' = FALSE
    /\ edge' = [edge EXCEPT !.zone = FALSE]
    /\ pressed' = {}

HideRepeating == Unmapped /\ UNCHANGED repeat /\ ClearLatched

\* shell_osk_hide.
Hide == Unmapped /\ repeat' = stop_repeat_timers /\ ClearLatched

Stays == UNCHANGED <<window, mods, sent, labels>>

\* toggle-osk, show-osk and hide-osk of the IPC socket; the widget and the panel's
\* swipes toggle and hide.
Toggle  == Event /\ (IF visible THEN Hide ELSE Show(TRUE))
           /\ UNCHANGED <<im, folded, layout, typed, groups, at>>
ShowOsk == Event /\ Show(TRUE) /\ UNCHANGED <<im, folded, layout, typed, groups, at>>
HideOsk == Event /\ Hide /\ UNCHANGED <<im, folded, layout, typed, groups, at>>

\* on_im_activate, on_im_deactivate: they count at the next done.
ImPending(active) ==
    /\ Event /\ im.there /\ im' = [im EXCEPT !.pending = active]
    /\ UNCHANGED <<folded, layout, keyboard, window>>

\* on_im_done.
ImDone ==
    /\ Event /\ im.there /\ im' = [im EXCEPT !.active = im.pending]
    /\ CASE im.pending /\ ~im.active /\ AutoShow           -> Show(FALSE)
         [] ~im.pending /\ im.active /\ visible /\ ~pinned -> Hide
         [] OTHER                                          -> Stays
    /\ UNCHANGED <<folded, layout, typed, groups, at>>

\* on_im_unavailable: another input method has the seat.
ImUnavailable ==
    /\ Event /\ im.there /\ im' = [im EXCEPT !.there = FALSE]
    /\ UNCHANGED <<folded, layout, keyboard, window>>

\* The lid goes round; the keyboard only looks when a text field is entered.
Fold == Event /\ HasHinge /\ folded' = ~folded /\ UNCHANGED <<im, layout, keyboard, window>>

Reload(l) ==
    /\ Event /\ layout' = l /\ edge' = Edge(visible, l)
    /\ UNCHANGED <<im, folded, keyboard, visible, pinned, repeat, pressed>>

-----------------------------------------------------------------------------
(* Keys.                                                                   *)

\* The modifiers are synchronized, keys are tapped, and latched modifiers go.
Tap(got, shown) ==
    /\ typed' = [got |-> got, shown |-> shown, caps |-> mods["shift"] = "locked"]
    /\ mods' = Unlatched(mods) /\ sent' = Synced(mods', at)
    /\ labels' = IF mods' = mods THEN labels ELSE Labels(mods', at)
    /\ UNCHANGED <<groups, at, visible, pinned, edge>>

\* A key of the layout, tapped with every modifier that is on.
Evdev(key) ==
    Tap(Literal(Query(at, key.code, Depressed(mods), mods["shift"] = "locked")), KeyLabel(key.code))

\* A symbol, tapped on the level it was found at whatever the keyboard's Shift and AltGr;
\* if its key is dead a space makes it the character.
Symbol(key) ==
    LET found == FindSymbol(key.symbol)
    IN  \/ \E b \in found :
              Tap(Literal(Query(at, b.code, b.held, mods["shift"] = "locked")), key.symbol)
        \/ /\ found = {}
           /\ ClearLatched /\ UNCHANGED <<typed, groups, at, visible, pinned, edge>>

\* toggle_sticky_mod: only Shift locks.
Sticky(which) ==
    /\ mods' = [mods EXCEPT ![which] =
                   CASE @ = "off"                         -> "latched"
                     [] @ = "latched" /\ which = "shift"  -> "locked"
                     [] OTHER                             -> "off"]
    /\ sent' = Synced(mods', at) /\ labels' = Labels(mods', at)
    /\ UNCHANGED <<typed, groups, at, visible, pinned, edge>>

\* The next group of the keymap, here and in the compositor.
Globe ==
    /\ at' = 1 + (at % Len(groups))
    /\ sent' = Synced(mods, at') /\ labels' = Labels(mods, at')
    /\ UNCHANGED <<mods, typed, groups, visible, pinned, edge>>

\* fire_key_button, of a key that does not hide the keyboard.
Fire(key) ==
    CASE key.kind = "evdev"    -> Evdev(key)
      [] key.kind = "symbol"   -> Symbol(key)
      [] key.kind = "globe"    -> Globe
      [] key.kind \in Modifiers -> Sticky(key.kind)

\* on_key_gesture_pressed: a key repeats after it was held for 400 ms.
Press(key) ==
    /\ Event /\ visible /\ key \notin pressed
    /\ IF key.kind = "hide"
       THEN Hide /\ UNCHANGED <<typed, groups, at>>
       ELSE /\ Fire(key)
            /\ pressed' = pressed \cup {key}
            /\ repeat' = IF key.repeatable THEN Repeats(key, "delay") ELSE stop_repeat_timers
    /\ UNCHANGED <<im, folded, layout>>

\* on_key_gesture_released, on_key_gesture_stopped: whatever key repeats, it stops.
Release(key) ==
    /\ key \in pressed /\ pressed' = pressed \ {key}
    /\ repeat' = stop_repeat_timers
    /\ UNCHANGED <<im, folded, layout, events, keyboard, visible, pinned, edge>>

\* on_repeat_delay_done, on_repeat_tick.
Repeat ==
    /\ repeat.timer # "none"
    /\ IF visible THEN /\ Event /\ Fire(repeat.key)
                       /\ repeat' = [repeat EXCEPT !.timer = "tick"]
       ELSE /\ repeat' = [repeat EXCEPT !.timer = "none"]
            /\ UNCHANGED <<events, keyboard, visible, pinned, edge>>
    /\ UNCHANGED <<im, folded, layout, pressed>>

GroupChangedUnlabelled(group) ==
    /\ Event /\ group \in DOMAIN groups \ {at}
    /\ at' = group /\ sent' = Synced(mods, group)
    /\ UNCHANGED <<im, folded, layout, mods, labels, typed, groups, window>>

\* on_kb_modifiers: the compositor is in another group.
GroupChanged(group) ==
    /\ Event /\ group \in DOMAIN groups \ {at}
    /\ at' = group /\ sent' = Synced(mods, group) /\ labels' = Labels(mods, group)
    /\ UNCHANGED <<im, folded, layout, mods, typed, groups, window>>

\* on_kb_keymap: the group stays if the new keymap has it; nothing is synchronized.
KeymapChanged(map) ==
    /\ Event /\ groups' = map
    /\ at' = IF at \in DOMAIN map THEN at ELSE 1
    /\ labels' = Labels(mods, at')
    /\ UNCHANGED <<im, folded, layout, mods, sent, typed, window>>

Off == [which \in Modifiers |-> "off"]

\* shell_osk_new: both layers of keys are built, the compositor's keymap comes with the
\* second roundtrip.
Init ==
    /\ im = [there |-> TRUE, pending |-> FALSE, active |-> FALSE]
    /\ visible = FALSE /\ pinned = FALSE /\ mods = Off /\ groups \in Keymaps /\ at = 1
    /\ sent = Synced(Off, 1) /\ labels = Labels(Off, 1)
    /\ repeat = stop_repeat_timers /\ pressed = {} /\ folded = FALSE
    /\ layout \in Layouts /\ edge = Edge(FALSE, layout)
    /\ typed = [got |-> "-", shown |-> "-", caps |-> FALSE] /\ events = 0

Next ==
    \/ Toggle \/ ShowOsk \/ HideOsk \/ ImDone \/ ImUnavailable \/ Fold \/ Repeat
    \/ \E active \in BOOLEAN : ImPending(active)
    \/ \E l \in Layouts : Reload(l)
    \/ \E key \in Keys : Press(key) \/ Release(key)
    \/ \E group \in 1..2 : GroupChanged(group)
    \/ \E map \in Keymaps : KeymapChanged(map)

Spec == Init /\ [][Next]_vars

-----------------------------------------------------------------------------
(* Properties.                                                             *)

\* What a key shows is what it types, in any group and keymap and at any moment of the
\* sticky modifiers, if Shift is not locked.
TypesWhatItShows == typed.caps \/ typed.got = typed.shown

\* The keyboard comes and goes with the text field unless the user asked for it; while
\* it is away it repeats no key, holds no latched modifier, reserves no place and is not
\* pinned; and only a key that a finger is on is repeated.
ComesAndGoes ==
    /\ visible => pinned \/ im.active
    /\ ~visible =>
         /\ ~pinned /\ ~edge.zone /\ mods = Unlatched(mods)
         /\ sent.mods = Depressed(mods)
    /\ visible => edge = Edge(TRUE, layout)
    /\ repeat.timer # "none" => visible /\ repeat.key \in pressed
=============================================================================
