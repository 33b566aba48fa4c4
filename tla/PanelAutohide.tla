---------------------------- MODULE PanelAutohide ----------------------------
(***************************************************************************)
(* The panel that hides itself (src/autohide.c) with what holds it open    *)
(* (src/panel.c): the pointer, touches, the popovers of its widgets, and   *)
(* the reload of the configuration that changes its size and its widgets   *)
(* (src/shell.c).                                                          *)
(*                                                                         *)
(* External: GTK.  A popover whose widget leaves the panel's box is        *)
(* unmapped and stays `visible'; when the widget is put back GTK may show  *)
(* it again.  Of an animation only its beginning and its end are steps.    *)
(***************************************************************************)
EXTENDS Integers, FiniteSets

CONSTANTS
  Widgets,   \* the panel widgets that have a popover
  Hidden,    \* the margins that leave the strip, -(panel_height - strip): a panel higher than its strip
  MaxOps     \* bound on what the user, the settings and other programs do

Config == [on : BOOLEAN, hidden : Hidden, layout : SUBSET Widgets]

ASSUME PanelAssumption ==
  IsFiniteSet(Widgets) /\ Hidden \subseteq (Int \ {0}) /\ MaxOps \in Nat

VARIABLES
  bar,      \* ShellAutohide
  config,   \* the configuration in force
  open,     \* the popovers that are visible
  held,     \* those that have "kajo-autohide-locked" set
  swipe,    \* a swipe on the panel has begun
  ops

vars == <<bar, config, open, held, swipe, ops>>

States == {"HIDDEN", "REVEALING", "VISIBLE", "HIDING"}
Shown(b) == b.state \in {"VISIBLE", "REVEALING"}
Gone(b) == b.state \in {"HIDDEN", "HIDING"}

Animate(b, state, margin) ==
  [b EXCEPT !.state = state, !.ticking = TRUE, !.target = margin]

Reveal(b) == IF Gone(b) THEN Animate(b, "REVEALING", 0) ELSE b

\* Mutant.
LockCountingOnly(b) == [b EXCEPT !.count = @ + 1]

Lock(b) ==
  LET counted == [b EXCEPT !.count = @ + 1]
  IN  IF config.on THEN Reveal([counted EXCEPT !.timer = FALSE]) ELSE counted

(* n popovers let go, one after the other; only the last has more to do.   *)
Unlock(b, n, on) ==
  IF n = 0 THEN b
  ELSE IF b.count > n THEN [b EXCEPT !.count = @ - n]
  ELSE IF ~on THEN [b EXCEPT !.count = 0]
  ELSE [b EXCEPT !.count = 0, !.pointer = FALSE, !.timer = @ \/ Shown(b)]

\* Mutant: the panel a swipe revealed stays.
TouchRevealForGood(b) ==
  IF ~config.on THEN b ELSE Reveal([b EXCEPT !.pointer = FALSE, !.timer = FALSE])

TouchReveal(b) ==
  IF ~config.on THEN b
  ELSE Reveal([b EXCEPT !.pointer = FALSE, !.timer = (b.count = 0)])

ForceHide(b) ==
  LET quiet == [b EXCEPT !.pointer = FALSE, !.timer = FALSE]
  IN  IF ~config.on THEN b
      ELSE IF b.count > 0 \/ ~Shown(b) THEN quiet
      ELSE Animate(quiet, "HIDING", config.hidden)

Init ==
  /\ config \in Config
  /\ bar = [state |-> IF config.on THEN "HIDDEN" ELSE "VISIBLE",
            pointer |-> FALSE, timer |-> FALSE, ticking |-> FALSE, count |-> 0,
            margin |-> IF config.on THEN config.hidden ELSE 0,
            target |-> IF config.on THEN config.hidden ELSE 0]
  /\ open = {} /\ held = {} /\ swipe = FALSE /\ ops = 0

Op == ops < MaxOps /\ ops' = ops + 1

(* The pointer enters the panel, or its strip, or moves there.             *)
Enter ==
  /\ Op
  /\ bar' = LET over == [bar EXCEPT !.pointer = TRUE]
            IN  IF config.on THEN Reveal([over EXCEPT !.timer = FALSE]) ELSE over
  /\ UNCHANGED <<config, open, held, swipe>>

(* The flag may be down already: the last popover that closed took it.     *)
Leave ==
  /\ Op
  /\ bar' = [bar EXCEPT !.pointer = FALSE,
                        !.timer = (config.on /\ bar.count = 0 /\ Shown(bar)) \/ @]
  /\ UNCHANGED <<config, open, held, swipe>>

(* on_hide_timeout: what happened since the timer was set counts.          *)
HideTimeout ==
  /\ bar.timer
  /\ bar' = LET fired == [bar EXCEPT !.timer = FALSE]
            IN  IF config.on /\ bar.count = 0 /\ ~bar.pointer /\ Shown(bar)
                THEN Animate(fired, "HIDING", config.hidden) ELSE fired
  /\ UNCHANGED <<config, open, held, swipe, ops>>

(* The last frame of the animation.                                        *)
AnimationEnds ==
  /\ bar.ticking
  /\ bar' = [bar EXCEPT !.ticking = FALSE, !.margin = bar.target,
                        !.state = CASE @ = "REVEALING" -> "VISIBLE"
                                    [] @ = "HIDING" -> "HIDDEN"
                                    [] OTHER -> @]
  /\ UNCHANGED <<config, open, held, swipe, ops>>

(* A click on a widget, or a swipe, opens its popover: notify::visible.    *)
PopoverOpens(w) ==
  /\ w \in config.layout \ open /\ Op
  /\ open' = open \cup {w}
  /\ held' = held \cup {w}
  /\ bar' = Lock(bar)
  /\ UNCHANGED <<config, swipe>>

PopoverCloses(w) ==
  /\ w \in open /\ Op
  /\ open' = open \ {w}
  /\ held' = held \ {w}
  /\ bar' = Unlock(bar, Cardinality(held \cap {w}), config.on)
  /\ UNCHANGED <<config, swipe>>

(* An inward swipe from the bezel that the touch screen reports.           *)
BezelSwipe ==
  /\ Op
  /\ bar' = TouchReveal(bar)
  /\ UNCHANGED <<config, open, held, swipe>>

SwipeBegins ==
  /\ Op
  /\ swipe' = TRUE
  /\ bar' = TouchReveal(bar)
  /\ UNCHANGED <<config, open, held>>

(* Along the panel: the column or the workspace beside (compositor).       *)
SwipeAlong ==
  /\ swipe
  /\ swipe' = FALSE
  /\ bar' = TouchReveal(bar)
  /\ UNCHANGED <<config, open, held, ops>>

(* Outward: every popover is closed, then the panel hides.  The launcher   *)
(* and the on-screen keyboard, which it hides too, are not state here.     *)
SwipeOutward ==
  /\ swipe
  /\ swipe' = FALSE /\ open' = {} /\ held' = {}
  /\ bar' = ForceHide(Unlock(bar, Cardinality(held), config.on))
  /\ UNCHANGED <<config, ops>>

(* Inward: a popover opens, or the launcher or the keyboard does, or the   *)
(* swipe was gentle and only revealed the panel.                           *)
SwipeInward ==
  /\ swipe
  /\ swipe' = FALSE
  /\ \/ UNCHANGED <<bar, open, held>>
     \/ \E w \in config.layout \ open :
          open' = open \cup {w} /\ held' = held \cup {w} /\ bar' = Lock(bar)
  /\ UNCHANGED <<config, ops>>

\* Mutant: turning autohide on leaves the panel as it is.
ReloadedQuietly(b, c) ==
  IF ~c.on THEN [b EXCEPT !.timer = FALSE, !.ticking = FALSE,
                          !.state = "VISIBLE", !.margin = 0]
  ELSE IF b.state = "HIDDEN" THEN [b EXCEPT !.margin = c.hidden]
  ELSE b

(* shell_autohide_reload_config *)
Reloaded(b, c) ==
  IF ~c.on THEN [b EXCEPT !.timer = FALSE, !.ticking = FALSE,
                          !.state = "VISIBLE", !.margin = 0]
  ELSE IF b.state = "HIDDEN" THEN [b EXCEPT !.margin = c.hidden]
  ELSE [b EXCEPT !.timer = @ \/ (b.count = 0 /\ ~b.pointer /\ Shown(b))]

(* shell_app_reload_config: the panel first, then the widgets are taken    *)
(* out of their boxes, which unmaps their popovers, and those of the new   *)
(* layout are put back; GTK may show a popover again that was left open.   *)
Reload(c) ==
  /\ Op
  /\ config' = c
  /\ bar' = Unlock(Reloaded(bar, c), Cardinality(held), c.on)
  /\ held' = {}
  /\ open' \in SUBSET (open \cap c.layout)
  /\ UNCHANGED swipe

Next ==
  \/ Enter \/ Leave \/ HideTimeout \/ AnimationEnds
  \/ \E w \in Widgets : PopoverOpens(w) \/ PopoverCloses(w)
  \/ BezelSwipe \/ SwipeBegins \/ SwipeAlong \/ SwipeOutward \/ SwipeInward
  \/ \E c \in Config : Reload(c)

Spec == Init /\ [][Next]_vars

(* GLib fires the timer, GTK runs the frame clock of a mapped window.      *)
Fairness == WF_vars(HideTimeout) /\ WF_vars(AnimationEnds)
FairSpec == Spec /\ Fairness

-----------------------------------------------------------------------------
TypeOK ==
  /\ config \in Config
  /\ bar \in [state : States, pointer : BOOLEAN, timer : BOOLEAN, ticking : BOOLEAN,
              count : Nat, margin : Hidden \cup {0}, target : Hidden \cup {0}]
  /\ open \subseteq config.layout /\ held \subseteq open
  /\ swipe \in BOOLEAN /\ ops \in 0..MaxOps

(* Every popover that holds the panel open is counted once, whatever       *)
(* closes it: the user, a swipe, or a reload that removes its widget       *)
(* (panel.c on_popover_visible_changed, on_popover_unmapped_or_destroyed). *)
LocksCounted == bar.count = Cardinality(held)

(* The panel does not slide away under the pointer or under a popover that *)
(* holds it, nor at all when it is not to hide itself.                     *)
StaysWhileUsed ==
  /\ config.on /\ (bar.pointer \/ bar.count > 0) => Shown(bar)
  /\ ~config.on => bar.state = "VISIBLE" /\ ~bar.timer

(* A panel nobody uses goes: the timer is set, or the animation runs, or   *)
(* it is hidden; and the state is what is on the screen.                   *)
WillHide ==
  /\ config.on /\ ~bar.pointer /\ bar.count = 0 /\ Shown(bar) => bar.timer
  /\ bar.ticking <=> bar.state \in {"REVEALING", "HIDING"}
  /\ bar.ticking => (bar.target = 0 <=> bar.state = "REVEALING")
  /\ ~bar.ticking => (bar.margin = 0 <=> bar.state = "VISIBLE")

(* So when the pointer, the touches and the popovers leave it alone, it is *)
(* hidden in the end.                                                      *)
AwayHides ==
  <>[](config.on /\ ~bar.pointer /\ bar.count = 0) => <>[](bar.state = "HIDDEN")
=============================================================================
