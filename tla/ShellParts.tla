------------------------------ MODULE ShellParts ------------------------------
(*****************************************************************************)
(* The notification daemon, the view of niri and the configuration with      *)
(* variables of their own, and what is promised of each.                     *)
(*****************************************************************************)
EXTENDS Naturals, Sequences, FiniteSets

CONSTANTS
  Panels, KnownWidgets, Foreign, Calls,                                 \* NotificationCenter
  NiriWindows, Titles, Spaces, Keyboards, Named(_, _), Icons, NiriEvents,   \* NiriStream
  ByHand, ShippedFile, Addable, Rows, ConfActs, ConfStarts       \* ConfigReload

VARIABLES
  toasts, history, nextId, maxHistory, dnd, callbacks, widgets, notifications_config,
  issued, notifications_told, silenced, notifications_ops,     \* NotificationCenter
  niri, stream, connected, timer, spaces, windows, focused, layouts, shown, niri_told,
  events,     \* NiriStream
  file, css, controls, rows, dirty, draft, shell, config_config, themed, conns, idle,
  ide, noticed, missed, acts, starts     \* ConfigReload

Daemon == INSTANCE NotificationCenter WITH
  Configs <- Panels, Registered <- KnownWidgets, Kept <- Foreign, MaxOps <- Calls,
  config <- notifications_config, told <- notifications_told, ops <- notifications_ops

Niri == INSTANCE NiriStream WITH
  Windows <- NiriWindows, Workspaces <- Spaces, Layouts <- Keyboards, Matches <- Named,
  MAX_ICONS <- Icons, MaxEvents <- NiriEvents, told <- niri_told

Conf == INSTANCE ConfigReload WITH
  HandFiles <- ByHand, Shipped <- ShippedFile, MaxRows <- Rows, MaxActs <- ConfActs,
  MaxStarts <- ConfStarts, config <- config_config

DaemonVars ==
  <<toasts, history, nextId, maxHistory, dnd, callbacks, widgets,
    notifications_config, issued, notifications_told, silenced, notifications_ops>>
NiriVars ==
  <<niri, stream, connected, timer, spaces, windows, focused, layouts, shown,
    niri_told, events>>
ConfVars ==
  <<file, css, controls, rows, dirty, draft, shell, config_config, themed, conns,
    idle, ide, noticed, missed, acts, starts>>

-----------------------------------------------------------------------------
\* A layout has sequences of widget ids, and the length of the history is a number.
ASSUME PanelsAssumption ==
  /\ Calls \in Nat
  /\ Foreign \subseteq Nat
  /\ \A c \in Panels :
       /\ \A ids \in {c.left, c.center, c.right} : ids \in Seq(Daemon!Range(ids))
       /\ c.max \in Nat

\* A file is a record, and the widgets of a section of the panel are a sequence.
ASSUME FilesAssumption ==
  \A f \in {ShippedFile} \cup ByHand :
    /\ f = [kind |-> f.kind, set |-> f.set, layout |-> f.layout]
    /\ \A i \in Conf!Sections : Len(f.layout[i]) \in Nat

\* niri numbers its windows from one, gives each workspace an id of its own and has at
\* least one keyboard layout.
ASSUME NiriAssumption ==
  /\ NiriWindows \subseteq Nat \ {0}
  /\ \A sp \in Spaces :
       /\ sp \in Seq(Niri!Range(sp))
       /\ \A i, j \in DOMAIN sp : sp[i].id = sp[j].id => i = j
       /\ \A i \in DOMAIN sp : sp[i].idx \in Nat
  /\ \A names \in Keyboards : names \in Seq(Niri!Range(names)) /\ names # <<>>

-----------------------------------------------------------------------------
\* What is on the screen and who was told of what is not, and that the widgets of
\* the configured layout show the daemon as it is.
NotificationsFollow == Daemon!ToastsAreRight /\ Daemon!WidgetsFollow
\* A toast goes in the end.
ToastsLeave == Daemon!ToastsLeave
\* The shell has what niri has, and the widgets show it.
InSync == Niri!InSync
\* The shell and the style sheet have what the file says.
ConfigurationsAgree == Conf!ConfigurationsAgree
=============================================================================
