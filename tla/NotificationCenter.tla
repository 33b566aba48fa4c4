------------------------- MODULE NotificationCenter -------------------------
(***************************************************************************)
(* The notification daemon (notifications/daemon.c), the two panel widgets *)
(* that show its state (widgets/notifications.c, widgets/dnd.c), and the   *)
(* reload of the panel's layout (shell.c), which keeps, creates, disables  *)
(* and destroys widgets while the daemon holds pointers to them.           *)
(*                                                                         *)
(* A notification is its identifier.  A toast also has the number of the   *)
(* Notify call that made it, since a program may reuse an identifier.      *)
(***************************************************************************)
EXTENDS Naturals, Sequences, SequencesExt, FiniteSets

CONSTANTS
    Configs,    \* the configurations a reload may find:
                \*   [left, center, right: sequences of widget ids, max: history]
    Registered, \* the widget ids that widgets/registry.c knows
    Kept,       \* identifiers programs use that this daemon did not give them
    MaxOps      \* bound: calls, clicks and reloads of a run

VARIABLES
    toasts,     \* daemon->toasts, of [n, id]; each has a window and a timer
    history,    \* daemon->history, identifiers, the newest first
    nextId,     \* daemon->next_id
    maxHistory, \* daemon->max_history
    dnd,        \* daemon->dnd_enabled
    callbacks,  \* daemon->history_callbacks: the widgets they point to
    widgets,    \* app->active_widgets, of [kind, at, serial, shown]
    config,     \* app->config
    issued,     \* identifiers returned by Notify
    told,       \* those reported closed since they were last shown
    silenced,   \* those that Do Not Disturb kept or took from the screen
    ops         \* calls, clicks and reloads so far

vars == <<toasts, history, nextId, maxHistory, dnd, callbacks, widgets, config,
          issued, told, silenced, ops>>

-----------------------------------------------------------------------------
(* Widgets and the daemon's callbacks.                                     *)

\* What a widget shows when it has just looked at the daemon: the list and its
\* badge (rebuild_notification_list), the switch (update_dnd_ui), or other things.
ListShows(hist) == Len(hist)
SwitchShows(quiet) == IF quiet THEN 1 ELSE 0

View(kind, hist, quiet) ==
    CASE kind = "notifications" -> ListShows(hist)
      [] kind = "dnd"           -> SwitchShows(quiet)
      [] OTHER                  -> 0

\* klass->create: the list is empty, the switch off, and nobody calls them yet.
NewList(at, serial) == [kind |-> "notifications", at |-> at, serial |-> serial, shown |-> 0]
NewSwitch(at, serial) == [kind |-> "dnd", at |-> at, serial |-> serial, shown |-> 0]

Create(kind, at, serial) ==
    CASE kind = "notifications" -> NewList(at, serial)
      [] kind = "dnd"           -> NewSwitch(at, serial)
      [] OTHER                  -> [kind |-> kind, at |-> at, serial |-> serial, shown |-> 0]

\* emit_history_changed: each widget with a callback looks again.
Emit(ws, hist, quiet) ==
    [i \in DOMAIN ws |->
        IF ws[i].serial \in callbacks
        THEN [ws[i] EXCEPT !.shown = View(ws[i].kind, hist, quiet)]
        ELSE ws[i]]

Serials(ws) == {w.serial : w \in Range(ws)}

\* shell_notification_daemon_remove_callbacks, for some widgets at once.
Forget(cbs, serials) == cbs \ serials

\* klass->enable: both widgets register a callback, once, and look.
Listens(kind) == kind \in {"notifications", "dnd"}
Enabled(cbs, kind, serial) == IF Listens(kind) THEN cbs \cup {serial} ELSE cbs

KeepingCallbacks(cbs, gone) == cbs

\* klass->disable and klass->destroy take the widget's callbacks back.
Disabled(cbs, gone) == Forget(cbs, Serials(gone))

Sections(c) ==
    LET Of(ids, at) == [i \in DOMAIN ids |-> [kind |-> ids[i], at |-> at]]
    IN  Of(c.left, "left") \o Of(c.center, "center") \o Of(c.right, "right")

\* The next widget of the layout: the first old one of its kind, or a new one.
Place(acc, want) ==
    LET old == SelectInSeq(acc.old, LAMBDA w : w.kind = want.kind)
    IN  CASE old # 0 ->
               [acc EXCEPT !.old = RemoveAt(@, old),
                           !.new = Append(@, [acc.old[old] EXCEPT !.at = want.at])]
          [] old = 0 /\ want.kind \in Registered ->
               [acc EXCEPT !.serial = @ + 1,
                           !.cbs = Enabled(@, want.kind, acc.serial),
                           !.new = Append(@,
                               [Create(want.kind, want.at, acc.serial)
                                EXCEPT !.shown = View(want.kind, acc.hist, acc.quiet)])]
          [] OTHER -> acc

\* One widget after the other.
Placed(start, wants) ==
    LET done[i \in 0..Len(wants)] ==
          IF i = 0 THEN start ELSE Place(done[i - 1], wants[i])
    IN  done[Len(wants)]

\* The number of the next new widget.
Born(ws) == 1 + Max({0} \cup Serials(ws))

\* reconcile_section_widgets for the three sections, then the widgets left over
\* are disabled and destroyed.
Reconcile(ws, c, hist, quiet) ==
    LET done == Placed([old |-> ws, new |-> <<>>, cbs |-> callbacks, serial |-> Born(ws),
                        hist |-> hist, quiet |-> quiet], Sections(c))
    IN  [widgets |-> done.new, callbacks |-> Disabled(done.cbs, done.old)]

-----------------------------------------------------------------------------
(* The daemon.                                                             *)

Trim(hist, max) == SubSeq(hist, 1, IF Len(hist) < max THEN Len(hist) ELSE max)

\* g_ptr_array_remove_fast: the last element takes the place of the removed one.
RemoveFast(s, i) ==
    LET n == Len(s)
    IN  IF i = n THEN Front(s) ELSE [Front(s) EXCEPT ![i] = s[n]]

\* The toast of an identifier goes; the first one, had it two.
Without(ts, id) == RemoveFirstMatch(ts, LAMBDA t : t.id = id)

Op == ops < MaxOps /\ ops' = ops + 1

Shown == {t.id : t \in Range(toasts)}

Init ==
    /\ toasts = <<>> /\ history = <<>> /\ nextId = 1 /\ dnd = FALSE
    /\ config \in Configs /\ maxHistory = config.max
    /\ LET made == Placed([old |-> <<>>, new |-> <<>>, cbs |-> {}, serial |-> 1,
                           hist |-> <<>>, quiet |-> FALSE], Sections(config))
       IN  widgets = made.new /\ callbacks = made.cbs
    /\ issued = {} /\ told = {} /\ silenced = {} /\ ops = 0

\* The toast of the identifier to be replaced goes, its entry in the history too;
\* a new toast appears unless Do Not Disturb is on; the history is trimmed.
Notify(replaces) ==
    LET id   == IF replaces # 0 THEN replaces ELSE nextId + 1
        left == Without(toasts, replaces)
        hist == Trim(<<id>> \o RemoveFirst(history, replaces), maxHistory)
    IN  /\ Op
        /\ nextId' = IF replaces # 0 THEN nextId ELSE id
        /\ toasts' = IF dnd THEN left ELSE Append(left, [n |-> ops, id |-> id])
        /\ history' = hist
        /\ widgets' = Emit(widgets, hist, dnd)
        /\ issued' = issued \cup {id}
        /\ told' = told \ {id}
        /\ silenced' = IF dnd THEN silenced \cup {id} ELSE silenced \ {id}
        /\ UNCHANGED <<maxHistory, dnd, callbacks, config>>

\* The program closes: the toast goes, the history stays, and the signal is sent
\* whether or not there was a toast.
CloseNotification(id) ==
    /\ Op
    /\ toasts' = Without(toasts, id)
    /\ told' = told \cup {id}
    /\ UNCHANGED <<history, nextId, maxHistory, dnd, callbacks, widgets, config, issued, silenced>>

ExpireInPlace(i) ==
    /\ told' = told \cup {toasts[i].id}
    /\ UNCHANGED <<toasts, history, nextId, maxHistory, dnd, callbacks, widgets, config,
                   issued, silenced, ops>>

\* on_toast_expire_timeout.
Expire(i) ==
    /\ toasts' = RemoveAt(toasts, i)
    /\ told' = told \cup {toasts[i].id}
    /\ UNCHANGED <<history, nextId, maxHistory, dnd, callbacks, widgets, config,
                   issued, silenced, ops>>

\* The toast is swiped away or clicked.  It is out of the array and its timer is
\* gone before it is freed in an idle callback.
Dismiss(i) ==
    /\ Op
    /\ toasts' = RemoveFast(toasts, i)
    /\ told' = told \cup {toasts[i].id}
    /\ UNCHANGED <<history, nextId, maxHistory, dnd, callbacks, widgets, config, issued, silenced>>

\* The history loses entries and the widgets look again.
NewHistory(hist) ==
    /\ history' = hist
    /\ widgets' = Emit(widgets, hist, dnd)
    /\ UNCHANGED <<toasts, nextId, maxHistory, dnd, callbacks, config, issued, silenced>>

\* A card of the list: reported closed and out of the history; a toast with the
\* same identifier stays until it expires.
CardPressed(id) ==
    /\ Op
    /\ told' = told \cup {id}
    /\ NewHistory(RemoveFirst(history, id))

RemoveItem(id) == Op /\ NewHistory(RemoveFirst(history, id)) /\ UNCHANGED told

ClearAll == Op /\ NewHistory(<<>>) /\ UNCHANGED told

SetDndLeavingToasts(on) ==
    /\ Op
    /\ dnd' = on
    /\ widgets' = IF on # dnd THEN Emit(widgets, history, on) ELSE widgets
    /\ UNCHANGED <<toasts, silenced, history, nextId, maxHistory, callbacks, config, issued, told>>

\* shell_notification_daemon_set_dnd, from the switch or the control center.
\* Turning it on frees the toasts; no NotificationClosed is sent.
SetDnd(on) ==
    /\ Op
    /\ dnd' = on
    /\ toasts' = IF on THEN <<>> ELSE toasts
    /\ silenced' = IF on THEN silenced \cup Shown ELSE silenced
    /\ widgets' = IF on # dnd THEN Emit(widgets, history, on) ELSE widgets
    /\ UNCHANGED <<history, nextId, maxHistory, callbacks, config, issued, told>>

\* shell_app_reload_config: the history is trimmed to the new length, which the
\* old widgets still see, and the widgets are reconciled.
Reload(c) ==
    LET hist == Trim(history, c.max)
        done == Reconcile(IF Len(history) > c.max THEN Emit(widgets, hist, dnd) ELSE widgets,
                          c, hist, dnd)
    IN  /\ Op
        /\ config' = c /\ maxHistory' = c.max /\ history' = hist
        /\ widgets' = done.widgets /\ callbacks' = done.callbacks
        /\ UNCHANGED <<toasts, nextId, dnd, issued, told, silenced>>

Next ==
    \/ \E replaces \in {0} \cup issued \cup Kept : Notify(replaces)
    \/ \E id \in issued \cup Kept : CloseNotification(id)
    \/ \E i \in DOMAIN toasts : Expire(i) \/ Dismiss(i)
    \/ \E w \in Range(widgets) : w.kind = "notifications" /\ ClearAll
    \/ \E w \in Range(widgets), id \in Range(history) :
          w.kind = "notifications" /\ (CardPressed(id) \/ RemoveItem(id))
    \/ \E on \in BOOLEAN : SetDnd(on)
    \/ \E c \in Configs : Reload(c)

\* The timers of toasts fire.
TimersFire == \E i \in DOMAIN toasts : Expire(i)

Spec == Init /\ [][Next]_vars /\ WF_vars(TimersFire)

-----------------------------------------------------------------------------
(* Properties.                                                             *)

\* Do Not Disturb shows nothing; each identifier has one toast, though a program
\* replaces, closes and reuses it (but for those that a program brought, which the
\* counter may come to give to another); and a notification that is not on the screen
\* was reported closed to its program, or Do Not Disturb is why it is not seen.
ToastsAreRight ==
    /\ dnd => toasts = <<>>
    /\ \A i, j \in DOMAIN toasts : toasts[i].id = toasts[j].id => i = j \/ toasts[i].id \in Kept
    /\ issued \subseteq Shown \cup told \cup silenced

\* Those of the sections whose widgets there are, in order.
Known(wants) ==
    LET known[i \in 0..Len(wants)] ==
          IF i = 0 THEN <<>>
          ELSE IF wants[i].kind \in Registered THEN Append(known[i - 1], wants[i])
          ELSE known[i - 1]
    IN  known[Len(wants)]

\* However the layout is reloaded, the panel has the configured widgets in their
\* sections, the daemon calls back those and no destroyed one, and each shows the
\* daemon's state as it is.
WidgetsFollow ==
    /\ [i \in DOMAIN widgets |-> [kind |-> widgets[i].kind, at |-> widgets[i].at]]
         = Known(Sections(config))
    /\ callbacks = {w.serial : w \in {v \in Range(widgets) : Listens(v.kind)}}
    /\ \A w \in Range(widgets) : w.shown = View(w.kind, history, dnd)
    /\ Len(history) <= maxHistory

\* A toast goes from the screen in the end.
ToastsLeave == \A n \in 0..MaxOps :
    (\E t \in Range(toasts) : t.n = n) ~> ~(\E t \in Range(toasts) : t.n = n)
=============================================================================
