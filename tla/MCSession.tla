----------------------------- MODULE MCSession ------------------------------
(*****************************************************************************)
(* Instances for TLC of what stands between the user and the session: the    *)
(* lock with its saver, the tablet's parts and the greeter. Their modules    *)
(* share no variable, so a behaviour is one of a single part: the states of  *)
(* the parts add up and do not multiply.                                     *)
(*****************************************************************************)
EXTENDS SessionGuard, Convertible, LoginScreen, TLC

VARIABLE part       \* the part of this behaviour

\* Two layouts: "2" with AltGr is "@" on the first and "2" with Shift on the second.
Key(kind, code, symbol, repeats) ==
    [kind |-> kind, code |-> code, symbol |-> symbol, repeatable |-> repeats]
SomeKeys ==
    {Key("evdev", "a", "", FALSE), Key("evdev", "2", "", TRUE), Key("evdev", "dead", "", FALSE),
     Key("symbol", "", "^", FALSE), Key("symbol", "", "@", FALSE), Key("globe", "", "", FALSE),
     Key("hide", "", "", FALSE)} \cup {Key(m, "", "", FALSE) : m \in {"shift", "ctrl", "altgr"}}

Chars(type, chars) == [type |-> type, chars |-> chars]
Finnish == [a    |-> Chars("alphabetic", <<"a", "A", "", "">>)] @@
           ("2" :> Chars("levels", <<"2", "dq", "@", "">>)) @@
           [dead |-> Chars("levels", <<"d..", "d^", "d~", "">>)]
English == [a    |-> Chars("alphabetic", <<"a", "A", "", "">>)] @@
           ("2" :> Chars("levels", <<"2", "@", "2", "@">>)) @@
           [dead |-> Chars("levels", <<"[", "{", "[", "{">>)]
SomeKeymaps == {<<Finnish>>, <<Finnish, English>>}
DeadKeys == ("d.." :> "..") @@ ("d^" :> "^") @@ ("d~" :> "~")
SomeCodes == <<"2", "a", "dead">>
OskLayout(mode, push, above) == [mode |-> mode, push |-> push, above |-> above]
ManualLayout == OskLayout("manual", FALSE, TRUE)
OskLayouts == {OskLayout("tablet", TRUE, FALSE), ManualLayout, OskLayout("always", TRUE, TRUE)}

TabletConfig(kbd, touch, rotate, level) ==
    [kbd |-> kbd, touch |-> touch, rotate |-> rotate, light |-> level]
TabletConfigs == {TabletConfig(TRUE, TRUE, TRUE, 2), TabletConfig(FALSE, FALSE, TRUE, 1),
                  TabletConfig(TRUE, FALSE, FALSE, 0)}

Point(a, b) == [x |-> a, y |-> b]
SomeSpots == {Point(32, 0), Point(32, 32)}
SomeTouchConfigs == {[enabled |-> TRUE, panel |-> "top"], [enabled |-> FALSE, panel |-> "bottom"]}

Account(name, uid, shell) == [name |-> name, uid |-> uid, shell |-> shell]
SomeAccounts ==
    {<<Account(5, 1001, "bash"), Account(3, 1000, "zsh"), Account(5, 1001, "bash"),
       Account(9, 1002, "nologin"), Account(2, 0, "bash")>>, <<Account(2, 0, "bash")>>}
File(id, type, name, exec, hidden) ==
    [id |-> id, type |-> type, name |-> name, exec |-> exec, hidden |-> hidden]
SomeSessions ==
    {<<File("sway", "wayland", 7, "sway", FALSE), File("niri", "wayland", 8, "niri", FALSE),
       File("sway", "wayland", 1, "sway2", FALSE)>>, <<File("x", "x11", 1, "", FALSE)>>}

TwoMonitors == {"internal", "external"}
\* The order of the defaults (300 s, 600 s, 900 s), monitors off as the saver
\* with the lock first, and no saver at all.
Ordered == {[mode |-> "overlay", onSuspend |-> TRUE,
             timeout |-> [saver |-> 1, dpms |-> 2, lock |-> 3]]}
AllConfigs == Ordered \cup
  {[mode |-> "dpms", onSuspend |-> FALSE, timeout |-> [saver |-> 2, dpms |-> 0, lock |-> 1]],
   [mode |-> "disabled", onSuspend |-> TRUE, timeout |-> [saver |-> 1, dpms |-> 2, lock |-> 2]]}

suite_vars == <<part, vars, KeyboardVars, HingeVars, TouchVars, LoginVars>>

KeyboardRests ==
    /\ Keyboard!Init
    /\ layout = ManualLayout /\ groups = <<Finnish>>
HingeRests ==
    /\ Hinge!Init
    /\ hinge = "open" /\ posture_inhibited = [kbd |-> FALSE, touch |-> FALSE]
    /\ posture_config = TabletConfig(TRUE, TRUE, TRUE, 2) /\ light = 0
TouchRests ==
    /\ Touch!Init
    /\ touch_config = [enabled |-> TRUE, panel |-> "top"]
LoginRests ==
    /\ Login!Init
    /\ cache = "absent" /\ users = <<3, 5>> /\ sessions[1].exec = "niri"
LockRests == Init /\ config \in Ordered /\ monitors = TwoMonitors

\* One part moves in a behaviour; the others rest where they begin.
SuiteInit ==
    \/ part = "lock" /\ Init /\ KeyboardRests /\ HingeRests /\ TouchRests /\ LoginRests
    \/ part = "keyboard" /\ Keyboard!Init /\ LockRests /\ HingeRests /\ TouchRests /\
       LoginRests
    \/ part = "posture" /\ Hinge!Init /\ LockRests /\ KeyboardRests /\ TouchRests /\
       LoginRests
    \/ part = "touch" /\ Touch!Init /\ LockRests /\ KeyboardRests /\ HingeRests /\
       LoginRests
    \/ part = "greeter" /\ Login!Init /\ LockRests /\ KeyboardRests /\ HingeRests /\
       TouchRests

LockOnly == part = "lock" /\ UNCHANGED <<part, KeyboardVars, HingeVars, TouchVars, LoginVars>>
LockStep == LockOnly /\ Next
KeyboardOnly == part = "keyboard" /\ UNCHANGED <<part, vars, HingeVars, TouchVars, LoginVars>>
KeyboardStep == KeyboardOnly /\ Keyboard!Next
HingeOnly == part = "posture" /\ UNCHANGED <<part, vars, KeyboardVars, TouchVars, LoginVars>>
HingeStep == HingeOnly /\ Hinge!Next
TouchOnly == part = "touch" /\ UNCHANGED <<part, vars, KeyboardVars, HingeVars, LoginVars>>
TouchStep == TouchOnly /\ Touch!Next
LoginOnly == part = "greeter" /\ UNCHANGED <<part, vars, KeyboardVars, HingeVars, TouchVars>>
LoginStep == LoginOnly /\ Login!Next

SuiteNext ==
    \/ LockStep \/ KeyboardStep \/ HingeStep \/ TouchStep \/ LoginStep

SuiteSpec == SuiteInit /\ [][SuiteNext]_suite_vars
    /\ WF_vars(LockOnly /\ (\E ok \in BOOLEAN : 1 \in checks /\ CheckEnds(1, ok)))
    /\ WF_vars(LockOnly /\ (\E ok \in BOOLEAN : 2 \in checks /\ CheckEnds(2, ok)))
    /\ WF_vars(LockOnly /\ (SessionLocked \/ LockFailed))
    /\ WF_HingeVars(HingeOnly /\ Hinge!Tick)
    /\ WF_LoginVars(LoginOnly /\ Login!CreateSession)
    /\ WF_LoginVars(LoginOnly /\ Login!Answer)
    /\ WF_LoginVars(LoginOnly /\ Login!StartSession)
    /\ WF_LoginVars(LoginOnly /\ Login!Complete)

=============================================================================
