------------------------------ MODULE MCShell -------------------------------
(*****************************************************************************)
(* Instances for TLC of the shell: the panel that hides itself,              *)
(* notifications, the view of niri and the configuration. Their modules      *)
(* share no variable, so a behaviour is one of a single part: the states of  *)
(* the parts add up and do not multiply.                                     *)
(*****************************************************************************)
EXTENDS PanelAutohide, ShellParts, TLC

VARIABLE part       \* the part of this behaviour

ThreeKinds == {"clock", "dnd", "notifications"}
TwoWindows == 1..2
TwoTitles == {"a", "b"}
SomeAddable == {"clock", "script", "tray"}
TwoWidgets == {"control-center", "notifications"}
TwoHeights == {-30, -46}

Panel(left, center, right, max) ==
    [left |-> left, center |-> center, right |-> right, max |-> max]
PanelLayouts ==
    {Panel(<<"clock", "dnd">>, <<>>, <<"notifications">>, 2),
     Panel(<<"notifications">>, <<"dnd", "bogus">>, <<"dnd">>, 1), Panel(<<"clock">>, <<>>, <<>>, 2)}

Workspace(id, idx, output) == [id |-> id, idx |-> idx, output |-> output]
WorkspaceLists == {<<Workspace(1, 1, "A"), Workspace(2, 1, "B")>>,
                   <<Workspace(3, 2, "A"), Workspace(1, 1, "A"), Workspace(2, 1, "B")>>}
LayoutLists == {<<"fi">>, <<"se", "us">>}
SameName(title, name) == title = name

Widget(id, mode, cmd) == [id |-> id, mode |-> mode, cmd |-> cmd]
ShippedOne ==
    [kind |-> "file", set |-> [panel |-> 1, rotate |-> 1, accent |-> 1, ide |-> 1],
     layout |-> <<<<Widget("tray", "none", "none"), Widget("script", "none", "none")>>, <<>>,
                  <<Widget("clock", "full", "none")>> >>]
WrittenByHand ==
    {[kind |-> "file", set |-> [panel |-> 0, rotate |-> 2],
      layout |-> <<<<Widget("clock", "label", "none")>>,
                   <<Widget("script", "full", "a"), Widget("bogus", "none", "none")>>,
                   <<Widget("none", "none", "none")>> >>],
     [kind |-> "broken", set |-> [panel |-> 1], layout |-> <<<<>>, <<>>, <<>>>>]}

suite_vars == <<part, vars, DaemonVars, NiriVars, ConfVars>>

DaemonRests ==
    /\ Daemon!Init
    /\ notifications_config = Panel(<<"clock", "dnd">>, <<>>, <<"notifications">>, 2)
NiriRests ==
    /\ Niri!Init
    /\ niri.spaces = <<Workspace(1, 1, "A"), Workspace(2, 1, "B")>>
    /\ niri.names = <<"fi">>
ConfRests ==
    /\ Conf!Init
    /\ file = ShippedOne
AutohideRests == Init /\ config = [on |-> TRUE, hidden |-> -30, layout |-> TwoWidgets]

\* One part moves in a behaviour; the others rest where they begin.
SuiteInit ==
    \/ part = "panel" /\ Init /\ DaemonRests /\ NiriRests /\ ConfRests
    \/ part = "notifications" /\ Daemon!Init /\ AutohideRests /\ NiriRests /\ ConfRests
    \/ part = "niri" /\ Niri!Init /\ AutohideRests /\ DaemonRests /\ ConfRests
    \/ part = "config" /\ Conf!Init /\ AutohideRests /\ DaemonRests /\ NiriRests

AutohideOnly == part = "panel" /\ UNCHANGED <<part, DaemonVars, NiriVars, ConfVars>>
AutohideStep == AutohideOnly /\ Next
DaemonOnly == part = "notifications" /\ UNCHANGED <<part, vars, NiriVars, ConfVars>>
DaemonStep == DaemonOnly /\ Daemon!Next
NiriOnly == part = "niri" /\ UNCHANGED <<part, vars, DaemonVars, ConfVars>>
NiriStep == NiriOnly /\ Niri!Next
ConfOnly == part = "config" /\ UNCHANGED <<part, vars, DaemonVars, NiriVars>>
ConfStep == ConfOnly /\ Conf!Next

SuiteNext ==
    \/ AutohideStep \/ DaemonStep \/ NiriStep \/ ConfStep

SuiteSpec == SuiteInit /\ [][SuiteNext]_suite_vars
    /\ WF_vars(AutohideOnly /\ HideTimeout)
    /\ WF_vars(AutohideOnly /\ AnimationEnds)
    /\ WF_DaemonVars(DaemonOnly /\ Daemon!TimersFire)
    /\ WF_NiriVars(NiriOnly /\ Niri!ReadLine)
    /\ WF_NiriVars(NiriOnly /\ Niri!StreamEnds)
    /\ WF_NiriVars(NiriOnly /\ Niri!Reconnect)

-----------------------------------------------------------------------------
\* A niri that stays is followed in the end.
FollowsAgain == (part = "niri") => Niri!FollowsAgain
=============================================================================
