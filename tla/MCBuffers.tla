----------------------------- MODULE MCBuffers ------------------------------
(*****************************************************************************)
(* Instances for TLC of what follows the text of a buffer: its file with     *)
(* the review of what agents write, and the language server. The modules     *)
(* share no variable, so a behaviour is one of a single part: the states of  *)
(* the two add up and do not multiply.                                       *)
(*****************************************************************************)
EXTENDS AgentReview, ServerDocs

VARIABLES
    part        \* the part of this behaviour

TwoFiles == {"a", "b"}
TwoDocs == {1, 2}

suite_vars == <<part, vars, ServerVars>>

ServerRests ==
    /\ Server!Init
ReviewRests == Init

\* One part moves in a behaviour; the others rest where they begin.
SuiteInit ==
    \/ part = "review" /\ Init /\ ServerRests
    \/ part = "server" /\ Server!Init /\ ReviewRests

ReviewOnly == part = "review" /\ UNCHANGED <<part, ServerVars>>
ReviewStep == ReviewOnly /\ Next
ServerOnly == part = "server" /\ UNCHANGED <<part, vars>>
ServerStep == ServerOnly /\ Server!Next

SuiteNext ==
    \/ ReviewStep \/ ServerStep

SuiteSpec == SuiteInit /\ [][SuiteNext]_suite_vars
    /\ WF_vars(ReviewOnly /\ MonitorChanged("a"))
    /\ WF_vars(ReviewOnly /\ MonitorChanged("b"))
    /\ WF_ServerVars(ServerOnly /\ Server!ChangeTimer(1))
    /\ WF_ServerVars(ServerOnly /\ Server!ChangeTimer(2))
    /\ WF_ServerVars(ServerOnly /\ Server!ServerReads)
    /\ WF_ServerVars(ServerOnly /\ Server!ServerReady)
=============================================================================
