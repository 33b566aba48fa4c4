----------------------------- MODULE MCClients ------------------------------
(*****************************************************************************)
(* Instances for TLC of the two clients, of a language server and of a       *)
(* debug adapter. Their modules share no variable, so a behaviour is one of  *)
(* a single client: the states of the two add up and do not multiply.        *)
(*****************************************************************************)
EXTENDS LspClient, AdapterClient

VARIABLE part    \* the part of this behaviour

suite_vars == <<part, vars, AdapterVars>>

AdapterRests ==
    /\ Adapter!Init
    /\ transport = "process"
ServerRests == Init

\* One part moves in a behaviour; the others rest where they begin.
SuiteInit ==
    \/ part = "server" /\ Init /\ AdapterRests
    \/ part = "adapter" /\ Adapter!Init /\ ServerRests

ServerOnly == part = "server" /\ UNCHANGED <<part, AdapterVars>>
ServerStep == ServerOnly /\ Next
AdapterOnly == part = "adapter" /\ UNCHANGED <<part, vars>>
AdapterStep == AdapterOnly /\ Adapter!Next

SuiteNext ==
    \/ ServerStep \/ AdapterStep

SuiteSpec == SuiteInit /\ [][SuiteNext]_suite_vars
    /\ WF_vars(ServerOnly /\ (ReadMessage \/ ReadEof))
    /\ WF_vars(ServerOnly /\ ProcessExited)
    /\ WF_vars(ServerOnly /\ WriteCompletes)
    /\ WF_vars(ServerOnly /\ KillGraceElapsed)
    /\ WF_AdapterVars(AdapterOnly /\ (Adapter!ReadMessage \/ Adapter!ReadEof))
    /\ WF_AdapterVars(AdapterOnly /\ Adapter!ProcessExited)
    /\ WF_AdapterVars(AdapterOnly /\ Adapter!WriteCompletes)
    /\ WF_AdapterVars(AdapterOnly /\ (~outOpen /\ Adapter!AdapterExits))
=============================================================================
