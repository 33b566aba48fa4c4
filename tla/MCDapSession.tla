---------------------------- MODULE MCDapSession ----------------------------
(* Instances of DapSession for TLC.                                        *)
EXTENDS DapSession

CONSTANTS l1

OneLine == {l1}
AllSourced == 1 .. NFrames
OuterSourced == {NFrames}
ProcessOnly == {"process"}
BothKinds == {"process", "socket"}
StartMayFail == {"initialize", "launch", "configurationDone"}
=============================================================================
