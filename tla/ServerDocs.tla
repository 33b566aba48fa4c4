----------------------------- MODULE ServerDocs ------------------------------
(***************************************************************************)
(* LspDocSync under names of its own, to stand beside AgentReview, whose   *)
(* variables and bounds have the same names.  It is instantiated with what *)
(* is proved of it, so that its theorems come as Server!<theorem>.         *)
(***************************************************************************)
EXTENDS Naturals

CONSTANTS
  ServerFiles,                       \* Docs of LspDocSync
  Restarts, ServerEdits, ServerOps   \* RestartLimit, MaxEdits and MaxOps

ASSUME ServerAssumption ==
  Restarts \in Nat /\ ServerEdits \in Nat /\ ServerOps \in Nat

VARIABLES
  server_isOpen, docClient, version, sentOpen, timer, active, gen, cstate, missing,
  inflight, server_text, edits, server_ops, wire, answers, srvOpen, srvVersion,
  srvText, confused, stale

Server == INSTANCE LspDocSyncProofs WITH
  Docs <- ServerFiles, RestartLimit <- Restarts, MaxEdits <- ServerEdits,
  MaxOps <- ServerOps,
  isOpen <- server_isOpen, text <- server_text, ops <- server_ops

ServerVars ==
  <<server_isOpen, docClient, version, sentOpen, timer, active, gen, cstate, missing,
    inflight, server_text, edits, server_ops, wire, answers, srvOpen, srvVersion,
    srvText, confused, stale>>

-----------------------------------------------------------------------------
(* Nothing points at a client that get_client freed, the server is never   *)
(* told of a document it does not have, and with no change on its way it   *)
(* has the text of the buffer, as it has when it reads a save, a hover or  *)
(* a format request -- but for a request to format a document that a server*)
(* in another's place has not been told of (request_format_with_options).  *)
ServerKnowsTheText ==
  /\ Server!TypeOK
  /\ Server!NoDanglingClient
  /\ Server!ServerFollows
  /\ Server!InStep
  /\ Server!AsksAboutCurrentText

(* Every edit that was reported reaches a server that stays                *)
(* (on_change_timer).                                                      *)
EditsArrive == Server!EditsArrive
=============================================================================
