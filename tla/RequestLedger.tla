---------------------------- MODULE RequestLedger ----------------------------
(***************************************************************************)
(* What a protocol client promises the code that issues requests           *)
(* (IdeLspResponseCb in src/ide/ide_lsp_client.h, IdeDapResponseCb in      *)
(* src/ide/ide_dap_client.h): the callback of a request runs at most once, *)
(* with the peer's answer or with an error, and not at all once the        *)
(* request was cancelled or the client freed.                              *)
(***************************************************************************)
EXTENDS Naturals

CONSTANT Requests

VARIABLES
  status,  \* what has become of each request
  calls    \* how often its callback has run

Statuses == {"unissued", "open", "answered", "failed", "dropped"}

Init ==
  /\ status = [r \in Requests |-> "unissued"]
  /\ calls = [r \in Requests |-> 0]

(* A request that is refused on the spot fails without having been open.   *)
Moves ==
  {<<"unissued", "open">>, <<"unissued", "failed">>,
   <<"open", "answered">>, <<"open", "failed">>, <<"open", "dropped">>}

RunsCallback(from, to) == from # to /\ to \in {"answered", "failed"}

Evolves(r) ==
  /\ \/ status'[r] = status[r]
     \/ <<status[r], status'[r]>> \in Moves
  /\ calls'[r] = calls[r] + (IF RunsCallback(status[r], status'[r]) THEN 1 ELSE 0)

(* One callback of the main loop may settle many requests: a dead peer     *)
(* fails them all.                                                         *)
Next ==
  /\ status' \in [Requests -> Statuses]
  /\ calls' \in [Requests -> 0 .. 1]
  /\ \A r \in Requests : Evolves(r)

Spec == Init /\ [][Next]_<<status, calls>>
=============================================================================
