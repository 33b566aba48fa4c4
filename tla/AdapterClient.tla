--------------------------- MODULE AdapterClient ----------------------------
(***************************************************************************)
(* DapClient under names of its own, to stand beside LspClient, whose      *)
(* variables and bounds have the same names.  It is instantiated with what *)
(* is proved of it, so that its theorems come as Adapter!<theorem>.        *)
(***************************************************************************)
EXTENDS Naturals

CONSTANTS
  AdapterCalls, AdapterAsks,  \* MaxCalls and MaxAsks of DapClient
  Transports, ShortWrites     \* as there

ASSUME AdapterAssumption ==
  /\ AdapterCalls \in Nat /\ AdapterAsks \in Nat
  /\ Transports \subseteq {"process", "socket"}
  /\ ShortWrites \in BOOLEAN

VARIABLES
  adapter_writeQueue, adapter_writing, adapter_out, transport, started, alive,
  adapter_exited, freed, adapter_pending, adapter_reading, outOpen, made,
  adapter_fate, adapter_calls, exitCalls, lateEvents, adapter_proc, fromAdapter,
  adapter_readUpTo, adapter_owed, adapter_asks

Adapter == INSTANCE DapClientProofs WITH
  MaxCalls <- AdapterCalls, MaxAsks <- AdapterAsks,
  writeQueue <- adapter_writeQueue, writing <- adapter_writing, out <- adapter_out,
  exited <- adapter_exited, pending <- adapter_pending, reading <- adapter_reading,
  fate <- adapter_fate, calls <- adapter_calls, proc <- adapter_proc,
  readUpTo <- adapter_readUpTo, owed <- adapter_owed, asks <- adapter_asks

AdapterVars ==
  <<adapter_writeQueue, adapter_writing, adapter_out, transport, started, alive,
    adapter_exited, freed, adapter_pending, adapter_reading, outOpen, made,
    adapter_fate, adapter_calls, exitCalls, lateEvents, adapter_proc, fromAdapter,
    adapter_readUpTo, adapter_owed, adapter_asks>>

-----------------------------------------------------------------------------
(* The exit of the adapter is noticed once and settles every request       *)
(* (mark_exited), at most one event is dispatched after it, and the writer *)
(* has no work it does not do.                                             *)
ExitIsClean ==
  /\ Adapter!TypeOK
  /\ Adapter!ExitSettles
  /\ Adapter!OneLateEvent
  /\ Adapter!WriterNeverIdle

(* The callback of each request to the adapter runs once, or never because *)
(* the client was freed (IdeDapResponseCb).                                *)
AdapterKeepsLedger == Adapter!KeepsLedger

(* The owner that stopped an adapter process hears of its end              *)
(* (ide_dap_client_stop).                                                  *)
StopOfProcessIsHeard == Adapter!StopOfProcessIsHeard
=============================================================================
