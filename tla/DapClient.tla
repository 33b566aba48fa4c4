------------------------------ MODULE DapClient ------------------------------
(***************************************************************************)
(* One debug-adapter client (src/ide/ide_dap_client.c) and its adapter:    *)
(* the transport below DapSession, with the write queue, the reads and the *)
(* two ways in which the end of the adapter is noticed (the end of its     *)
(* output and the end of its process).  The owner is IdeDapView in         *)
(* src/ide/ide_dap.c; the adapter is external.                             *)
(***************************************************************************)
EXTENDS FramedWriter, Naturals, FiniteSets

CONSTANTS
  MaxCalls,    \* bound on the requests the owner issues
  MaxAsks,     \* bound on the events and reverse requests of the adapter
  Transports,  \* the streams to try: "process", "socket"
  ShortWrites  \* may the stream take a part of a message only?

(* The owner's requests, numbered in the order they are issued.            *)
Calls == 1 .. MaxCalls

(* "torn": what is left on the stream of a message that was cut short.     *)
Kinds == {"request", "reply", "answer", "event", "ask", "torn"}
Message == [kind : Kinds, ref : 0 .. MaxCalls]
Msg(kind, ref) == [kind |-> kind, ref |-> ref]

Fates == {"none", "answered", "failed", "refused", "dropped"}

VARIABLES
  transport,   \* proc # NULL: "process"; a pair of streams: "socket"
  started, alive, exited,
  freed,       \* ide_dap_client_free has returned
  pending,     \* the requests whose callback is registered
  reading,     \* a read of the adapter's output is outstanding
  outOpen,     \* the stream to the adapter is open
  made,        \* how many requests the owner made
  fate, calls, \* history: how each request ended, how often its callback ran
  exitCalls,   \* history: how often exit_cb ran
  lateEvents,  \* history: events dispatched after exit_cb ran
  \* the adapter (external)
  proc,        \* "none", "running", "exited"
  fromAdapter,
  readUpTo,    \* how many messages of the client it has read
  owed,        \* the requests it has read and not answered
  asks         \* how many events and reverse requests it has sent

clientVars == <<transport, started, alive, exited, freed, pending, reading, outOpen>>
historyVars == <<made, fate, calls, exitCalls, lateEvents>>
adapterVars == <<proc, fromAdapter, readUpTo, owed, asks>>
vars == <<clientVars, historyVars, adapterVars, writerVars>>

(* ide_dap_client_new_process / ide_dap_client_new_streams. *)
Init ==
  /\ transport \in Transports
  /\ started = FALSE /\ alive = FALSE /\ exited = FALSE /\ freed = FALSE
  /\ pending = {} /\ reading = FALSE /\ outOpen = TRUE
  /\ made = 0
  /\ fate = [c \in Calls |-> "none"] /\ calls = [c \in Calls |-> 0]
  /\ exitCalls = 0 /\ lateEvents = 0
  /\ proc = (IF transport = "socket" THEN "running" ELSE "none")
  /\ fromAdapter = <<>> /\ readUpTo = 0 /\ owed = {} /\ asks = 0
  /\ WriterInit

-----------------------------------------------------------------------------
NewCalls(n) == made + 1 .. made + n

(* Callbacks.  `ended` are requests whose callback runs with outcome `how`;*)
(* `refused` are requests that fail on the spot.                           *)
RunCallbacks(ended, how, refused) ==
  /\ fate' = [c \in Calls |->
                IF c \in ended THEN how ELSE IF c \in refused THEN "refused" ELSE fate[c]]
  /\ calls' = [c \in Calls |->
                 IF c \in ended \cup refused THEN calls[c] + 1 ELSE calls[c]]

NoCallback == UNCHANGED <<made, fate, calls>>

(* Fault: the callbacks run again when the exit is noticed a second time.  *)
MarkExitedEachTime ==
  \E n \in 0 .. Cardinality(pending) :
    /\ made + n <= MaxCalls
    /\ exited' = TRUE /\ alive' = FALSE /\ pending' = {}
    /\ made' = made + n
    /\ RunCallbacks(pending, "failed", NewCalls(n))
    /\ exitCalls' = exitCalls + 1

(* mark_exited: once.  The callbacks run after the table was emptied; the  *)
(* requests they make are refused.  exit_cb comes last.                    *)
MarkExited ==
  IF exited
  THEN UNCHANGED <<exited, alive, pending, exitCalls>> /\ NoCallback
  ELSE \E n \in 0 .. Cardinality(pending) :
         /\ made + n <= MaxCalls
         /\ exited' = TRUE /\ alive' = FALSE /\ pending' = {}
         /\ made' = made + n
         /\ RunCallbacks(pending, "failed", NewCalls(n))
         /\ exitCalls' = exitCalls + 1

-----------------------------------------------------------------------------
(* ide_dap_client_start; a process that cannot be spawned leaves the       *)
(* client as it was.                                                       *)
Start ==
  /\ ~freed /\ ~started
  /\ started' = TRUE /\ alive' = TRUE /\ reading' = TRUE
  /\ proc' = IF transport = "process" THEN "running" ELSE proc
  /\ UNCHANGED <<transport, exited, freed, pending, outOpen, historyVars, writerVars,
                 fromAdapter, readUpTo, owed, asks>>

(* ide_dap_client_request. *)
Request ==
  /\ ~freed /\ made < MaxCalls
  /\ made' = made + 1
  /\ IF exited \/ ~started
     THEN /\ RunCallbacks({}, "failed", {made + 1})
          /\ pending' = pending /\ SendsNothing
     ELSE /\ pending' = pending \cup {made + 1}
          /\ Send(<<Msg("request", made + 1)>>)
          /\ UNCHANGED <<fate, calls>>
  /\ UNCHANGED <<transport, started, alive, exited, freed, reading, outOpen,
                 exitCalls, lateEvents, adapterVars>>

(* Fault: the client forgets to take the adapter down. *)
StopMarksOnly ==
  /\ ~freed
  /\ alive' = FALSE
  /\ UNCHANGED <<transport, started, exited, freed, pending, reading, outOpen, historyVars,
                 adapterVars, writerVars>>

(* ide_dap_client_stop: the process is killed, a stream is closed - which  *)
(* GIO refuses while a write on it is outstanding.  Nothing else happens   *)
(* until the end of the adapter is noticed.                                *)
Stop ==
  /\ ~freed
  /\ alive' = FALSE
  /\ proc' = IF transport = "process" /\ proc = "running" THEN "exited" ELSE proc
  /\ outOpen' = (outOpen /\ ~(transport = "socket" /\ writing = <<>>))
  /\ UNCHANGED <<transport, started, exited, freed, pending, reading, historyVars,
                 fromAdapter, readUpTo, owed, asks, writerVars>>

(* ide_dap_client_free: no callback runs; the read, the wait and the write *)
(* are cancelled, and the completion of the write is still to come.        *)
Free ==
  /\ ~freed
  /\ freed' = TRUE
  /\ pending' = {} /\ reading' = FALSE /\ writeQueue' = <<>>
  /\ fate' = [c \in Calls |-> IF c \in pending THEN "dropped" ELSE fate[c]]
  /\ proc' = IF transport = "process" /\ proc = "running" THEN "exited" ELSE proc
  /\ UNCHANGED <<transport, started, alive, exited, outOpen, made, calls, exitCalls, lateEvents,
                 fromAdapter, readUpTo, owed, asks, writing, out>>

-----------------------------------------------------------------------------
(* Fault: the entry stays in the table. *)
AnswerRequestKeepsEntry(c, again) ==
  /\ RunCallbacks({c}, "answered", {})
  /\ pending' = pending /\ made' = made /\ SendsNothing

(* handle_message of an answer somebody waits for; its callback may make   *)
(* the next request.                                                       *)
AnswerRequest(c, again) ==
  /\ RunCallbacks({c}, "answered", {})
  /\ IF again
     THEN /\ made < MaxCalls
          /\ made' = made + 1
          /\ pending' = (pending \ {c}) \cup {made + 1}
          /\ Send(<<Msg("request", made + 1)>>)
     ELSE pending' = pending \ {c} /\ made' = made /\ SendsNothing

(* Fault: reading goes on after the exit. *)
ReadMessageForever ==
  /\ reading /\ fromAdapter # <<>>
  /\ fromAdapter' = Tail(fromAdapter)
  /\ reading' = reading
  /\ LET m == Head(fromAdapter) IN
     /\ \/ /\ m.kind \in {"answer", "event"} /\ ~(m.kind = "answer" /\ m.ref \in pending)
           /\ pending' = pending /\ SendsNothing /\ NoCallback
        \/ m.kind = "ask" /\ pending' = pending /\ Send(<<Msg("reply", 0)>>) /\ NoCallback
        \/ /\ m.kind = "answer" /\ m.ref \in pending
           /\ \E again \in BOOLEAN : AnswerRequest(m.ref, again)
     /\ lateEvents' = IF m.kind = "event" /\ exited THEN lateEvents + 1 ELSE lateEvents
  /\ UNCHANGED <<transport, started, alive, exited, freed, outOpen, exitCalls, proc,
                 readUpTo, owed, asks>>

(* on_read_done with data: drain_rx handles a message before it looks at   *)
(* `exited`, so the read that was outstanding when the exit was noticed    *)
(* still delivers one.  Events go to the owner and leave the client as it  *)
(* is; a reverse request is answered.                                      *)
ReadMessage ==
  /\ reading /\ fromAdapter # <<>>
  /\ fromAdapter' = Tail(fromAdapter)
  /\ reading' = ~exited
  /\ LET m == Head(fromAdapter) IN
     /\ \/ /\ m.kind \in {"answer", "event"} /\ ~(m.kind = "answer" /\ m.ref \in pending)
           /\ pending' = pending /\ SendsNothing /\ NoCallback
        \/ m.kind = "ask" /\ pending' = pending /\ Send(<<Msg("reply", 0)>>) /\ NoCallback
        \/ /\ m.kind = "answer" /\ m.ref \in pending
           /\ \E again \in BOOLEAN : AnswerRequest(m.ref, again)
     /\ lateEvents' = IF m.kind = "event" /\ exited THEN lateEvents + 1 ELSE lateEvents
  /\ UNCHANGED <<transport, started, alive, exited, freed, outOpen, exitCalls, proc,
                 readUpTo, owed, asks>>

(* on_read_done at the end of the output, or with an error. *)
ReadEof ==
  /\ reading /\ fromAdapter = <<>> /\ proc = "exited"
  /\ reading' = FALSE
  /\ MarkExited
  /\ UNCHANGED <<transport, started, freed, outOpen, lateEvents, adapterVars, writerVars>>

(* on_process_exited; the end of the output may have been seen before. *)
ProcessExited ==
  /\ ~freed /\ started /\ transport = "process" /\ proc = "exited"
  /\ MarkExited
  /\ UNCHANGED <<transport, started, freed, reading, outOpen, lateEvents, adapterVars,
                 writerVars>>

(* The completion of the write in flight; a closed stream or one nobody    *)
(* reads fails, and a stream may report fewer bytes than it was given.     *)
WriteCompletes ==
  /\ ~freed
  /\ \/ outOpen /\ WriteDone
     \/ (~outOpen \/ proc = "exited") /\ WriteFails
     \/ ShortWrites /\ outOpen /\ WriteShort(Msg("torn", 0))
  /\ UNCHANGED <<clientVars, historyVars, adapterVars>>

(* The completion of the write that free cancelled: on_write_done clears   *)
(* c->writing.                                                             *)
CancelledWriteCompletes ==
  /\ freed
  /\ WriteFails
  /\ UNCHANGED <<clientVars, made, fate, calls, exitCalls, lateEvents, adapterVars>>

-----------------------------------------------------------------------------
(* The adapter.  It can make nothing of a stream once a message was torn:  *)
(* the length that was announced takes in the beginning of the next one.   *)
AdapterReads ==
  /\ proc = "running" /\ readUpTo < Len(out)
  /\ out[readUpTo + 1].kind # "torn"
  /\ readUpTo' = readUpTo + 1
  /\ LET m == out[readUpTo + 1] IN
     owed' = IF m.kind = "request" THEN owed \cup {m.ref} ELSE owed
  /\ UNCHANGED <<clientVars, historyVars, writerVars, proc, fromAdapter, asks>>

AdapterAnswers ==
  /\ proc = "running"
  /\ \E r \in owed :
       /\ owed' = owed \ {r}
       /\ fromAdapter' = Append(fromAdapter, Msg("answer", r))
  /\ UNCHANGED <<clientVars, historyVars, writerVars, proc, readUpTo, asks>>

AdapterSpeaks ==
  /\ proc = "running" /\ asks < MaxAsks
  /\ asks' = asks + 1
  /\ \E kind \in {"event", "ask"} : fromAdapter' = Append(fromAdapter, Msg(kind, 0))
  /\ UNCHANGED <<clientVars, historyVars, writerVars, proc, readUpTo, owed>>

(* It exits, or hangs up: by itself, or because the client's end of the    *)
(* stream was closed.                                                      *)
AdapterExits ==
  /\ proc = "running"
  /\ proc' = "exited"
  /\ UNCHANGED <<clientVars, historyVars, writerVars, fromAdapter, readUpTo, owed, asks>>

-----------------------------------------------------------------------------
OwnerNext == Start \/ Request \/ Stop \/ Free

LoopNext ==
  ReadMessage \/ ReadEof \/ ProcessExited \/ WriteCompletes \/ CancelledWriteCompletes

AdapterNext == AdapterReads \/ AdapterAnswers \/ AdapterSpeaks \/ AdapterExits

Next == OwnerNext \/ LoopNext \/ AdapterNext

Spec == Init /\ [][Next]_vars

(* The main loop dispatches what is ready; an adapter whose input has      *)
(* ended hangs up.                                                         *)
FairSpec ==
  Spec /\ WF_vars(ReadMessage \/ ReadEof) /\ WF_vars(ProcessExited)
       /\ WF_vars(WriteCompletes) /\ WF_vars(~outOpen /\ AdapterExits)

-----------------------------------------------------------------------------
(* Type invariant: the values the variables of ide_dap_client.c can have.  *)
TypeOK ==
  /\ transport \in {"process", "socket"}
  /\ {started, alive, exited, freed, reading, outOpen} \subseteq BOOLEAN
  /\ made \in 0 .. MaxCalls
  /\ pending \subseteq 1 .. made
  /\ fate \in [Calls -> Fates] /\ calls \in [Calls -> Nat]
  /\ exitCalls \in Nat /\ lateEvents \in Nat
  /\ Outgoing \in Seq(Message) /\ Len(writing) <= 1
  /\ fromAdapter \in Seq(Message)
  /\ proc \in {"none", "running", "exited"}
  /\ readUpTo \in 0 .. Len(out) /\ asks \in 0 .. MaxAsks

(* exit_cb runs once per client however the exit is noticed, and never     *)
(* leaves a request waiting: by then every callback has run.               *)
ExitSettles ==
  /\ exitCalls = (IF exited THEN 1 ELSE 0)
  /\ exited \/ freed => pending = {}
  /\ exited => ~alive

(* Between the moment the owner is told that the adapter is gone and the   *)
(* end, at most the one event whose read was already outstanding arrives.  *)
OneLateEvent == lateEvents <= 1

(* While the adapter listens the writer is never idle with something to    *)
(* write.                                                                  *)
WriterNeverIdle ==
  proc = "running" /\ outOpen /\ ~freed /\ writeQueue # <<>> => writing # <<>>

(* What every request is in terms of the ledger. *)
Status(c) ==
  IF c \in pending THEN "open"
  ELSE IF c > made THEN "unissued"
  ELSE IF fate[c] = "refused" THEN "failed"
  ELSE fate[c]

Ledger == INSTANCE RequestLedger
  WITH Requests <- Calls, status <- [c \in Calls |-> Status(c)], calls <- calls

(* The client keeps the promise of IdeDapResponseCb: the callback of each  *)
(* request runs once, with the answer or an error, or never because the    *)
(* client was freed.                                                       *)
KeepsLedger == Ledger!Spec

(* "Kills the adapter process / closes the streams" (ide_dap_client.h):    *)
(* after ide_dap_client_stop the owner of an adapter process hears of its  *)
(* end.  (GIO refuses to close a socket while a write is outstanding.)     *)
StopOfProcessIsHeard == transport = "process" /\ started /\ ~alive ~> exited \/ freed
=============================================================================
