------------------------------ MODULE LspClient ------------------------------
(***************************************************************************)
(* One language-server client (src/ide/ide_lsp_client.c) and its server    *)
(* process.  Every action of the client is one callback of the GLib main   *)
(* loop or one call of its owner (IdeLspManager in src/ide/ide_lsp.c); the *)
(* server, a separate process, is external.                                *)
(*                                                                         *)
(* A read may deliver several messages, which drain_rx handles in a row:   *)
(* the same as one read per message, which is how it is modelled.          *)
(* Notifications of the server reach the owner and leave the client as it  *)
(* is; they are left out.                                                  *)
(***************************************************************************)
EXTENDS FramedWriter, Naturals, FiniteSets

CONSTANTS
  MaxCalls,     \* bound on the requests and notifications the owner issues
  MaxAsks,      \* bound on the requests of the server
  ClosesEarly   \* may the server close its output and go on running?

ASSUME LspClientAssumption ==
  MaxCalls \in Nat /\ MaxAsks \in Nat /\ ClosesEarly \in BOOLEAN

(* The owner's requests and notifications, numbered in the order they are  *)
(* issued.  0 is the client's own `initialize`.                            *)
Calls == 1 .. MaxCalls

Kinds == {"initialize", "initialized", "request", "notify", "cancel", "reply",
          "shutdown", "exit"}
Message == [kind : Kinds, ref : 0 .. MaxCalls]
Msg(kind, ref) == [kind |-> kind, ref |-> ref]

Fates == {"none", "answered", "failed", "refused", "dropped"}

VARIABLES
  cstate,      \* IdeLspClientState, and "FREED" after ide_lsp_client_free
  pending,     \* the requests whose callback is registered
  preinit,     \* preinit_queue
  exited, killTimer,
  reading,     \* a read of the server's output is outstanding
  accepted,    \* how many calls of the owner were taken
  asked,       \* history: those that were requests
  fate, calls, \* history: how each request ended, how often its callback ran
  \* the server (external)
  proc,        \* "none", "running", "exited"
  outputOpen,  \* has it kept its output open?
  fromServer,
  readUpTo,    \* how many messages it has read
  owed,        \* the requests it has read and not answered
  asks         \* how many requests of its own it has sent

clientVars == <<cstate, pending, preinit, exited, killTimer, reading>>
historyVars == <<accepted, asked, fate, calls>>
serverVars == <<proc, outputOpen, fromServer, readUpTo, owed, asks>>
vars == <<clientVars, historyVars, serverVars, writerVars>>

Init ==
  /\ cstate = "IDLE" /\ pending = {} /\ preinit = <<>>
  /\ exited = FALSE /\ killTimer = FALSE /\ reading = FALSE
  /\ accepted = 0 /\ asked = {}
  /\ fate = [c \in Calls |-> "none"] /\ calls = [c \in Calls |-> 0]
  /\ proc = "none" /\ outputOpen = FALSE /\ fromServer = <<>>
  /\ readUpTo = 0 /\ owed = {} /\ asks = 0
  /\ WriterInit

-----------------------------------------------------------------------------
(* Callbacks.  `ended` are requests whose callback runs with outcome `how`;*)
(* `refused` are requests issued to a stopped client: they fail at once.   *)
RunCallbacks(ended, how, refused) ==
  /\ fate' = [c \in Calls |->
                IF c \in ended THEN how ELSE IF c \in refused THEN "refused" ELSE fate[c]]
  /\ calls' = [c \in Calls |->
                 IF c \in ended \cup refused THEN calls[c] + 1 ELSE calls[c]]

NoCallback == UNCHANGED historyVars

NewCalls(n) == accepted + 1 .. accepted + n

(* fail_all_pending, in the STOPPED state: the callbacks run after the     *)
(* table was emptied, and those that issue new requests are refused.  The  *)
(* callback of `initialize` calls ide_lsp_client_stop, which returns.      *)
FailAllPending ==
  LET ended == pending \ {0} IN
  \E n \in 0 .. Cardinality(ended) :
    /\ accepted + n <= MaxCalls
    /\ pending' = {}
    /\ accepted' = accepted + n
    /\ asked' = asked \cup NewCalls(n)
    /\ RunCallbacks(ended, "failed", NewCalls(n))

(* set_state(STOPPED): nothing the second time. *)
BecomeStopped ==
  /\ cstate' = "STOPPED"
  /\ IF cstate = "STOPPED" THEN pending' = pending /\ NoCallback ELSE FailAllPending

-----------------------------------------------------------------------------
(* ide_lsp_client_start: `initialize` is the first message that is written,*)
(* whatever was queued before.                                             *)
Start ==
  /\ cstate = "IDLE"
  /\ cstate' = "STARTING"
  /\ proc' = "running" /\ outputOpen' = TRUE /\ reading' = TRUE
  /\ pending' = pending \cup {0}
  /\ Send(<<Msg("initialize", 0)>>)
  /\ UNCHANGED <<preinit, exited, killTimer, fromServer, readUpTo, owed, asks>>
  /\ NoCallback

SpawnFails ==
  /\ cstate = "IDLE"
  /\ BecomeStopped
  /\ SendsNothing
  /\ UNCHANGED <<preinit, exited, killTimer, reading, serverVars>>

(* Fault: the queue is filled from the wrong end. *)
SendOrQueueFirst(message) ==
  IF cstate = "READY"
  THEN preinit' = preinit /\ Send(<<message>>)
  ELSE preinit' = <<message>> \o preinit /\ SendsNothing

(* A message of the owner is written once the server is ready and waits in *)
(* preinit_queue until then.                                               *)
SendOrQueue(message) ==
  IF cstate = "READY"
  THEN preinit' = preinit /\ Send(<<message>>)
  ELSE preinit' = Append(preinit, message) /\ SendsNothing

(* Fault: a stopped client queues the request like one that is starting. *)
RequestAlwaysAccepted ==
  /\ cstate # "FREED" /\ accepted < MaxCalls
  /\ accepted' = accepted + 1
  /\ asked' = asked \cup {accepted + 1}
  /\ pending' = pending \cup {accepted + 1}
  /\ SendOrQueue(Msg("request", accepted + 1))
  /\ UNCHANGED <<fate, calls>>
  /\ UNCHANGED <<cstate, exited, killTimer, reading, serverVars>>

(* ide_lsp_client_request. *)
Request ==
  /\ cstate # "FREED" /\ accepted < MaxCalls
  /\ accepted' = accepted + 1
  /\ asked' = asked \cup {accepted + 1}
  /\ IF cstate = "STOPPED"
     THEN RunCallbacks({}, "failed", {accepted + 1}) /\ SendsNothing
          /\ UNCHANGED <<pending, preinit>>
     ELSE /\ pending' = pending \cup {accepted + 1}
          /\ SendOrQueue(Msg("request", accepted + 1))
          /\ UNCHANGED <<fate, calls>>
  /\ UNCHANGED <<cstate, exited, killTimer, reading, serverVars>>

(* ide_lsp_client_notify: dropped by a stopped client. *)
Notify ==
  /\ cstate \in {"IDLE", "STARTING", "READY"} /\ accepted < MaxCalls
  /\ accepted' = accepted + 1
  /\ SendOrQueue(Msg("notify", accepted + 1))
  /\ UNCHANGED <<cstate, pending, exited, killTimer, reading, asked, fate, calls,
                 serverVars>>

(* ide_lsp_client_cancel: drops the callback.  A request still in          *)
(* preinit_queue stays there and the server is not told.                   *)
Cancel(c) ==
  /\ cstate # "FREED" /\ c \in pending \ {0}
  /\ pending' = pending \ {c}
  /\ fate' = [fate EXCEPT ![c] = "dropped"]
  /\ IF cstate = "READY" THEN Send(<<Msg("cancel", c)>>) ELSE SendsNothing
  /\ UNCHANGED <<cstate, preinit, exited, killTimer, reading, accepted, asked, calls,
                 serverVars>>

-----------------------------------------------------------------------------
(* Fault: nothing forces the server to go once it was asked to. *)
StopOnlyAsks ==
  /\ cstate \in {"IDLE", "STARTING", "READY"}
  /\ BecomeStopped
  /\ IF cstate = "READY"
     THEN Send(<<Msg("shutdown", 0), Msg("exit", 0)>>) /\ UNCHANGED <<killTimer, proc>>
     ELSE /\ SendsNothing /\ killTimer' = killTimer
          /\ proc' = IF proc = "running" THEN "exited" ELSE proc
  /\ outputOpen' = (outputOpen /\ proc' = "running")
  /\ UNCHANGED <<preinit, exited, reading, fromServer, readUpTo, owed, asks>>

(* ide_lsp_client_stop: a ready server is asked to leave and killed after a*)
(* grace period; one that never answered `initialize` is killed.           *)
Stop ==
  /\ cstate \in {"IDLE", "STARTING", "READY"}
  /\ BecomeStopped
  /\ IF cstate = "READY"
     THEN Send(<<Msg("shutdown", 0), Msg("exit", 0)>>) /\ killTimer' = TRUE /\ proc' = proc
     ELSE /\ SendsNothing /\ killTimer' = killTimer
          /\ proc' = IF proc = "running" THEN "exited" ELSE proc
  /\ outputOpen' = (outputOpen /\ proc' = "running")
  /\ UNCHANGED <<preinit, exited, reading, fromServer, readUpTo, owed, asks>>

(* on_kill_grace_elapsed. *)
KillGraceElapsed ==
  /\ cstate # "FREED" /\ killTimer
  /\ killTimer' = FALSE
  /\ proc' = "exited" /\ outputOpen' = FALSE
  /\ UNCHANGED <<cstate, pending, preinit, exited, reading, historyVars, writerVars,
                 fromServer, readUpTo, owed, asks>>

(* ide_lsp_client_free: no callback runs; the read and the wait are        *)
(* cancelled, and so is a write, whose completion is still to come.        *)
Free ==
  /\ cstate # "FREED"
  /\ cstate' = "FREED"
  /\ pending' = {} /\ preinit' = <<>> /\ writeQueue' = <<>>
  /\ killTimer' = FALSE /\ reading' = FALSE
  /\ fate' = [c \in Calls |-> IF c \in pending THEN "dropped" ELSE fate[c]]
  /\ proc' = (IF proc = "none" THEN "none" ELSE "exited") /\ outputOpen' = FALSE
  /\ UNCHANGED <<exited, accepted, asked, calls, writing, out, fromServer, readUpTo,
                 owed, asks>>

-----------------------------------------------------------------------------
(* Fault: the queued messages overtake `initialized`. *)
InitializeAnsweredFlushesFirst ==
  /\ cstate' = "READY"
  /\ preinit' = <<>>
  /\ pending' = pending \ {0}
  /\ Send(Append(preinit, Msg("initialized", 0)))
  /\ UNCHANGED <<historyVars, proc, outputOpen>>

(* on_initialize_response.  The owner's state callback, which runs before  *)
(* preinit_queue is flushed, sends nothing (on_client_state).              *)
InitializeAnswered ==
  /\ cstate' = "READY"
  /\ preinit' = <<>>
  /\ pending' = pending \ {0}
  /\ Send(<<Msg("initialized", 0)>> \o preinit)
  /\ UNCHANGED <<historyVars, proc, outputOpen>>

(* The same with an error: ide_lsp_client_stop kills the process. *)
InitializeRefused ==
  /\ BecomeStopped
  /\ proc' = "exited" /\ outputOpen' = FALSE
  /\ preinit' = preinit
  /\ SendsNothing

(* Fault: the entry stays in the table. *)
AnswerRequestKeepsEntry(c, again) ==
  /\ RunCallbacks({c}, "answered", {})
  /\ pending' = pending /\ accepted' = accepted /\ asked' = asked /\ SendsNothing
  /\ UNCHANGED <<cstate, preinit, proc, outputOpen>>

(* handle_response of a request of the owner, whose callback may issue the *)
(* next one.                                                               *)
AnswerRequest(c, again) ==
  /\ RunCallbacks({c}, "answered", {})
  /\ IF again
     THEN /\ accepted < MaxCalls
          /\ accepted' = accepted + 1
          /\ asked' = asked \cup {accepted + 1}
          /\ pending' = (pending \ {c}) \cup {accepted + 1}
          /\ Send(<<Msg("request", accepted + 1)>>)
     ELSE pending' = pending \ {c} /\ SendsNothing /\ UNCHANGED <<accepted, asked>>
  /\ UNCHANGED <<cstate, preinit, proc, outputOpen>>

(* handle_message, from on_read_done.  An answer nobody waits for is       *)
(* ignored; a request of the server is replied to in every state.          *)
ReadMessage ==
  /\ reading /\ fromServer # <<>>
  /\ fromServer' = Tail(fromServer)
  /\ LET m == Head(fromServer) IN
     \/ /\ m.kind = "ask"
        /\ Send(<<Msg("reply", 0)>>)
        /\ UNCHANGED <<cstate, pending, preinit, historyVars, proc, outputOpen>>
     \/ /\ m.kind \in {"answer", "error"} /\ m.ref \notin pending
        /\ SendsNothing
        /\ UNCHANGED <<cstate, pending, preinit, historyVars, proc, outputOpen>>
     \/ m.kind = "answer" /\ m.ref = 0 /\ 0 \in pending /\ InitializeAnswered
     \/ m.kind = "error" /\ m.ref = 0 /\ 0 \in pending /\ InitializeRefused
     \/ /\ m.ref \in pending \ {0}
        /\ \E again \in BOOLEAN : AnswerRequest(m.ref, again)
  /\ UNCHANGED <<exited, killTimer, reading, readUpTo, owed, asks>>

(* on_read_done at the end of the server's output. *)
ReadEof ==
  /\ reading /\ fromServer = <<>> /\ ~outputOpen
  /\ reading' = FALSE
  /\ BecomeStopped
  /\ SendsNothing
  /\ UNCHANGED <<preinit, exited, killTimer, serverVars>>

(* on_process_exited; the output may still hold unread messages. *)
ProcessExited ==
  /\ cstate # "FREED" /\ proc = "exited" /\ ~exited
  /\ exited' = TRUE
  /\ BecomeStopped
  /\ SendsNothing
  /\ UNCHANGED <<preinit, killTimer, reading, serverVars>>

(* The completion of the write in flight.  A pipe takes the message, or    *)
(* fails once nobody reads it.                                             *)
WriteCompletes ==
  /\ cstate # "FREED"
  /\ WriteDone \/ (proc = "exited" /\ WriteFails)
  /\ UNCHANGED <<clientVars, historyVars, serverVars>>

(* The completion of the write that free cancelled.                        *)
CancelledWriteCompletes ==
  /\ cstate = "FREED"
  /\ WriteFails
  /\ UNCHANGED <<clientVars, historyVars, serverVars>>

-----------------------------------------------------------------------------
(* The server, as far as the client can tell. *)
ServerReads ==
  /\ proc = "running" /\ readUpTo < Len(out)
  /\ readUpTo' = readUpTo + 1
  /\ LET m == out[readUpTo + 1] IN
     owed' = IF m.kind \in {"initialize", "request"} THEN owed \cup {m.ref} ELSE owed
  /\ UNCHANGED <<clientVars, historyVars, writerVars, proc, outputOpen, fromServer, asks>>

ServerAnswers ==
  /\ proc = "running" /\ outputOpen
  /\ \E r \in owed, kind \in {"answer", "error"} :
       /\ owed' = owed \ {r}
       /\ fromServer' = Append(fromServer, Msg(kind, r))
  /\ UNCHANGED <<clientVars, historyVars, writerVars, proc, outputOpen, readUpTo, asks>>

ServerAsks ==
  /\ proc = "running" /\ outputOpen /\ asks < MaxAsks
  /\ asks' = asks + 1
  /\ fromServer' = Append(fromServer, Msg("ask", 0))
  /\ UNCHANGED <<clientVars, historyVars, writerVars, proc, outputOpen, readUpTo, owed>>

ServerExits ==
  /\ proc = "running"
  /\ proc' = "exited" /\ outputOpen' = FALSE
  /\ UNCHANGED <<clientVars, historyVars, writerVars, fromServer, readUpTo, owed, asks>>

ServerClosesOutput ==
  /\ ClosesEarly /\ proc = "running" /\ outputOpen
  /\ outputOpen' = FALSE
  /\ UNCHANGED <<clientVars, historyVars, writerVars, proc, fromServer, readUpTo, owed, asks>>

-----------------------------------------------------------------------------
OwnerNext ==
  Start \/ SpawnFails \/ Request \/ Notify \/ (\E c \in Calls : Cancel(c)) \/ Stop \/ Free

LoopNext ==
  ReadMessage \/ ReadEof \/ ProcessExited \/ WriteCompletes \/ CancelledWriteCompletes
  \/ KillGraceElapsed

ServerNext ==
  ServerReads \/ ServerAnswers \/ ServerAsks \/ ServerExits \/ ServerClosesOutput

Next == OwnerNext \/ LoopNext \/ ServerNext

Spec == Init /\ [][Next]_vars

(* The main loop dispatches what is ready: completions, the end of the     *)
(* process, an expired timer.  Neither the owner nor the server has to do  *)
(* anything.                                                               *)
FairSpec ==
  Spec /\ WF_vars(ReadMessage \/ ReadEof) /\ WF_vars(ProcessExited)
       /\ WF_vars(WriteCompletes) /\ WF_vars(KillGraceElapsed)

-----------------------------------------------------------------------------
(* Type invariant: the values the variables of ide_lsp_client.c can have. *)
TypeOK ==
  /\ cstate \in {"IDLE", "STARTING", "READY", "STOPPED", "FREED"}
  /\ accepted \in 0 .. MaxCalls
  /\ asked \subseteq 1 .. accepted
  /\ pending \subseteq asked \cup {0}
  /\ {exited, killTimer, reading, outputOpen} \subseteq BOOLEAN
  /\ preinit \in Seq(Message) /\ Outgoing \in Seq(Message)
  /\ \A i \in DOMAIN preinit : preinit[i].ref <= accepted
  /\ Len(writing) <= 1
  /\ fate \in [Calls -> Fates] /\ calls \in [Calls -> Nat]
  /\ proc \in {"none", "running", "exited"}
  /\ readUpTo \in 0 .. Len(out)
  /\ asks \in 0 .. MaxAsks

(* Once the client is stopped or freed nobody waits for an answer any more,*)
(* whoever stopped it and whatever the callbacks of the failed requests    *)
(* asked for: fail_all_pending and ide_lsp_client_request agree.           *)
StoppedSettles == cstate \in {"STOPPED", "FREED"} => pending = {}

IsUserMessage(m) == m.kind \in {"request", "notify"}
CallMessage(c) == Msg(IF c \in asked THEN "request" ELSE "notify", c)

(* "Requests and notifications issued before the server finished           *)
(* `initialize` are queued and flushed, in order" (ide_lsp_client.h): what *)
(* the owner issued is on its way or waiting exactly once and in the order *)
(* of the calls, across preinit_queue, write_queue and the write in flight;*)
(* and a cancellation never overtakes the request it cancels.  (A write    *)
(* that failed because the server is gone loses its message.)              *)
InOrder ==
  /\ cstate # "FREED" /\ proc # "exited" =>
       LET said == Outgoing \o preinit IN
       /\ \A c \in 1 .. accepted :
            fate[c] # "refused" => \E i \in DOMAIN said : said[i] = CallMessage(c)
       /\ \A i \in DOMAIN said :
            IsUserMessage(said[i]) =>
              /\ said[i].ref \in 1 .. accepted /\ fate[said[i].ref] # "refused"
              /\ \A j \in 1 .. i - 1 : IsUserMessage(said[j]) => said[j].ref < said[i].ref
  /\ proc # "exited" =>
       \A i \in DOMAIN Outgoing :
         Outgoing[i].kind = "cancel" =>
           \E j \in 1 .. i - 1 : Outgoing[j] = Msg("request", Outgoing[i].ref)

Before(q, i, kind) == \E j \in 1 .. i - 1 : q[j].kind = kind

(* The conversation follows the protocol: `initialize`, `initialized`, the *)
(* owner's messages, `shutdown`, `exit`, and nothing of the owner after    *)
(* `exit`.  (Replies to the server's own requests may come at any point.)  *)
Grammatical(q, i) ==
  LET kind == q[i].kind IN
  /\ kind \in {"initialize", "initialized", "shutdown", "exit"} => ~Before(q, i, kind)
  /\ kind \notin {"reply", "initialize"} => Before(q, i, "initialize")
  /\ kind \notin {"reply", "initialize", "initialized"} => Before(q, i, "initialized")
  /\ kind = "exit" => Before(q, i, "shutdown")
  /\ Before(q, i, "shutdown") => kind \in {"exit", "reply"}

SessionGrammar ==
  proc # "exited" => \A i \in DOMAIN Outgoing : Grammatical(Outgoing, i)

(* While the server runs, a message a ready client accepted is in flight or*)
(* behind one that is: preinit_queue was emptied and the writer is never   *)
(* idle with something to write.                                           *)
NothingHeldBack ==
  /\ cstate = "READY" => preinit = <<>>
  /\ proc = "running" /\ writeQueue # <<>> => writing # <<>>

(* The server receives the messages in the order of the calls, `initialize`*)
(* and `initialized` first, and none stays behind in the queues            *)
(* (flush_preinit, pump_writer).                                           *)
MessagesFollow == TypeOK /\ InOrder /\ SessionGrammar /\ NothingHeldBack

(* What every request is in terms of the ledger. *)
Status(c) ==
  IF c \in pending THEN "open"
  ELSE IF c \notin asked THEN "unissued"
  ELSE IF fate[c] = "refused" THEN "failed"
  ELSE fate[c]

Ledger == INSTANCE RequestLedger
  WITH Requests <- Calls, status <- [c \in Calls |-> Status(c)], calls <- calls

(* The client keeps the promise of IdeLspResponseCb: the callback of each  *)
(* request runs once, with the answer or an error, or never because the    *)
(* request was cancelled or the client freed.                              *)
KeepsLedger == Ledger!Spec

(* "Sends shutdown + exit, then force-kills the process after a short      *)
(* grace" (ide_lsp_client.h): the server of a client that was stopped      *)
(* while its output was open goes away, whatever it does.                  *)
StoppedServerLeaves == cstate = "STOPPED" /\ outputOpen ~> proc # "running"
=============================================================================
