----------------------------- MODULE DapSession -----------------------------
(***************************************************************************)
(* The debug view of the IDE (src/ide/ide_dap.c) talking to one debug      *)
(* adapter through its client (src/ide/ide_dap_client.c).                  *)
(*                                                                         *)
(* The view runs on the GLib main loop: every action below is one callback *)
(* of that loop, run to completion.  The adapter is another process; it is *)
(* joined to the view by two FIFO channels (its stdin and stdout, or a     *)
(* socket for Java).  The view invalidates the answers of an earlier       *)
(* session with a generation number that every request remembers.          *)
(*                                                                         *)
(* The transport below the channels (framing, the write queue, the table   *)
(* of pending requests) is DapClient.  Of the chain of commands before a   *)
(* Java session (src/ide/ide_dap_java.c) only the end is modelled.         *)
(***************************************************************************)
EXTENDS Naturals, Sequences, FiniteSets

CONSTANTS
  Lines,         \* lines of the source file a breakpoint can be set on
  NFrames,       \* depth of every non-empty call stack
  Sourced,       \* the frames whose source file exists and can be shown
  Kinds,         \* the adapters the launch configuration may resolve to
  MayFail,       \* the requests the adapter may refuse
  SaysContinued, \* does the adapter announce a resumption with `continued`?
  MaxSessions,   \* bound on session starts
  MaxStops,      \* bound on the times the debuggee stops
  MaxOps         \* bound on the user's other operations

Frames == 1 .. NFrames

ASSUME ConstantsAssumption ==
  /\ NFrames \in Nat \ {0}
  /\ Sourced \subseteq Frames
  /\ Kinds \subseteq {"process", "socket"}
  /\ SaysContinued \in BOOLEAN
  /\ MaxSessions \in Nat /\ MaxStops \in Nat /\ MaxOps \in Nat

(* Requests whose answer fills the stack, the locals or the marker. *)
UiKinds == {"stackTrace", "scopes", "variables"}

RequestKinds ==
  UiKinds \cup
  {"initialize", "launch", "setBreakpoints", "setExceptionBreakpoints",
   "configurationDone", "resume", "pause", "evaluate", "disconnect"}

(* What is on screen: a frame of the epoch-th stop of the debuggee. *)
Shown  == [epoch : Nat, frame : 0 .. NFrames]
Nothing == [epoch |-> 0, frame |-> 0]

Request  == [seq : Nat, kind : RequestKinds, frame : 0 .. NFrames,
             marks : SUBSET Lines]
Pending  == [seq : Nat, kind : RequestKinds, gen : Nat]
Message  == [type : {"response", "initialized", "stopped", "continued", "terminated"},
             seq : Nat, ok : BOOLEAN, body : Shown]

States == {"IDLE", "STARTING", "RUNNING", "STOPPED", "ENDED"}
Active == {"STARTING", "RUNNING", "STOPPED"}

VARIABLES
  \* the view
  state,       \* DapState
  gen,         \* generation
  stack,       \* the stop whose frames are listed; 0: the list is empty
  selected,    \* frame_id
  locals,      \* the frame whose variables are listed
  marker,      \* the frame the execution marker points at
  reported,    \* the console says that configurationDone failed in this
               \* generation
  bps,         \* the breakpoints set in the editor
  preps,       \* generations whose Java preparation has not called back yet
  \* the client
  client,      \* "none", or the kind of adapter behind dap->client
  alive, exited,
  reading,     \* a read of the adapter's output is outstanding
  outOpen,     \* the stream to the adapter is open
  pending,     \* requests whose callback has not run
  nextSeq,
  \* the channels
  toAdapter, fromAdapter,
  \* the adapter (external)
  adapter,     \* "none", "up", "dead"
  debuggee,    \* "none", "running", "stopped", "ended"
  launch,      \* seq of the launch request waiting for its answer; 0: none
  ready,       \* what has happened: subset of {"init", "launched", "configured"}
  epoch,       \* how often the debuggee has stopped
  abps,        \* the breakpoints the adapter knows
  \* bounds and history
  sessions, ops,
  startToggles \* breakpoints toggled while this session was STARTING

viewVars    == <<state, gen, stack, selected, locals, marker, reported>>
clientVars  == <<client, alive, exited, reading, outOpen, pending, nextSeq>>
adapterVars == <<adapter, debuggee, launch, ready, epoch, abps>>
boundVars   == <<sessions, ops, startToggles>>
vars == <<viewVars, bps, preps, clientVars, toAdapter, fromAdapter, adapterVars, boundVars>>

-----------------------------------------------------------------------------
(* ide_dap_client_request: remember the callback with the generation it    *)
(* was issued under and queue the message.  After the adapter exited the   *)
(* callback fails on the spot, which no callback of the view turns into a  *)
(* state change once the session is up.  `table` is the table of pending   *)
(* requests the request is added to, `g` the generation of the token.      *)
(***************************************************************************)
Req(kind, frame, marks) == [kind |-> kind, frame |-> frame, marks |-> marks]

Issue(reqs, table, g) ==
  IF exited
  THEN pending' = table /\ UNCHANGED <<nextSeq, toAdapter>>
  ELSE /\ pending' = table \cup
            {[seq |-> nextSeq + i - 1, kind |-> reqs[i].kind, gen |-> g] : i \in DOMAIN reqs}
       /\ nextSeq' = nextSeq + Len(reqs)
       /\ toAdapter' =
            IF adapter = "up" /\ outOpen
            THEN toAdapter \o
                 [i \in DOMAIN reqs |->
                    [seq |-> nextSeq + i - 1, kind |-> reqs[i].kind,
                     frame |-> reqs[i].frame, marks |-> reqs[i].marks]]
            ELSE toAdapter

(* A step that sends nothing but changes the table. *)
Settle(table) == pending' = table /\ UNCHANGED <<nextSeq, toAdapter>>

(* ide_dap_client_stop: a process is killed; of a socket only the output   *)
(* side is closed, and the close is refused while a write is in flight.    *)
StopClient ==
  /\ alive' = FALSE
  /\ \/ client = "process" /\ adapter' = "dead" /\ UNCHANGED outOpen
     \/ client = "socket" /\ outOpen' \in {FALSE, outOpen} /\ UNCHANGED adapter
     \/ client = "none" /\ UNCHANGED <<adapter, outOpen>>

ClearStoppedUi == stack' = 0 /\ locals' = Nothing /\ marker' = Nothing

(* end_session on an active session: clear what is shown, invalidate the   *)
(* answers still to come, stop the client.                                 *)
EndActive ==
  /\ state' = "ENDED"
  /\ gen' = gen + 1 /\ reported' = FALSE
  /\ ClearStoppedUi
  /\ UNCHANGED selected
  /\ StopClient

(* end_session: nothing to do unless the session is active. *)
EndSession ==
  \/ state \in Active /\ EndActive
  \/ state \notin Active /\ UNCHANGED <<viewVars, alive, adapter, outOpen>>

-----------------------------------------------------------------------------
Init ==
  /\ state = "IDLE" /\ gen = 0 /\ stack = 0 /\ selected = 0
  /\ locals = Nothing /\ marker = Nothing /\ reported = FALSE
  /\ bps \in SUBSET Lines /\ preps = {}
  /\ client = "none" /\ alive = FALSE /\ exited = FALSE /\ reading = FALSE
  /\ outOpen = FALSE /\ pending = {} /\ nextSeq = 1
  /\ toAdapter = <<>> /\ fromAdapter = <<>>
  /\ adapter = "none" /\ debuggee = "none" /\ launch = 0 /\ ready = {}
  /\ epoch = 0 /\ abps = {}
  /\ sessions = 0 /\ ops = 0 /\ startToggles = 0

(* The state of a client that has just been created, with its adapter, for *)
(* a session of generation g: begin_handshake has sent `initialize`.       *)
FreshClient(kind, g) ==
  /\ client' = kind /\ alive' = TRUE /\ exited' = FALSE /\ reading' = TRUE
  /\ outOpen' = TRUE
  /\ pending' = {[seq |-> 1, kind |-> "initialize", gen |-> g]}
  /\ nextSeq' = 2
  /\ toAdapter' = <<[seq |-> 1, kind |-> "initialize", frame |-> 0, marks |-> {}]>>
  /\ fromAdapter' = <<>>
  /\ adapter' = "up" /\ debuggee' = "none" /\ launch' = 0 /\ ready' = {}
  /\ abps' = {}
  /\ UNCHANGED epoch

(* dap->client is NULL: the old client was stopped and freed, and with it  *)
(* every callback it held.                                                 *)
NoClient ==
  /\ client' = "none" /\ alive' = FALSE /\ exited' = FALSE /\ reading' = FALSE
  /\ outOpen' = FALSE /\ pending' = {} /\ nextSeq' = 1
  /\ toAdapter' = <<>> /\ fromAdapter' = <<>>
  /\ adapter' = "none" /\ debuggee' = "none" /\ launch' = 0 /\ ready' = {}
  /\ abps' = {}
  /\ UNCHANGED epoch

(* ide_dap_view_start_session, also reached from F5 (continue): refused    *)
(* while a session is active, otherwise the old client is torn down first. *)
CanStart == state \notin Active /\ sessions < MaxSessions

StartProcess ==
  /\ CanStart /\ "process" \in Kinds
  /\ gen' = gen + 2 /\ reported' = FALSE
  /\ state' = "STARTING"
  /\ FreshClient("process", gen + 2)
  /\ sessions' = sessions + 1 /\ startToggles' = 0
  /\ UNCHANGED <<stack, selected, locals, marker, bps, preps, ops>>

(* start_java_session: no client yet, the language server prepares one. *)
StartJava ==
  /\ CanStart /\ "socket" \in Kinds
  /\ gen' = gen + 2 /\ reported' = FALSE
  /\ state' = "STARTING"
  /\ NoClient
  /\ preps' = preps \cup {gen + 2}
  /\ sessions' = sessions + 1 /\ startToggles' = 0
  /\ UNCHANGED <<stack, selected, locals, marker, bps, ops>>

(* No launch configuration, or the adapter cannot be spawned. *)
StartFails ==
  /\ CanStart
  /\ gen' = gen + 1 /\ reported' = FALSE
  /\ NoClient
  /\ sessions' = sessions + 1 /\ startToggles' = 0
  /\ UNCHANGED <<state, stack, selected, locals, marker, bps, preps, ops>>

(* Fault: a late preparation is accepted whenever some session is starting. *)
CurrentWithoutGeneration(g) == state = "STARTING"

(* on_java_ready: the preparation of generation g calls back.  Only the    *)
(* preparation of the session that is still starting may install a client. *)
Current(g) == g = gen /\ state = "STARTING"

JavaConnected(g) ==
  /\ g \in preps /\ Current(g)
  /\ preps' = preps \ {g}
  /\ FreshClient("socket", g)
  /\ UNCHANGED <<viewVars, bps, boundVars>>

JavaFailed(g) ==
  /\ g \in preps /\ Current(g)
  /\ preps' = preps \ {g}
  /\ EndActive
  /\ UNCHANGED <<bps, client, exited, reading, pending, nextSeq, toAdapter, fromAdapter,
                 debuggee, launch, ready, epoch, abps, boundVars>>

JavaStale(g) ==
  /\ g \in preps /\ ~Current(g)
  /\ preps' = preps \ {g}
  /\ UNCHANGED <<viewVars, bps, clientVars, toAdapter, fromAdapter, adapterVars, boundVars>>

-----------------------------------------------------------------------------
(* The user's other operations. *)

UserStep == ops < MaxOps /\ ops' = ops + 1

(* Fault: a paused session is not told. *)
ToggleOnlyWhenRunning(l) ==
  /\ UserStep
  /\ bps' = IF l \in bps THEN bps \ {l} ELSE bps \cup {l}
  /\ \/ state = "RUNNING" /\ Issue(<<Req("setBreakpoints", 0, bps')>>, pending, gen)
     \/ state # "RUNNING" /\ Settle(pending)
  /\ startToggles' = IF state = "STARTING" THEN startToggles + 1 ELSE startToggles
  /\ UNCHANGED <<viewVars, preps, client, alive, exited, reading, outOpen,
                 fromAdapter, adapterVars, sessions>>

(* IDE_ACTION_DAP_TOGGLE_BREAKPOINT and ide_dap_view_breakpoints_changed:  *)
(* the whole set is sent again, but only to a running or stopped session.  *)
ToggleBreakpoint(l) ==
  /\ UserStep
  /\ bps' = IF l \in bps THEN bps \ {l} ELSE bps \cup {l}
  /\ \/ /\ state \in {"RUNNING", "STOPPED"}
        /\ Issue(<<Req("setBreakpoints", 0, bps')>>, pending, gen)
     \/ /\ state \notin {"RUNNING", "STOPPED"}
        /\ Settle(pending)
  /\ startToggles' = IF state = "STARTING" THEN startToggles + 1 ELSE startToggles
  /\ UNCHANGED <<viewVars, preps, client, alive, exited, reading, outOpen,
                 fromAdapter, adapterVars, sessions>>

(* A request of the user that changes nothing in the view: continue and    *)
(* the three steps ("resume"), the REPL ("evaluate"), and pause.           *)
SendControl(kind) ==
  /\ UserStep
  /\ Issue(<<Req(kind, 0, {})>>, pending, gen)
  /\ UNCHANGED <<viewVars, bps, preps, client, alive, exited, reading, outOpen,
                 fromAdapter, adapterVars, sessions, startToggles>>

Control(kind) ==
  /\ kind \in {"resume", "evaluate"}
  /\ state = "STOPPED" /\ client # "none"
  /\ SendControl(kind)

Pause ==
  /\ state = "RUNNING" /\ client # "none"
  /\ SendControl("pause")

(* select_frame: the marker moves only to a frame whose source is known.   *)
SelectFrame(f, shown) ==
  /\ selected' = f
  /\ marker' = IF f \in Sourced THEN [epoch |-> shown, frame |-> f] ELSE marker

(* on_stack_row_activated *)
SelectRow(f) ==
  /\ UserStep
  /\ state = "STOPPED" /\ stack # 0
  /\ SelectFrame(f, stack)
  /\ Issue(<<Req("scopes", f, {})>>, pending, gen)
  /\ UNCHANGED <<state, gen, stack, locals, reported, bps, preps, client, alive, exited,
                 reading, outOpen, fromAdapter, adapterVars, sessions, startToggles>>

(* ide_dap_view_stop: `disconnect` is queued for a live client, then the   *)
(* session ends, which kills a process before it can read it.              *)
Stop ==
  /\ state \in Active
  /\ \/ client # "none" /\ alive /\ Issue(<<Req("disconnect", 0, {})>>, pending, gen)
     \/ ~(client # "none" /\ alive) /\ Settle(pending)
  /\ EndActive
  /\ UNCHANGED <<bps, preps, client, exited, reading, fromAdapter,
                 debuggee, launch, ready, epoch, abps, boundVars>>

-----------------------------------------------------------------------------
(* Reading the adapter's output: on_read_done, drain_rx, handle_message.   *)
(* Chunks of one message give every interleaving larger chunks give.  A    *)
(* read that completes after the client learnt of the exit still handles   *)
(* its first message; then no further read is started.                     *)

Receive ==
  /\ client # "none" /\ reading /\ fromAdapter # <<>>
  /\ fromAdapter' = Tail(fromAdapter)
  /\ reading' = ~exited

Incoming == Head(fromAdapter)

HandlerFrame == UNCHANGED <<bps, preps, client, exited, debuggee, launch, ready, epoch,
                            abps, boundVars>>

(* A message that changes nothing in the view but consumes the request it  *)
(* answers, if any.                                                        *)
Quietly(table) ==
  /\ Settle(table)
  /\ UNCHANGED <<viewVars, alive, adapter, outOpen>>
  /\ HandlerFrame

(* Fault: answers are accepted as long as there is a client. *)
TokenNeverExpires(p) == client # "none"

(* The pending request an incoming response answers, and whether the token *)
(* of its callback is still valid.                                         *)
Answers(p) == Incoming.type = "response" /\ Incoming.seq = p.seq
TokenValid(p) == p.gen = gen /\ client # "none"
Without(p) == pending \ {p}

(* A response nobody waits for. *)
OnUnknownResponse ==
  /\ Receive
  /\ Incoming.type = "response" /\ \A p \in pending : p.seq # Incoming.seq
  /\ Quietly(pending)

(* What the callbacks act on; every other response changes nothing. *)
Effective(p) ==
  /\ TokenValid(p)
  /\ \/ p.kind \in {"initialize", "stackTrace", "scopes", "variables"} /\ Incoming.ok
     \/ p.kind \in {"initialize", "launch"} /\ ~Incoming.ok
     \/ p.kind = "configurationDone" /\ (Incoming.ok => state = "STARTING")

OnIgnoredResponse ==
  \E p \in pending :
    /\ Receive
    /\ Answers(p) /\ ~Effective(p)
    /\ Quietly(Without(p))

(* on_initialize_response, success: send the launch (or attach) request.   *)
OnInitialized ==
  \E p \in pending :
    /\ Receive
    /\ Answers(p) /\ p.kind = "initialize" /\ TokenValid(p) /\ Incoming.ok
    /\ Issue(<<Req("launch", 0, {})>>, Without(p), gen)
    /\ UNCHANGED <<viewVars, alive, adapter, outOpen>>
    /\ HandlerFrame

(* Fault: a refused start is only reported. *)
StartRefusedIsReported ==
  \E p \in pending :
    /\ Receive
    /\ Answers(p) /\ p.kind \in {"initialize", "launch"} /\ ~Incoming.ok
    /\ Quietly(Without(p))

(* on_initialize_response and on_launch_response, failure. *)
OnStartRefused ==
  \E p \in pending :
    /\ Receive
    /\ Answers(p) /\ p.kind \in {"initialize", "launch"} /\ TokenValid(p) /\ ~Incoming.ok
    /\ EndSession
    /\ Settle(Without(p))
    /\ HandlerFrame

(* Fault: the answer to configurationDone overrides a stop it crossed. *)
ConfigDoneAlwaysRuns ==
  \E p \in pending :
    /\ Receive
    /\ Answers(p) /\ p.kind = "configurationDone" /\ p.gen = gen /\ Incoming.ok
    /\ state' = "RUNNING"
    /\ Settle(Without(p))
    /\ UNCHANGED <<gen, stack, selected, locals, marker, reported, alive, adapter, outOpen>>
    /\ HandlerFrame

(* on_config_done: a session that is still starting is now running. *)
OnConfigDone ==
  \E p \in pending :
    /\ Receive
    /\ Answers(p) /\ p.kind = "configurationDone" /\ TokenValid(p) /\ Incoming.ok
    /\ state = "STARTING"
    /\ state' = "RUNNING"
    /\ Settle(Without(p))
    /\ UNCHANGED <<gen, stack, selected, locals, marker, reported, alive, adapter, outOpen>>
    /\ HandlerFrame

(* on_config_done, failure: a line in the console is all that changes.  A   *)
(* session that was starting stays in STARTING.                            *)
OnConfigRefused ==
  \E p \in pending :
    /\ Receive
    /\ Answers(p) /\ p.kind = "configurationDone" /\ TokenValid(p) /\ ~Incoming.ok
    /\ reported' = TRUE
    /\ Settle(Without(p))
    /\ UNCHANGED <<state, gen, stack, selected, locals, marker, alive, adapter, outOpen>>
    /\ HandlerFrame

(* on_stack_trace: list the frames and select the first whose source       *)
(* exists (the innermost when none does); an empty stack selects nothing.  *)
Preferred == IF Sourced = {} THEN 1 ELSE CHOOSE f \in Sourced : \A g \in Sourced : f <= g

OnStackTrace ==
  \E p \in pending :
    /\ Receive
    /\ Answers(p) /\ p.kind = "stackTrace" /\ TokenValid(p) /\ Incoming.ok
    /\ stack' = Incoming.body.epoch
    /\ \/ /\ stack' # 0
          /\ SelectFrame(Preferred, stack')
          /\ Issue(<<Req("scopes", Preferred, {})>>, Without(p), gen)
       \/ /\ stack' = 0
          /\ Settle(Without(p))
          /\ UNCHANGED <<selected, marker>>
    /\ UNCHANGED <<state, gen, locals, reported, alive, adapter, outOpen>>
    /\ HandlerFrame

(* on_scopes: ask for the variables of the first cheap scope, if any. *)
OnScopes ==
  \E p \in pending :
    /\ Receive
    /\ Answers(p) /\ p.kind = "scopes" /\ TokenValid(p) /\ Incoming.ok
    /\ \/ /\ Incoming.body # Nothing
          /\ Issue(<<Req("variables", Incoming.body.frame, {})>>, Without(p), gen)
       \/ /\ Incoming.body = Nothing
          /\ Settle(Without(p))
    /\ UNCHANGED <<viewVars, alive, adapter, outOpen>>
    /\ HandlerFrame

(* on_variables: the list is replaced. *)
OnVariables ==
  \E p \in pending :
    /\ Receive
    /\ Answers(p) /\ p.kind = "variables" /\ TokenValid(p) /\ Incoming.ok
    /\ locals' = Incoming.body
    /\ Settle(Without(p))
    /\ UNCHANGED <<state, gen, stack, selected, marker, reported, alive, adapter, outOpen>>
    /\ HandlerFrame

(* on_dap_event_dispatch: `initialized` sends the configuration, whatever  *)
(* the state of the session.                                               *)
OnInitializedEvent ==
  /\ Receive /\ Incoming.type = "initialized"
  /\ Issue(<<Req("setBreakpoints", 0, bps), Req("setExceptionBreakpoints", 0, {}),
             Req("configurationDone", 0, {})>>, pending, gen)
  /\ UNCHANGED <<viewVars, alive, adapter, outOpen>>
  /\ HandlerFrame

(* on_dap_event: `stopped` pauses the session and asks for the stack ... *)
OnStopped ==
  /\ Receive /\ Incoming.type = "stopped"
  /\ state' = "STOPPED"
  /\ Issue(<<Req("stackTrace", 0, {})>>, pending, gen)
  /\ UNCHANGED <<gen, stack, selected, locals, marker, reported, alive, adapter, outOpen>>
  /\ HandlerFrame

(* ... `continued` resumes it and clears what was shown ... *)
OnContinued ==
  /\ Receive /\ Incoming.type = "continued"
  /\ state' = "RUNNING"
  /\ ClearStoppedUi
  /\ Settle(pending)
  /\ UNCHANGED <<gen, selected, reported, alive, adapter, outOpen>>
  /\ HandlerFrame

(* ... and `terminated` ends it. *)
OnTerminated ==
  /\ Receive /\ Incoming.type = "terminated"
  /\ EndSession
  /\ Settle(pending)
  /\ HandlerFrame

(* mark_exited, once per client: every pending callback fails (the ones    *)
(* that can end the session do) and the exit callback ends the session.    *)
MarkExited ==
  \/ /\ ~exited
     /\ exited' = TRUE
     /\ Settle({})
     /\ \/ state \in Active /\ EndActive
        \/ state \notin Active /\ alive' = FALSE /\ UNCHANGED <<viewVars, adapter, outOpen>>
  \/ /\ exited
     /\ Settle(pending)
     /\ UNCHANGED <<viewVars, exited, alive, adapter, outOpen>>

(* on_read_done at the end of the adapter's output. *)
OnEof ==
  /\ client # "none" /\ reading /\ fromAdapter = <<>> /\ adapter = "dead"
  /\ MarkExited
  /\ reading' = FALSE
  /\ UNCHANGED <<bps, preps, client, fromAdapter, debuggee, launch, ready, epoch, abps,
                 boundVars>>

(* on_process_exited: the exit of the process may be noticed before the    *)
(* last of its output has been read.                                       *)
OnProcessExit ==
  /\ client = "process" /\ adapter = "dead" /\ ~exited
  /\ MarkExited
  /\ UNCHANGED <<bps, preps, client, reading, fromAdapter, debuggee, launch, ready, epoch,
                 abps, boundVars>>

-----------------------------------------------------------------------------
(* The adapter and the debuggee (external): what a DAP adapter may answer. *)
(* It serves its requests in order; a launch may be answered late.         *)

AdapterFrame == UNCHANGED <<viewVars, bps, preps, clientVars, boundVars>>

Response(seq, ok, body) ==
  [type |-> "response", seq |-> seq, ok |-> ok, body |-> body]
Event(type) == [type |-> type, seq |-> 0, ok |-> FALSE, body |-> Nothing]

Say(msgs) == fromAdapter' = fromAdapter \o msgs

Serving(kind) ==
  /\ adapter = "up" /\ toAdapter # <<>> /\ Head(toAdapter).kind = kind
  /\ toAdapter' = Tail(toAdapter)

Served == Head(toAdapter)

ServeRefused ==
  \E kind \in MayFail :
    /\ Serving(kind)
    /\ Say(<<Response(Served.seq, FALSE, Nothing)>>)
    /\ UNCHANGED adapterVars /\ AdapterFrame

ServeInitialize ==
  /\ Serving("initialize")
  /\ Say(<<Response(Served.seq, TRUE, Nothing)>>)
  /\ UNCHANGED adapterVars /\ AdapterFrame

ServeLaunch ==
  /\ Serving("launch")
  /\ launch' = Served.seq
  /\ UNCHANGED <<fromAdapter, adapter, debuggee, ready, epoch, abps>> /\ AdapterFrame

(* A launched debuggee runs once the adapter is configured too; the one    *)
(* of an `attach` runs already, and may stop before that.                  *)
AnswerLaunch ==
  /\ adapter = "up" /\ launch # 0
  /\ launch' = 0 /\ ready' = ready \cup {"launched"}
  /\ debuggee' \in IF "configured" \in ready THEN {"running"} ELSE {"none", "running"}
  /\ Say(<<Response(launch, TRUE, Nothing)>>)
  /\ UNCHANGED <<toAdapter, adapter, epoch, abps>> /\ AdapterFrame

(* gdb reports a program it cannot launch only now. *)
RefuseLaunchLate ==
  /\ adapter = "up" /\ launch # 0 /\ "launch" \in MayFail
  /\ launch' = 0
  /\ Say(<<Response(launch, FALSE, Nothing)>>)
  /\ UNCHANGED <<toAdapter, adapter, debuggee, ready, epoch, abps>> /\ AdapterFrame

AnnounceInitialized ==
  /\ adapter = "up" /\ (launch # 0 \/ "launched" \in ready) /\ "init" \notin ready
  /\ ready' = ready \cup {"init"}
  /\ Say(<<Event("initialized")>>)
  /\ UNCHANGED <<toAdapter, adapter, debuggee, launch, epoch, abps>> /\ AdapterFrame

ServeBreakpoints ==
  /\ Serving("setBreakpoints")
  /\ abps' = Served.marks
  /\ Say(<<Response(Served.seq, TRUE, Nothing)>>)
  /\ UNCHANGED <<adapter, debuggee, launch, ready, epoch>> /\ AdapterFrame

ServeConfigurationDone ==
  /\ Serving("configurationDone")
  /\ ready' = ready \cup {"configured"}
  /\ debuggee' = IF "launched" \in ready /\ debuggee = "none" THEN "running" ELSE debuggee
  /\ Say(<<Response(Served.seq, TRUE, Nothing)>>)
  /\ UNCHANGED <<adapter, launch, epoch, abps>> /\ AdapterFrame

(* Requests that need nothing of the debuggee. *)
ServePlain ==
  \E kind \in {"setExceptionBreakpoints", "evaluate", "pause"} :
    /\ Serving(kind)
    /\ Say(<<Response(Served.seq, TRUE, Nothing)>>)
    /\ UNCHANGED adapterVars /\ AdapterFrame

(* Questions about a stopped debuggee; a running one refuses them.  A      *)
(* frame may have no cheap scope (the answer is Nothing).                  *)
ServeQuestion ==
  \E kind \in UiKinds :
    /\ Serving(kind)
    /\ \/ /\ debuggee = "stopped"
          /\ \/ Say(<<Response(Served.seq, TRUE, [epoch |-> epoch, frame |-> Served.frame])>>)
             \/ /\ kind \in {"stackTrace", "scopes"}
                /\ Say(<<Response(Served.seq, TRUE, Nothing)>>)
       \/ /\ debuggee # "stopped"
          /\ Say(<<Response(Served.seq, FALSE, Nothing)>>)
    /\ UNCHANGED adapterVars /\ AdapterFrame

ServeResume ==
  /\ Serving("resume")
  /\ \/ /\ debuggee = "stopped"
        /\ debuggee' = "running"
        /\ Say(<<Response(Served.seq, TRUE, Nothing)>>
               \o IF SaysContinued THEN <<Event("continued")>> ELSE <<>>)
     \/ /\ debuggee # "stopped"
        /\ Say(<<Response(Served.seq, FALSE, Nothing)>>)
        /\ UNCHANGED debuggee
  /\ UNCHANGED <<adapter, launch, ready, epoch, abps>> /\ AdapterFrame

(* `disconnect`: answer and exit. *)
ServeDisconnect ==
  /\ Serving("disconnect")
  /\ adapter' = "dead"
  /\ Say(<<Response(Served.seq, TRUE, Nothing)>>)
  /\ UNCHANGED <<debuggee, launch, ready, epoch, abps>> /\ AdapterFrame

(* A breakpoint, a pause, the end of a step. *)
DebuggeeStops ==
  /\ adapter = "up" /\ debuggee = "running" /\ epoch < MaxStops
  /\ debuggee' = "stopped" /\ epoch' = epoch + 1
  /\ Say(<<Event("stopped")>>)
  /\ UNCHANGED <<toAdapter, adapter, launch, ready, abps>> /\ AdapterFrame

DebuggeeEnds ==
  /\ adapter = "up" /\ debuggee = "running"
  /\ debuggee' = "ended"
  /\ Say(<<Event("terminated")>>)
  /\ UNCHANGED <<toAdapter, adapter, launch, ready, epoch, abps>> /\ AdapterFrame

(* The adapter crashes, or exits after the client closed its input. *)
AdapterDies ==
  /\ adapter = "up"
  /\ adapter' = "dead"
  /\ UNCHANGED <<toAdapter, fromAdapter, debuggee, launch, ready, epoch, abps>>
  /\ AdapterFrame

-----------------------------------------------------------------------------
UserOperation ==
  \/ StartProcess \/ StartJava \/ StartFails \/ Stop \/ Pause
  \/ \E l \in Lines : ToggleBreakpoint(l)
  \/ \E kind \in {"resume", "evaluate"} : Control(kind)
  \/ \E f \in Frames : SelectRow(f)

JavaReady == \E g \in preps : JavaConnected(g) \/ JavaFailed(g) \/ JavaStale(g)

ClientStep ==
  \/ OnUnknownResponse \/ OnIgnoredResponse
  \/ OnInitialized \/ OnStartRefused \/ OnConfigDone \/ OnConfigRefused
  \/ OnStackTrace \/ OnScopes \/ OnVariables
  \/ OnInitializedEvent \/ OnStopped \/ OnContinued \/ OnTerminated
  \/ OnEof \/ OnProcessExit

AdapterServes ==
  \/ ServeRefused \/ ServeInitialize \/ ServeLaunch \/ ServeBreakpoints
  \/ ServeConfigurationDone \/ ServePlain \/ ServeQuestion \/ ServeResume
  \/ ServeDisconnect

AdapterStep ==
  \/ AdapterServes \/ AnswerLaunch \/ RefuseLaunchLate \/ AnnounceInitialized
  \/ DebuggeeStops \/ DebuggeeEnds \/ AdapterDies

Next == UserOperation \/ JavaReady \/ ClientStep \/ AdapterStep

Spec == Init /\ [][Next]_vars

(* The main loop dispatches every ready source; the language server calls  *)
(* back; the adapter serves its requests, answers a launch and announces   *)
(* itself.  Nothing obliges the user, the debuggee or a crash.             *)
Fairness ==
  /\ WF_vars(JavaReady) /\ WF_vars(ClientStep)
  /\ WF_vars(AdapterServes) /\ WF_vars(AnswerLaunch) /\ WF_vars(AnnounceInitialized)

FairSpec == Spec /\ Fairness

-----------------------------------------------------------------------------
TypeOK ==
  /\ state \in States /\ gen \in Nat /\ stack \in Nat /\ selected \in 0 .. NFrames
  /\ locals \in Shown /\ marker \in Shown /\ reported \in BOOLEAN
  /\ bps \in SUBSET Lines /\ preps \in SUBSET Nat
  /\ client \in {"none", "process", "socket"}
  /\ alive \in BOOLEAN /\ exited \in BOOLEAN /\ reading \in BOOLEAN /\ outOpen \in BOOLEAN
  /\ pending \in SUBSET Pending /\ nextSeq \in Nat
  /\ toAdapter \in Seq(Request) /\ fromAdapter \in Seq(Message)
  /\ adapter \in {"none", "up", "dead"} /\ debuggee \in {"none", "running", "stopped", "ended"}
  /\ launch \in Nat /\ ready \in SUBSET {"init", "launched", "configured"}
  /\ epoch \in Nat /\ abps \in SUBSET Lines
  /\ sessions \in Nat /\ ops \in Nat /\ startToggles \in Nat

(* An ended session, or one that never began, shows no stack, no variables *)
(* and no execution marker: end_session clears them, and no answer that    *)
(* was still on its way when the session ended may bring them back.        *)
EndedShowsNothing ==
  state \in {"IDLE", "ENDED"} => stack = 0 /\ locals = Nothing /\ marker = Nothing

(* "paused: stack and variables are valid": nothing of the debuggee is     *)
(* shown unless the session is paused, although the answers to stackTrace, *)
(* scopes and variables cross the events that resume or end the session.   *)
ShownOnlyWhilePaused ==
  state # "STOPPED" => stack = 0 /\ locals = Nothing /\ marker = Nothing

(* Once the adapter of a live session is configured and has read all it    *)
(* was sent, it knows exactly the breakpoints set in the editor, however   *)
(* the toggles, the handshake and the stops interleave -- provided none    *)
(* was toggled while the session was STARTING.                             *)
BreakpointsAgree ==
  (/\ state \in {"RUNNING", "STOPPED"} /\ alive /\ adapter = "up"
   /\ "configured" \in ready /\ toAdapter = <<>> /\ startToggles = 0)
  => abps = bps

(* What the panel shows holds: frames and variables are those of a paused  *)
(* session, and the adapter has the breakpoints the editor shows           *)
(* (ide_dap.c).                                                            *)
PanelAgrees == TypeOK /\ ShownOnlyWhilePaused /\ BreakpointsAgree

(* A client in use is replaced or dropped only between two sessions: a     *)
(* Java preparation that calls back late, after its session was stopped    *)
(* and another one started, never takes the place of that one's client.    *)
ClientKeptDuringSession ==
  [][client # "none" /\ (client' # client \/ nextSeq' < nextSeq) => state \notin Active]_vars

(* The session leaves STARTING: it runs, stops or ends, whichever requests *)
(* of the handshake the adapter refuses -- unless it refuses               *)
(* configurationDone: then on_config_done only says so in the console, and *)
(* the panel may show STARTING until the user stops the session.           *)
StartSettles ==
  (state = "STARTING") ~> (state # "STARTING" \/ reported)

(* ide_dap.h: "The session became active (starting / running / paused) or  *)
(* ended": an ended session becomes active only by being started.          *)
EndedStaysEnded == [][state = "ENDED" => state' \in {"ENDED", "STARTING"}]_vars
=============================================================================
